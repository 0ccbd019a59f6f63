SPECIFICATION FairSpec
CONSTANTS
    Publisher = Publisher
    Subscriber = Subscriber
    p1 = p1
    s1 = s1
    s2 = s2
    s3 = s3
    Pubs = {p1}
    Subs = {s1, s2, s3}
    Subjects = {"a", "b"}
    SubjectOf <- MCSubjectOf
    Null = Null
    App = App
    Net = Net
    Contexts = {App, Net}
    Interrupts = {Net}
    May <- MayGateway
    MaxNest = 2
PROPERTY LoopEnds
