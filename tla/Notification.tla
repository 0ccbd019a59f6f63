---------------------------- MODULE Notification ----------------------------
(***************************************************************************)
(* What the event dispatcher promises its users, without pointers: two     *)
(* registries of channels and, per context, nested publications, each of   *)
(* which notifies the registered subscribers of its subject, one at a time *)
(* and each of them once.                                                  *)
(***************************************************************************)
EXTENDS Naturals, Sequences, SequencesExt

CONSTANTS Publisher, Subscriber, Pubs, Subs, Subjects, SubjectOf, Contexts, Null

VARIABLES
    registry,    \* the channels of each queue, in the order of registration
    activations  \* per context, its publications in progress, outermost first

nvars == <<registry, activations>>

InRegistry(q, c) == \E i \in 1 .. Len(registry[q]) : registry[q][i] = c

NInit ==
    /\ registry = [q \in {Publisher, Subscriber} |-> <<>>]
    /\ activations = [p \in Contexts |-> <<>>]

Enter(q, c) ==
    /\ ~InRegistry(q, c)
    /\ registry' = [registry EXCEPT ![q] = Append(@, c)]
    /\ UNCHANGED activations

\* A channel that leaves is owed nothing any more.
Leave(q, i) ==
    /\ registry' = [registry EXCEPT ![q] = RemoveAt(@, i)]
    /\ activations' = [p \in Contexts |-> [k \in 1 .. Len(activations[p]) |->
                        [activations[p][k] EXCEPT !.due = @ \ {registry[q][i]},
                                                  !.called = @ \ {registry[q][i]}]]]

Current(p) == activations[p][Len(activations[p])]

\* A publication comes from the main program or from the callback of another one.
Begin(p, s) ==
    /\ activations[p] # <<>> => Current(p).now # Null
    /\ activations' = [activations EXCEPT ![p] = Append(@,
         [subject |-> s,
          due |-> {c \in Subs : InRegistry(Subscriber, c) /\ SubjectOf[c] = s},
          called |-> {}, now |-> Null])]
    /\ UNCHANGED registry

\* The first registered subscriber of the subject that was not notified yet.
Notify(p, i) ==
    LET c == registry[Subscriber][i] IN
    /\ activations[p] # <<>>
    /\ Current(p).now = Null
    /\ SubjectOf[c] = Current(p).subject
    /\ c \notin Current(p).called
    /\ \A j \in 1 .. i - 1 :
         SubjectOf[registry[Subscriber][j]] = Current(p).subject
           => registry[Subscriber][j] \in Current(p).called
    /\ activations' = [activations EXCEPT ![p][Len(activations[p])] =
         [subject |-> @.subject, due |-> @.due, called |-> @.called \cup {c}, now |-> c]]
    /\ UNCHANGED registry

\* The callback that is being executed returns.
Notified(p) ==
    /\ activations[p] # <<>>
    /\ Current(p).now # Null
    /\ activations' = [activations EXCEPT ![p][Len(activations[p])].now = Null]
    /\ UNCHANGED registry

End(p) ==
    /\ activations[p] # <<>>
    /\ Current(p).now = Null
    /\ Current(p).due \subseteq Current(p).called
    /\ activations' = [activations EXCEPT ![p] = SubSeq(@, 1, Len(@) - 1)]
    /\ UNCHANGED registry

NNext ==
    \/ \E c \in Pubs : Enter(Publisher, c)
    \/ \E c \in Subs : Enter(Subscriber, c)
    \/ \E q \in {Publisher, Subscriber} : \E i \in 1 .. Len(registry[q]) : Leave(q, i)
    \/ \E p \in Contexts :
         \/ \E s \in Subjects : Begin(p, s)
         \/ \E i \in 1 .. Len(registry[Subscriber]) : Notify(p, i)
         \/ Notified(p)
         \/ End(p)

Spec == NInit /\ [][NNext]_nvars
=============================================================================
