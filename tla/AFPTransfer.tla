---------------------------- MODULE AFPTransfer ----------------------------
(***************************************************************************)
(* Events that are larger than the payload of a network: publishers cut    *)
(* them with a Fragmenter, the fragments travel over a network that may    *)
(* lose, reorder or repeat them, and one DefragmentationProcessor of the   *)
(* receiving node (include/mw/afp/Defragmentation.h) sorts them into       *)
(* Defragmenters with its demultiplexer and hands complete events on.      *)
(*                                                                         *)
(* conf is the compile time configuration of AFP (afp/Config.h) together   *)
(* with the kind of network it is used on; it never changes.  The fields   *)
(* eseq, subjects, reordering, duplicates and FEC are the configuration's, *)
(* as are capacity (concurrent_events and old_event_ids, 0 is "dynamic"),  *)
(* width (bytes of the fragment counter), mtu and red; net is the set of   *)
(* faults of the network; each publisher in pubs is on a node of its own   *)
(* and publishes up to events events with a length in lens.               *)
(***************************************************************************)
EXTENDS Defragmenter, Sequences

CONSTANTS Publishers,  \* one per subject
          Configs,     \* the configurations to choose from
          MaxEvents,   \* events per publisher
          MaxDups,     \* how often the network repeats a fragment
          Keep,        \* seconds an event number is remembered: 3
          MaxTime,     \* bound on the clock
          None

\* An event has data, and no more than headers of three bytes can number.
ASSUME TransferAssumption ==
    /\ MaxEvents \in Nat /\ MaxDups \in Nat /\ Keep \in Nat \ {0} /\ MaxTime \in Nat
    /\ \A c \in Configs :
          /\ c.pubs \subseteq Publishers /\ c.events \in 0 .. MaxEvents
          /\ c.mtu \in Nat /\ c.red \in Nat /\ c.capacity \in Nat /\ c.width \in Nat
          /\ c.eseq \in BOOLEAN
          /\ c.lens \subseteq {len \in Nat \ {0} : Fits(len, c.mtu - ExtHeader(c.eseq, FALSE), 3)}

\* Neither a fragmenter nor the key of an event is None.
ASSUME NoneAssumption == None \notin Frag /\ None \notin Int \X (Publishers \cup {None})

VARIABLES conf,       \* configuration and kind of network
          frag,       \* per publisher: the Fragmenter of the event being sent
          published,  \* per publisher: the events it published so far
          net,        \* fragments under way
          dups,       \* repetitions so far
          demux,      \* the demultiplexer: events by key, queue of outdated keys
          handle,     \* key of the event that is complete and not processed yet
          kept,       \* defragmenters kept for a later delivery
          now,        \* time in seconds
          received,   \* how often each event was handed on, whole
          corrupt,    \* how often anything else was handed on
          heard,      \* per event: numbers of the fragments that arrived
          failed      \* an assertion of the code has failed: the program stops

vars == <<conf, frag, published, net, dups, demux, handle, kept, now, received,
          corrupt, heard, failed>>

Events == Publishers \X (1 .. MaxEvents)
IsPublished(e) == e[2] <= Len(published[e[1]])
EventOf(e) == published[e[1]][e[2]]

Kind == IF conf.FEC THEN "fec" ELSE IF conf.reordering THEN "outoforder" ELSE "inorder"

\* EseqDemuxKey and its kin.  The first event of every node has number 0.
Seq0(f) == f.src[2] - 1
Key(f) == <<IF conf.eseq THEN Seq0(f) ELSE -1,
            IF conf.subjects THEN f.src[1] ELSE None>>

\* PointerMap::find: the array of fixed size compares whole keys, the map of
\* dynamic size orders them by the number alone, if there is one.
Found(events, key) ==
    {k \in DOMAIN events : IF conf.eseq /\ conf.capacity = 0 THEN k[1] = key[1] ELSE k = key}

----------------------------------------------------------------------------
\* The demultiplexers.

Without(events, keys) == [k \in DOMAIN events \ keys |-> events[k]]
With(events, key, e) == [k \in DOMAIN events \cup {key} |-> IF k = key THEN e ELSE events[k]]

NewEvent(f) == [def |-> NewDefragmenter(conf.mtu - ExtHeader(conf.eseq, f.fec)),
                outdated |-> FALSE, expire |-> now + Keep]

\* clean_outdated_events: from the front of the queue, as far as expired.
Expired(d, t) ==
    {i \in DOMAIN d.outdated : \A j \in 1 .. i : d.events[d.outdated[j]].expire < t}
CleanOutdated(d, t) ==
    [events   |-> Without(d.events, {d.outdated[i] : i \in Expired(d, t)}),
     outdated |-> SubSeq(d.outdated, Cardinality(Expired(d, t)) + 1, Len(d.outdated))]

QueueFull(d) == conf.capacity # 0 /\ Len(d.outdated) = conf.capacity

\* set_event_outdated: the defragmenter goes, the key stays for a while.
CleanedFor(d) ==
    LET e == CleanOutdated(d, now)
    IN  IF QueueFull(e) THEN CleanOutdated(e, e.events[Head(e.outdated)].expire) ELSE e
\* Mutant of SetOutdated: the number is remembered for no time at all.
SetOutdatedNow(d, key) ==
    LET e == CleanedFor(d)
    IN  [events   |-> With(e.events, key, [e.events[key] EXCEPT
                            !.def = None, !.outdated = TRUE, !.expire = now]),
         outdated |-> Append(e.outdated, key)]
SetOutdated(d, key) ==
    LET e == CleanedFor(d)
    IN  [events   |-> With(e.events, key, [e.events[key] EXCEPT
                            !.def = None, !.outdated = TRUE, !.expire = now + Keep]),
         outdated |-> Append(e.outdated, key)]

\* free_defragmenter of the three demultiplexers.
Free(d, key) == IF conf.eseq THEN SetOutdated(d, key)
                             ELSE [d EXCEPT !.events = Without(@, {key})]
FreeFails(d) == conf.eseq /\ QueueFull(CleanedFor(d))

\* clean_incomplete_untouched_events, called for every tenth fragment.
CleanIncomplete(d) ==
    [d EXCEPT !.events = Without(@, {k \in DOMAIN @ : ~@[k].outdated /\ @[k].expire < now})]

\* get_defragmenter_handle: the key of the event a fragment goes to, None to
\* drop it, and the demultiplexer afterwards.
MapFull(d, size) == conf.capacity # 0 /\ Cardinality(DOMAIN d.events) >= size

SeqHandle(d, f) ==
    LET found == Found(d.events, Key(f))
        key   == CHOOSE k \in found : TRUE
        e     == d.events[key]
    IN  CASE found = {} /\ MapFull(d, 2 * conf.capacity) -> [key |-> None, demux |-> d]
          [] found = {} /\ ~MapFull(d, 2 * conf.capacity) ->
                [key |-> Key(f), demux |-> [d EXCEPT !.events = With(@, Key(f), NewEvent(f))]]
          [] found # {} /\ (e.outdated \/ Complete(Kind, e.def)) -> [key |-> None, demux |-> d]
          [] OTHER ->
                [key |-> key,
                 demux |-> IF Seq0(f) % 4 = 0
                           THEN [d EXCEPT !.events[key].expire = now + Keep] ELSE d]

\* SingleEventDemux and MultiSourceDemux: a first fragment replaces the event
\* of its source, any other needs one.
FirstHandle(d, f) ==
    LET e == [d EXCEPT !.events = Without(@, {Key(f)})]
    IN  CASE f.first /\ conf.subjects /\ MapFull(e, conf.capacity) -> [key |-> None, demux |-> e]
          [] f.first /\ ~(conf.subjects /\ MapFull(e, conf.capacity)) ->
                [key |-> Key(f), demux |-> [e EXCEPT !.events = With(@, Key(f), NewEvent(f))]]
          [] ~f.first /\ Key(f) \in DOMAIN d.events -> [key |-> Key(f), demux |-> d]
          [] OTHER -> [key |-> None, demux |-> d]

Handle(d, f) == IF conf.eseq THEN SeqHandle(d, f) ELSE FirstHandle(d, f)

\* The assertion that the event found is the one looked for.
WrongEvent(d, f) == conf.eseq /\ \E k \in Found(d.events, Key(f)) : k # Key(f)

----------------------------------------------------------------------------
\* The keys there can be.
Keys(c) == (IF c.eseq THEN 0 .. c.events - 1 ELSE {-1}) \X (IF c.subjects THEN c.pubs ELSE {None})

\* Configurations whose parts fit each other: keep_event needs EventSeqDemux; the
\* map of dynamic size, which looks at numbers alone, gets events of one publisher;
\* and the queue of fixed size has room for every key there can be.
Suited(c) ==
    /\ c.keeps => c.eseq
    /\ c.eseq /\ c.subjects /\ c.capacity = 0 => \A p, q \in c.pubs : p = q
    /\ c.eseq /\ c.capacity # 0 => IsFiniteSet(Keys(c)) /\ Cardinality(Keys(c)) <= c.capacity

\* Configurations that tell the fragments of one event from those of another: what
\* the network does to them needs event numbers, several publishers their subjects,
\* and repetitions a check, but where the next fragment is the only one accepted.
Separated(c) ==
    /\ c.net # {} => c.eseq
    /\ ~c.subjects => \A p, q \in c.pubs : p = q
    /\ "dup" \in c.net /\ (c.reordering \/ c.FEC) => c.duplicates

\* Configurations that give up no event of which enough arrives: fragments that come
\* late or twice are expected, each source has a place, and without event numbers,
\* where the first fragment begins the event, redundancy needs none of its headers
\* rejected.
Adequate(c) ==
    /\ "reorder" \in c.net => c.reordering \/ c.FEC
    /\ "dup" \in c.net => c.duplicates
    /\ ~c.eseq /\ c.capacity # 0 => IsFiniteSet(Keys(c)) /\ Cardinality(Keys(c)) <= c.capacity
    /\ ~c.eseq /\ c.FEC /\ c.red # 0 => c.width >= 3

----------------------------------------------------------------------------
Init ==
    /\ conf \in Configs
    /\ frag = [p \in Publishers |-> None]
    /\ published = [p \in Publishers |-> <<>>]
    /\ net = {}
    /\ dups = 0
    /\ demux = [events |-> [k \in {} |-> None], outdated |-> <<>>]
    /\ handle = None
    /\ kept = {}
    /\ now = 0
    /\ received = [e \in Events |-> 0]
    /\ corrupt = 0
    /\ heard = [e \in Events |-> {}]
    /\ failed = FALSE

\* AbstractNetworkLayer::write or AFPPublisherEventChannel::publish: a
\* fragmenter for the event; an event it rejects is not sent, but has taken a
\* number.
Publish(p, len) ==
    /\ ~failed
    /\ p \in conf.pubs
    /\ frag[p] = None
    /\ Len(published[p]) < conf.events
    /\ LET f == IF conf.FEC
                THEN InitFEC(len, conf.mtu, conf.eseq, conf.red)
                ELSE InitNoFEC(len, conf.mtu - ExtHeader(conf.eseq, FALSE))
       IN  /\ published' = [published EXCEPT ![p] = Append(@,
                [len |-> len, count |-> f.remaining, k |-> f.k, at |-> now])]
           /\ frag' = [frag EXCEPT ![p] = IF f.err THEN None ELSE f]
    /\ UNCHANGED <<conf, net, dups, demux, handle, kept, now, received, corrupt, heard, failed>>

\* One turn of the loop of the publisher over get_fragment.
SendFragment(p) ==
    /\ ~failed
    /\ frag[p] # None
    /\ net' = net \cup {FragmentOf(frag[p], <<p, Len(published[p])>>)}
    /\ frag' = [frag EXCEPT ![p] =
            IF frag[p].remaining = 1 THEN None ELSE AfterFragment(frag[p])]
    /\ UNCHANGED <<conf, published, dups, demux, handle, kept, now, received, corrupt, heard,
                   failed>>

\* Without reordering the fragments of a publisher arrive as they were sent.
Earlier(f, g) == \/ f.src[2] < g.src[2]
                 \/ f.src[2] = g.src[2] /\ f.fseq > g.fseq
MayArrive(f) == "reorder" \in conf.net
                \/ ~\E g \in net : g.src[1] = f.src[1] /\ Earlier(g, f)

\* The network delivers a fragment; again is TRUE when it comes once more.
Arrives(f, again) ==
    /\ ~failed
    /\ handle = None
    /\ f \in net /\ MayArrive(f)
    /\ again => "dup" \in conf.net /\ dups < MaxDups
    /\ dups' = IF again THEN dups + 1 ELSE dups
    /\ net' = IF again THEN net ELSE net \ {f}

\* Headers: a basic header longer than the fragment counter is an error.
\* Mutant: the longest header the counter can hold is an error as well.
HeaderErrorEarly(f) == f.blen >= conf.width
HeaderError(f) == f.blen > conf.width

DropFragment(f, again) ==
    /\ Arrives(f, again)
    /\ HeaderError(f)
    /\ UNCHANGED <<conf, frag, published, demux, handle, kept, now, received, corrupt, heard,
                   failed>>

\* DefragmentationProcessor::process_fragment.  The call that cleans is every
\* tenth of all calls in the process, which may be any of the ones seen here.
ProcessFragment(f, again, cleans) ==
    /\ Arrives(f, again)
    /\ ~HeaderError(f)
    /\ cleans => conf.eseq
    /\ LET d   == IF cleans THEN CleanIncomplete(demux) ELSE demux
           h   == Handle(d, f)
           def == h.demux.events[h.key].def
           put == PutFragment(Kind, conf.duplicates, def, f)
           updated == [h.demux EXCEPT !.events[h.key].def = put]
       IN  \/ /\ h.key = None
              /\ demux' = h.demux
              /\ failed' = WrongEvent(d, f)
              /\ UNCHANGED handle
           \/ /\ h.key # None /\ Error(put)
              /\ demux' = Free(updated, h.key)
              /\ failed' = (WrongEvent(d, f) \/ FreeFails(updated))
              /\ UNCHANGED handle
           \/ /\ h.key # None /\ ~Error(put)
              /\ demux' = updated
              /\ handle' = IF Complete(Kind, put) THEN h.key ELSE None
              /\ failed' = (WrongEvent(d, f) \/ (put # def /\ ~AsExpected(Kind, def, f)))
    /\ heard' = [heard EXCEPT ![f.src] = @ \cup {f.fseq}]
    /\ UNCHANGED <<conf, frag, published, kept, now, received, corrupt>>

LoseFragment(f) ==
    /\ "loss" \in conf.net
    /\ f \in net
    /\ net' = net \ {f}
    /\ UNCHANGED <<conf, frag, published, dups, demux, handle, kept, now, received, corrupt,
                   heard, failed>>

\* The subscriber's callback gets the data of a defragmenter.
HandOn(def) ==
    LET whole == {e \in Events : IsPublished(e) /\ Intact(Kind, def, e, EventOf(e).len)}
    IN  /\ received' = [e \in Events |-> IF e \in whole THEN received[e] + 1 ELSE received[e]]
        /\ corrupt' = IF whole = {} THEN corrupt + 1 ELSE corrupt

\* AFPSubscriberEventChannel::incoming_event after process_fragment, or the
\* dispatcher and then event_processed.
EventProcessed ==
    /\ ~failed
    /\ handle # None
    /\ HandOn(demux.events[handle].def)
    /\ demux' = Free(demux, handle)
    /\ failed' = FreeFails(demux)
    /\ handle' = None
    /\ UNCHANGED <<conf, frag, published, net, dups, kept, now, heard>>

\* DefragmentationProcessorKeepEventSupport: keep_event and, later,
\* kept_event_processed.
KeepEvent ==
    /\ ~failed
    /\ handle # None
    /\ conf.keeps
    /\ kept' = kept \cup {demux.events[handle].def}
    /\ demux' = SetOutdated(demux, handle)
    /\ failed' = FreeFails(demux)
    /\ handle' = None
    /\ UNCHANGED <<conf, frag, published, net, dups, now, received, corrupt, heard>>

KeptEventProcessed(d) ==
    /\ ~failed
    /\ d \in kept
    /\ HandOn(d)
    /\ kept' = kept \ {d}
    /\ UNCHANGED <<conf, frag, published, net, dups, demux, handle, now, heard, failed>>

\* A fragment is under way for less time than an event number is remembered.
Fresh(src) == now - EventOf(src).at < Keep

Tick ==
    /\ ~failed
    /\ conf.eseq
    /\ now < MaxTime
    /\ \A f \in net : Fresh(f.src)
    /\ \A p \in Publishers : frag[p] # None => Fresh(<<p, Len(published[p])>>)
    /\ now' = now + 1
    /\ UNCHANGED <<conf, frag, published, net, dups, demux, handle, kept, received, corrupt,
                   heard, failed>>

Next ==
    \/ \E p \in Publishers : (\E len \in conf.lens : Publish(p, len)) \/ SendFragment(p)
    \/ \E f \in net, again \in BOOLEAN :
          \/ DropFragment(f, again)
          \/ \E cleans \in BOOLEAN : ProcessFragment(f, again, cleans)
    \/ \E f \in net : LoseFragment(f)
    \/ EventProcessed
    \/ KeepEvent
    \/ \E d \in kept : KeptEventProcessed(d)
    \/ Tick

\* The publishers' loops, a network that loses nothing and the receiver go on
\* as long as one of them has something to do.
Lossless == "loss" \notin conf.net
Work ==
    /\ Lossless
    /\ \/ \E p \in Publishers : SendFragment(p)
       \/ EventProcessed
       \/ \E d \in kept : KeptEventProcessed(d)
       \/ \E f \in net : DropFragment(f, FALSE) \/ ProcessFragment(f, FALSE, FALSE)

Spec == Init /\ [][Next]_vars
FairSpec == Spec /\ WF_vars(Work)

----------------------------------------------------------------------------
\* No assertion of the defragmentation code fails: a fragment gets to a
\* defragmenter of its own event that still waits for it, has the length its
\* place in the buffer asks for, and the queue of outdated numbers has room; the
\* queue and the handle of a complete event name events that are still kept.
AssertionsHold ==
    /\ ~failed
    /\ \A i \in DOMAIN demux.outdated : demux.outdated[i] \in DOMAIN demux.events
    /\ handle # None => handle \in DOMAIN demux.events

\* Between two fragments the fragmenter stands where the defragmenter will put
\* the next fragment: the place of a fragment is computed from its number alone
\* at the receiver, from the lengths of all fragments before it at the sender.
BothCountAlike ==
    \A p \in Publishers : frag[p] # None /\ ~frag[p].fec =>
        LET room  == conf.mtu - ExtHeader(conf.eseq, FALSE)
            count == EventOf(<<p, Len(published[p])>>).count
        IN  frag[p].at = GetPayload(count, room) - GetPayload(frag[p].remaining, room)

\* When enough fragments of an event have arrived (all, or as many as it has
\* fragments with data if there is redundancy), it has been handed on,
\* whatever came late, twice, out of order or in between.
Enough(e) == IF EventOf(e).k = 0 THEN EventOf(e).count ELSE EventOf(e).k
EnoughIsDelivered ==
    handle = None /\ kept = {} =>
        \A e \in Events : IsPublished(e) /\ EventOf(e).count > 0
                          /\ Cardinality(heard[e]) >= Enough(e) => received[e] > 0

\* The subscriber gets whole events, each at most once and none that was not
\* published.
Transfer == INSTANCE EventTransfer WITH
    sent <- {e \in Events : IsPublished(e)}, got <- received
ImplementsTransfer == Transfer!Spec

\* On a network that loses nothing every event the publisher accepted and whose
\* fragments the receiver can number arrives, although the defragmenter may
\* give up an event, or forget one, after some time.
LosslessDelivers ==
    \A e \in Events :
        /\ Lossless
        /\ IsPublished(e) /\ EventOf(e).count \in 1 .. MaxFragments(conf.width)
        ~> received[e] > 0 \/ failed
=============================================================================
