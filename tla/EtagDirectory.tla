---------------------------- MODULE EtagDirectory ----------------------------
(***************************************************************************)
(* What binding a subject to an etag promises: the network has one          *)
(* directory; a subject that is not in it gets a free etag, and whoever     *)
(* binds a subject learns its entry, or 0 when there was no room for it.    *)
(***************************************************************************)
EXTENDS Integers

CONSTANTS
    Subjects, \* the subjects that are bound
    UID,      \* no subject: a free entry
    Etags     \* the etags that are given out

VARIABLES
    etags,  \* the directory: the subject of each etag
    bound   \* what the binds returned: pairs of a subject and an etag, or 0

Init == etags = [e \in Etags |-> UID] /\ bound = {}

Assigned(s) == \E e \in Etags : etags[e] = s

\* Who binds a new subject on the broker's node learns its etag at once.
Assign(s) ==
    /\ ~Assigned(s)
    /\ \E e \in Etags : /\ etags[e] = UID
                        /\ etags' = [etags EXCEPT ![e] = s]
                        /\ bound' \in {bound, bound \cup {<<s, e>>}}

Learn(s, e) ==
    /\ etags[e] = s
    /\ bound' = bound \cup {<<s, e>>}
    /\ UNCHANGED etags

Refuse(s) ==
    /\ ~Assigned(s) /\ ~Assigned(UID)
    /\ bound' = bound \cup {<<s, 0>>}
    /\ UNCHANGED etags

Next == \E s \in Subjects : Assign(s) \/ Refuse(s) \/ \E e \in Etags : Learn(s, e)

Spec == Init /\ [][Next]_<<etags, bound>>
-----------------------------------------------------------------------------
TypeOK == etags \in [Etags -> Subjects \cup {UID}] /\ bound \subseteq Subjects \X (Etags \cup {0})

\* All that bound a subject hold the same etag, and no other subject's: publishers
\* and subscribers of a subject meet on the network, and only they.
EtagsNameSubjects ==
    \A p, q \in bound : p[2] # 0 /\ q[2] # 0 => (p[1] = q[1] <=> p[2] = q[2])
=============================================================================
