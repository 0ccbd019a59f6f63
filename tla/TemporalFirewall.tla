-------------------------- MODULE TemporalFirewall --------------------------
(***************************************************************************)
(* The double buffered temporal firewall of the real-time channels: one    *)
(* writer stores events, one reader takes the newest of them once per      *)
(* period.  In a publisher channel publish() writes and the task deliver() *)
(* reads; in a subscriber channel the notification writes and the task     *)
(* subscriber_task_func() reads.                                           *)
(*                                                                         *)
(* Events are numbered in the order they are written; 0 stands for the     *)
(* initial contents, whose expiration lies in the past.  A buffer has two  *)
(* fields that are written and read one after the other.                   *)
(***************************************************************************)
EXTENDS Naturals

CONSTANTS
    Platform,       \* "posix" or "avr": which of the two classes is compiled
    WriterPreempts, \* the writer preempts the reader and runs to completion: an interrupt
                    \* handler, or a thread of higher priority
    Paced,          \* no event is written while an earlier one waits for the swap
    MaxEvents       \* bound on the events written

ASSUME FirewallAssumption ==
    /\ Platform \in {"posix", "avr"}
    /\ WriterPreempts \in BOOLEAN /\ Paced \in BOOLEAN
    /\ MaxEvents \in Nat

VARIABLES
    buffer,             \* the two buffers
    write,              \* the index of the writer's buffer
    reading,            \* the reader is between read_lock() and read_unlock()
    swap_after_reading, \* write_unlock() left the swap to the reader
    wpc, wbuf,          \* the writer: its next step and the buffer it was given
    rpc, rbuf,          \* the reader: its next step and the buffer it was given
    got,                \* the fields the reader has read
    published           \* history: the newest event whose write_unlock() is done

firewallVars == <<buffer, write, reading, swap_after_reading, wpc, wbuf, rpc, rbuf, got, published>>

\* The reader's buffer is always the other one.
read == 1 - write

Events  == 0 .. MaxEvents
Contents == [data : Events, expire : Events]
Whole(e) == [data |-> e, expire |-> e]

FirewallInit ==
    /\ buffer = [b \in {0, 1} |-> Whole(0)]
    /\ write = 0
    /\ reading = FALSE
    /\ swap_after_reading = FALSE
    /\ wpc = "idle" /\ wbuf = 0
    /\ rpc = "idle" /\ rbuf = 0
    /\ got = Whole(0)
    /\ published = 0

-----------------------------------------------------------------------------
(* The writer.                                                             *)

\* Every event but the newest is complete.
Newer == published + 1

\* write_lock() takes no lock.
WriteLock ==
    /\ wpc = "idle"
    /\ published < MaxEvents
    /\ Paced => ~swap_after_reading
    /\ wbuf' = write
    /\ wpc' = "data"
    /\ UNCHANGED <<buffer, write, reading, swap_after_reading, rpc, rbuf, got, published>>

StoreData ==
    /\ wpc = "data"
    /\ buffer' = [buffer EXCEPT ![wbuf].data = Newer]
    /\ wpc' = "expire"
    /\ UNCHANGED <<write, reading, swap_after_reading, wbuf, rpc, rbuf, got, published>>

StoreExpire ==
    /\ wpc = "expire"
    /\ buffer' = [buffer EXCEPT ![wbuf].expire = Newer]
    /\ wpc' = "unlock"
    /\ UNCHANGED <<write, reading, swap_after_reading, wbuf, rpc, rbuf, got, published>>

\* Mutant: the buffers are swapped under the reader.
WriteUnlockSwaps ==
    /\ wpc = "unlock"
    /\ write' = 1 - write
    /\ wpc' = "idle"
    /\ published' = Newer
    /\ UNCHANGED <<buffer, reading, swap_after_reading, wbuf, rpc, rbuf, got>>

\* Mutant: an event that finds the reader busy is not announced to it.
WriteUnlockDrops ==
    /\ wpc = "unlock"
    /\ write' = IF reading THEN write ELSE 1 - write
    /\ wpc' = "idle"
    /\ published' = Newer
    /\ UNCHANGED <<buffer, reading, swap_after_reading, wbuf, rpc, rbuf, got>>

\* Mutant: the index of the buffers is incremented, never masked.
WriteUnlockIncrements ==
    /\ wpc = "unlock"
    /\ IF reading THEN /\ swap_after_reading' = TRUE
                       /\ write' = write
                  ELSE /\ write' = write + 1
                       /\ UNCHANGED swap_after_reading
    /\ wpc' = "idle"
    /\ published' = Newer
    /\ UNCHANGED <<buffer, reading, wbuf, rpc, rbuf, got>>

WriteUnlock ==
    /\ wpc = "unlock"
    /\ IF reading THEN /\ swap_after_reading' = TRUE
                       /\ write' = write
                  ELSE /\ write' = 1 - write
                       /\ UNCHANGED swap_after_reading
    /\ wpc' = "idle"
    /\ published' = Newer
    /\ UNCHANGED <<buffer, reading, wbuf, rpc, rbuf, got>>

-----------------------------------------------------------------------------
(* The reader.                                                             *)

CanRead == WriterPreempts => wpc = "idle"

ReadLock ==
    /\ CanRead /\ rpc = "idle"
    /\ reading' = TRUE
    /\ rbuf' = read
    /\ got' = Whole(0)
    /\ rpc' = "expire"
    /\ UNCHANGED <<buffer, write, swap_after_reading, wpc, wbuf, published>>

\* An event that is not expired is delivered; otherwise the exception is signalled.
ReadExpire ==
    /\ CanRead /\ rpc = "expire"
    /\ got' = [got EXCEPT !.expire = buffer[rbuf].expire]
    /\ \E expired \in BOOLEAN : /\ buffer[rbuf].expire = 0 => expired
                                /\ rpc' = IF expired THEN "unlock" ELSE "data"
    /\ UNCHANGED <<buffer, write, reading, swap_after_reading, wpc, wbuf, rbuf, published>>

ReadData ==
    /\ CanRead /\ rpc = "data"
    /\ got' = [got EXCEPT !.data = buffer[rbuf].data]
    /\ rpc' = "unlock"
    /\ UNCHANGED <<buffer, write, reading, swap_after_reading, wpc, wbuf, rbuf, published>>

\* Mutant: the condition of the AVR class in the other one.
SwapAlways == TRUE

\* The AVR class tests the enumerator swap_after_reading, which is not 0, where
\* the other class tests the flag.
SwapAtUnlock == Platform = "avr" \/ swap_after_reading

ReadUnlock ==
    /\ CanRead /\ rpc = "unlock"
    /\ reading' = FALSE
    /\ write' = IF SwapAtUnlock THEN 1 - write ELSE write
    /\ swap_after_reading' = FALSE
    /\ rpc' = "idle"
    /\ UNCHANGED <<buffer, wpc, wbuf, rbuf, got, published>>

-----------------------------------------------------------------------------
Writer == WriteLock \/ StoreData \/ StoreExpire \/ WriteUnlock
Reader == ReadLock \/ ReadExpire \/ ReadData \/ ReadUnlock

FirewallNext == Writer \/ Reader

FirewallSpec == FirewallInit /\ [][FirewallNext]_firewallVars

-----------------------------------------------------------------------------
FirewallTypeOK ==
    /\ buffer \in [{0, 1} -> Contents]
    /\ write \in {0, 1} /\ wbuf \in {0, 1} /\ rbuf \in {0, 1}
    /\ reading \in BOOLEAN /\ swap_after_reading \in BOOLEAN
    /\ wpc \in {"idle", "data", "expire", "unlock"}
    /\ rpc \in {"idle", "expire", "data", "unlock"}
    /\ got \in Contents
    /\ published \in Events

\* The event the reader delivers is one event: its data belong to the expiration
\* time that was checked, although a writer was at work meanwhile.
NoTornRead == got.data \in {0, got.expire}

\* The reader that asks for an event gets the newest one: nothing that was written
\* before read_lock() is overtaken or lost (publish() and deliver() of a channel).
ReaderSeesLatest == [][ReadLock => buffer[read] = Whole(published)]_firewallVars

\* "Reader only gets to see a buffer that was updated by the writer if he calls
\* read_unlock()": a swap always brings a newer event.
SwapBringsNewer == [][read' # read => buffer[read'].data > buffer[read].data]_firewallVars
=============================================================================
