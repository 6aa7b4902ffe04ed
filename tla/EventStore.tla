------------------------------ MODULE EventStore ------------------------------
(***************************************************************************)
(* The JSON-lines event store of the flourish server                       *)
(* (server/adapter/jsonfile/event_store.go): one append-only file per      *)
(* entry, mirrored in memory, with global deduplication by request id.     *)
(*                                                                         *)
(* Append runs under the store's mutex, so it is one step; what can cut it *)
(* in two is the file system (a write that fails) or the end of the        *)
(* process (a crash during the write).  loadAll reads the files back one   *)
(* line per step, so that a crash may also hit the load.                   *)
(*                                                                         *)
(* A file is a sequence of LINES.  json.Unmarshal accepts a line exactly   *)
(* when it holds one complete event, so a line is either that event or     *)
(* Garbage: a fragment, or several writes glued together because the       *)
(* earlier one did not reach its newline.                                  *)
(***************************************************************************)
EXTENDS Integers, Sequences, FiniteSets

CONSTANTS
    Entry,        \* ids of the entries (one file each)
    Request,      \* request ids chosen by the clients
    Torn,         \* how an interrupted write may leave the file, see Outcome
    MaxCrashes,   \* bound: process crashes in a behaviour
    MaxErrors,    \* bound: writes that fail while the process lives on
    Garbage       \* a line json.Unmarshal rejects

Event == [seq : Nat \ {0}, req : Request]

(***************************************************************************)
(* What a write may leave behind: nothing, a prefix of the event, the      *)
(* whole event without its newline, or the full line.                      *)
(***************************************************************************)
Outcome == {"none", "part", "noeol", "full"}

ASSUME TornAssumption == Torn \subseteq {"part", "noeol"}
ASSUME GarbageAssumption == Garbage \notin Event
ASSUME BoundAssumption == MaxCrashes \in Nat /\ MaxErrors \in Nat

VARIABLES
    mode,      \* "loading" inside NewEventStore, then "serving"
    events,    \* in memory: the events of each entry, in append order
    seqs,      \* in memory: the highest server_seq of each entry
    seen,      \* in memory: every request id stored so far
    lines,     \* on disk: the lines of each entry's file
    open,      \* on disk: the file does not end in a newline
    pos,       \* loadAll: how many lines of each file have been read
    acked,     \* history: what Append returned without an error
    crashes,   \* bounded by MaxCrashes
    errors     \* bounded by MaxErrors

memory == <<events, seqs, seen>>
disk == <<lines, open>>
vars == <<mode, events, seqs, seen, lines, open, pos, acked, crashes, errors>>

Ack == [entry : Entry, req : Request, seq : Nat]

TypeOK ==
    /\ mode \in {"loading", "serving"}
    /\ events \in [Entry -> Seq(Event)]
    /\ seqs \in [Entry -> Nat]
    /\ seen \in SUBSET Request
    /\ lines \in [Entry -> Seq(Event \cup {Garbage})]
    /\ open \in [Entry -> BOOLEAN]
    /\ pos \in [Entry -> Nat]
    /\ acked \in SUBSET Ack
    /\ crashes \in 0 .. MaxCrashes
    /\ errors \in 0 .. MaxErrors

\* A first start in an empty data directory.
Init ==
    /\ mode = "loading"
    /\ events = [e \in Entry |-> <<>>]
    /\ seqs = [e \in Entry |-> 0]
    /\ seen = {}
    /\ pos = [e \in Entry |-> 0]
    /\ lines = [e \in Entry |-> <<>>]
    /\ open = [e \in Entry |-> FALSE]
    /\ acked = {}
    /\ crashes = 0
    /\ errors = 0

-----------------------------------------------------------------------------
\* loadAll takes an event into memory; the counter of its entry rises to it.
Learn_NoCounter(e, ev) ==                                          \* mutant
    /\ events' = [events EXCEPT ![e] = Append(@, ev)]
    /\ seen' = seen \cup {ev.req}
    /\ UNCHANGED seqs

Learn_NotSeen(e, ev) ==                                            \* mutant
    /\ events' = [events EXCEPT ![e] = Append(@, ev)]
    /\ seqs' = [seqs EXCEPT ![e] = IF ev.seq > @ THEN ev.seq ELSE @]
    /\ UNCHANGED seen

Learn(e, ev) ==
    /\ events' = [events EXCEPT ![e] = Append(@, ev)]
    /\ seen' = seen \cup {ev.req}
    /\ seqs' = [seqs EXCEPT ![e] = IF ev.seq > @ THEN ev.seq ELSE @]

\* loadAll: the scanner loop over one file skips a line that does not parse.
LoadLine(e) ==
    LET line == lines[e][pos[e] + 1]
    IN  /\ mode = "loading"
        /\ pos[e] < Len(lines[e])
        /\ pos' = [pos EXCEPT ![e] = @ + 1]
        /\ \/ /\ line = Garbage
              /\ UNCHANGED memory
           \/ /\ line # Garbage
              /\ Learn(e, line)
        /\ UNCHANGED <<mode, disk, acked, crashes, errors>>

\* loadAll has read every file: NewEventStore returns and the server starts.
LoadDone ==
    /\ mode = "loading"
    /\ \A e \in Entry : pos[e] = Len(lines[e])
    /\ mode' = "serving"
    /\ UNCHANGED <<memory, disk, pos, acked, crashes, errors>>

-----------------------------------------------------------------------------
(***************************************************************************)
(* appendToFile.  O_APPEND continues the last line when the previous write *)
(* did not end it: the two become one line that no longer parses.          *)
(***************************************************************************)
NewLines(ls, isOpen, ev, how) ==
    CASE how = "none"                    -> ls
      [] how # "none" /\ isOpen          -> [ls EXCEPT ![Len(ls)] = Garbage]
      [] how = "part" /\ ~isOpen         -> Append(ls, Garbage)
      [] how \in {"noeol", "full"} /\ ~isOpen -> Append(ls, ev)

NewOpen(isOpen, how) ==
    \/ how \in {"part", "noeol"}
    \/ how = "none" /\ isOpen

appendToFile_Truncates(e, ev, how) ==                              \* mutant
    /\ lines' = [lines EXCEPT ![e] = NewLines(<<>>, FALSE, ev, how)]
    /\ open' = [open EXCEPT ![e] = NewOpen(FALSE, how)]

appendToFile(e, ev, how) ==
    /\ lines' = [lines EXCEPT ![e] = NewLines(@, open[e], ev, how)]
    /\ open' = [open EXCEPT ![e] = NewOpen(@, how)]

\* The in-memory half of Append, done before the file is touched.
Remember(e, ev) ==
    /\ seen' = seen \cup {ev.req}
    /\ seqs' = [seqs EXCEPT ![e] = ev.seq]
    /\ events' = [events EXCEPT ![e] = Append(@, ev)]

NextEvent_NotIncremented(e, q) == [seq |-> seqs[e], req |-> q]     \* mutant

NextEvent(e, q) == [seq |-> seqs[e] + 1, req |-> q]

\* The event is stored and its sequence number returned.
AppendNew(e, q) ==
    /\ mode = "serving"
    /\ q \notin seen
    /\ Remember(e, NextEvent(e, q))
    /\ appendToFile(e, NextEvent(e, q), "full")
    /\ acked' = acked \cup {[entry |-> e, req |-> q, seq |-> seqs[e] + 1]}
    /\ UNCHANGED <<mode, pos, crashes, errors>>

\* A request id that was seen before: Append returns 0 and no error.
AppendDuplicate(e, q) ==
    /\ mode = "serving"
    /\ q \in seen
    /\ acked' = acked \cup {[entry |-> e, req |-> q, seq |-> 0]}
    /\ UNCHANGED <<mode, memory, disk, pos, crashes, errors>>

(***************************************************************************)
(* appendToFile returns an error (open, marshal or write): Append reports  *)
(* it, but what it put in memory stays there.                              *)
(***************************************************************************)
AppendError(e, q, how) ==
    /\ mode = "serving"
    /\ q \notin seen
    /\ errors < MaxErrors
    /\ errors' = errors + 1
    /\ Remember(e, NextEvent(e, q))
    /\ appendToFile(e, NextEvent(e, q), how)
    /\ UNCHANGED <<mode, pos, acked, crashes>>

\* The process ends; what was in memory is gone and the next start reloads.
Reset ==
    /\ crashes < MaxCrashes
    /\ crashes' = crashes + 1
    /\ mode' = "loading"
    /\ events' = [e \in Entry |-> <<>>]
    /\ seqs' = [e \in Entry |-> 0]
    /\ seen' = {}
    /\ pos' = [e \in Entry |-> 0]
    /\ UNCHANGED <<acked, errors>>

Crash ==
    /\ Reset
    /\ UNCHANGED disk

\* The process ends inside appendToFile: the caller never gets its answer.
CrashInAppend(e, q, how) ==
    /\ mode = "serving"
    /\ q \notin seen
    /\ Reset
    /\ appendToFile(e, NextEvent(e, q), how)

Next ==
    \/ \E e \in Entry : LoadLine(e)
    \/ LoadDone
    \/ \E e \in Entry, q \in Request :
          \/ AppendNew(e, q)
          \/ AppendDuplicate(e, q)
          \/ \E how \in {"none"} \cup Torn : AppendError(e, q, how)
          \/ \E how \in {"full"} \cup Torn : CrashInAppend(e, q, how)
    \/ Crash

Spec == Init /\ [][Next]_vars

-----------------------------------------------------------------------------
(***************************************************************************)
(* Properties                                                              *)
(***************************************************************************)

\* The line numbers of e's file that loadAll accepts.
Good(e) == {i \in DOMAIN lines[e] : lines[e][i] # Garbage}

\* What is on disk for good, as a set of records: the log a restart recovers.
Persisted ==
    UNION {{[entry |-> e, seq |-> lines[e][i].seq, req |-> lines[e][i].req] :
               i \in Good(e)} : e \in Entry}

(***************************************************************************)
(* The server_seq values of an entry's events strictly increase in list    *)
(* order, and MaxServerSeq is the last of them: a client that asks         *)
(* ListAfter for everything after the maximum it was told misses nothing   *)
(* that was stored before, whatever crashes and torn lines came first.     *)
(***************************************************************************)
ServerSeqOrdered ==
    \A e \in Entry :
        /\ \A i, j \in DOMAIN events[e] :
              i < j => events[e][i].seq < events[e][j].seq
        /\ events[e] = <<>> => seqs[e] = 0
        /\ events[e] # <<>> => seqs[e] = events[e][Len(events[e])].seq

(***************************************************************************)
(* Append's deduplication is global: no request id occurs twice, in one    *)
(* entry or in two, not even when it was lost in a torn line and sent      *)
(* again after a restart.                                                  *)
(***************************************************************************)
NoDuplicateRequest ==
    \A e, f \in Entry :
        \A i \in DOMAIN events[e], j \in DOMAIN events[f] :
            events[e][i].req = events[f][j].req => e = f /\ i = j

(***************************************************************************)
(* An event whose sequence number Append returned is on disk, so it        *)
(* survives every crash.                                                   *)
(***************************************************************************)
AckedSurvives ==
    \A a \in acked : a.seq > 0 => a \in Persisted

\* Every file is a sequence of complete lines: no write was cut so far.
Untorn == \A e \in Entry : ~open[e] /\ Good(e) = DOMAIN lines[e]

(***************************************************************************)
(* Until a write is cut in the middle nothing acknowledged is ever lost,   *)
(* whatever crashes and failed writes Append meets: the torn line is the   *)
(* only way for the file to lose what Append has promised.                 *)
(***************************************************************************)
AckedUntilTorn == Untorn => AckedSurvives

(***************************************************************************)
(* The store implements an append-only log (EventLog) whose content is     *)
(* what the files hold: every step, crashes, failed writes and reloads     *)
(* included, adds one record with a fresh request and a higher sequence    *)
(* number, or leaves the log as it is.                                     *)
(***************************************************************************)
Log == INSTANCE EventLog WITH log <- Persisted

ImplementsEventLog == Log!Spec

=============================================================================
