--------------------------- MODULE EventStoreProofs ---------------------------
(***************************************************************************)
(* What holds of the event store for every set of entries and requests,    *)
(* every bound on crashes and errors and every kind of torn write.         *)
(***************************************************************************)
EXTENDS EventStore, TLAPS

(***************************************************************************)
(* The inductive invariant.  The properties speak of memory only; a crash  *)
(* rebuilds memory from disk, so the disk has to satisfy them too, and     *)
(* memory has to be related to the disk while it is being rebuilt.         *)
(***************************************************************************)

\* A file without a final newline has a last line.
OpenHasLine == \A e \in Entry : open[e] => lines[e] # <<>>

\* The lines that parse carry increasing sequence numbers ...
DiskOrdered ==
    \A e \in Entry : \A i, j \in Good(e) :
        i < j => lines[e][i].seq < lines[e][j].seq

\* ... and distinct request ids, over all files.
DiskUnique ==
    \A e, f \in Entry : \A i \in Good(e), j \in Good(f) :
        lines[e][i].req = lines[f][j].req => e = f /\ i = j

\* The counter and the seen set cover every line that was read or written.
DiskKnown ==
    \A e \in Entry : \A i \in Good(e) :
        mode = "serving" \/ i <= pos[e] =>
            lines[e][i].seq <= seqs[e] /\ lines[e][i].req \in seen

\* The seen set covers memory.
MemoryKnown ==
    \A e \in Entry : \A i \in DOMAIN events[e] : events[e][i].req \in seen

\* While loading, memory holds nothing but lines already read.
LoadedFromDisk ==
    mode = "loading" =>
        \A e \in Entry :
            /\ pos[e] <= Len(lines[e])
            /\ \A i \in DOMAIN events[e] :
                  \E k \in Good(e) : k <= pos[e] /\ lines[e][k] = events[e][i]

IInv ==
    /\ TypeOK
    /\ OpenHasLine
    /\ DiskOrdered
    /\ DiskUnique
    /\ DiskKnown
    /\ MemoryKnown
    /\ LoadedFromDisk
    /\ ServerSeqOrdered
    /\ NoDuplicateRequest

-----------------------------------------------------------------------------
Line == Event \cup {Garbage}

\* Each line of new is Garbage, or as it was in old, or ev at the end.
OnlyAdds(old, ev, new) ==
    /\ new \in Seq(Line)
    /\ Len(old) <= Len(new)
    /\ \A i \in DOMAIN new :
          \/ new[i] = Garbage
          \/ i \in DOMAIN old /\ new[i] = old[i]
          \/ i = Len(old) + 1 /\ new[i] = ev

(***************************************************************************)
(* appendToFile never revives or reorders a line.                          *)
(***************************************************************************)
LEMMA NewLinesShape ==
    ASSUME NEW ls \in Seq(Line), NEW isOpen \in BOOLEAN, NEW ev \in Event,
           NEW how \in Outcome, isOpen => ls # <<>>
    PROVE  /\ OnlyAdds(ls, ev, NewLines(ls, isOpen, ev, how))
           /\ NewOpen(isOpen, how) => NewLines(ls, isOpen, ev, how) # <<>>
           /\ NewOpen(isOpen, how) \in BOOLEAN
<1> USE DEF OnlyAdds
<1> DEFINE new == NewLines(ls, isOpen, ev, how)
<1>1. CASE how = "none"
  BY <1>1 DEF NewLines, NewOpen, Line
<1>2. CASE how # "none" /\ isOpen
  <2>1. new = [ls EXCEPT ![Len(ls)] = Garbage]
    BY <1>2 DEF NewLines
  <2> HIDE DEF new
  <2>2. Len(ls) \in 1 .. Len(ls)
    BY <1>2
  <2>3. new \in Seq(Line) /\ Len(new) = Len(ls)
    BY <2>1, <2>2 DEF Line
  <2>4. \A i \in DOMAIN new : new[i] = Garbage \/ new[i] = ls[i]
    BY <2>1, <2>2
  <2>5. QED
    BY <2>2, <2>3, <2>4 DEF NewOpen, new
<1>3. CASE how = "part" /\ ~isOpen
  <2>1. new = Append(ls, Garbage)
    BY <1>3 DEF NewLines
  <2> HIDE DEF new
  <2>2. QED
    BY <2>1, <1>3 DEF Line, NewOpen, new
<1>4. CASE how \in {"noeol", "full"} /\ ~isOpen
  <2>1. new = Append(ls, ev)
    BY <1>4 DEF NewLines
  <2> HIDE DEF new
  <2>2. QED
    BY <2>1, <1>4 DEF Line, NewOpen, new
<1>5. QED
  BY <1>1, <1>2, <1>3, <1>4 DEF Outcome

(***************************************************************************)
(* Writing a fresh event, however the write ends, keeps the disk in order. *)
(***************************************************************************)
LEMMA AppendToFileKeepsDisk ==
    ASSUME IInv, mode = "serving",
           NEW e \in Entry, NEW q \in Request, q \notin seen,
           NEW how \in Outcome, appendToFile(e, NextEvent(e, q), how)
    PROVE  /\ lines' \in [Entry -> Seq(Line)]
           /\ open' \in [Entry -> BOOLEAN]
           /\ OpenHasLine'
           /\ DiskOrdered'
           /\ DiskUnique'
           /\ \A f \in Entry : \A i \in Good(f)' :
                 \/ i \in Good(f) /\ lines'[f][i] = lines[f][i]
                 \/ f = e /\ lines'[f][i] = NextEvent(e, q)
<1> DEFINE ev == NextEvent(e, q)
           new == NewLines(lines[e], open[e], ev, how)
<1>1. ev \in Event /\ ev.seq = seqs[e] + 1 /\ ev.req = q
  BY DEF IInv, TypeOK, NextEvent, Event
<1>2. lines[e] \in Seq(Line) /\ open[e] \in BOOLEAN /\ (open[e] => lines[e] # <<>>)
  BY DEF IInv, TypeOK, OpenHasLine, Line
<1> HIDE DEF ev
<1>3. /\ OnlyAdds(lines[e], ev, new)
      /\ NewOpen(open[e], how) => new # <<>>
      /\ NewOpen(open[e], how) \in BOOLEAN
  BY <1>1, <1>2, NewLinesShape, Zenon
<1> HIDE DEF new
<1>4. /\ lines' = [lines EXCEPT ![e] = new]
      /\ open' = [open EXCEPT ![e] = NewOpen(open[e], how)]
  BY DEF appendToFile, new, ev
<1>5. /\ lines' \in [Entry -> Seq(Line)]
      /\ open' \in [Entry -> BOOLEAN]
      /\ lines'[e] = new
      /\ \A f \in Entry \ {e} : lines'[f] = lines[f] /\ open'[f] = open[f]
      /\ open'[e] = NewOpen(open[e], how)
  BY <1>3, <1>4 DEF IInv, TypeOK, Line, OnlyAdds
<1>6. OpenHasLine'
  BY <1>3, <1>5 DEF IInv, OpenHasLine
<1>7. \A f \in Entry : \A i \in Good(f)' :
         \/ i \in Good(f) /\ lines'[f][i] = lines[f][i]
         \/ f = e /\ i = Len(lines[e]) + 1 /\ lines'[f][i] = ev
  BY <1>3, <1>5 DEF Good, OnlyAdds
<1>8. \A f \in Entry : \A i \in Good(f) :
         /\ i \in 1 .. Len(lines[f])
         /\ lines[f][i] \in Event
         /\ lines[f][i].seq <= seqs[f]
         /\ lines[f][i].req \in seen
  BY DEF IInv, TypeOK, DiskKnown, Good
<1>9. DiskOrdered'
  <2> SUFFICES ASSUME NEW f \in Entry, NEW i \in Good(f)', NEW j \in Good(f)', i < j
               PROVE  lines'[f][i].seq < lines'[f][j].seq
    BY DEF DiskOrdered
  <2>1. CASE /\ i \in Good(f) /\ lines'[f][i] = lines[f][i]
             /\ j \in Good(f) /\ lines'[f][j] = lines[f][j]
    BY <2>1 DEF IInv, DiskOrdered
  <2>2. CASE i \in Good(f) /\ lines'[f][i] = lines[f][i] /\ f = e /\ lines'[f][j] = ev
    <3>1. lines[f][i].seq <= seqs[f] /\ lines[f][i].seq \in Nat /\ seqs[f] \in Nat
      BY <2>2, <1>8 DEF IInv, TypeOK, Event
    <3>2. QED
      BY <2>2, <3>1, <1>1
  <2>3. CASE f = e /\ i = Len(lines[e]) + 1
    <3>1. j = Len(lines[e]) + 1 \/ j \in 1 .. Len(lines[e])
      BY <2>3, <1>7, <1>8
    <3>2. Len(lines[e]) \in Nat
      BY <1>2
    <3>3. QED
      BY <2>3, <3>1, <3>2
  <2>4. QED
    BY <1>7, <2>1, <2>2, <2>3
<1>10. DiskUnique'
  <2> SUFFICES ASSUME NEW f \in Entry, NEW g \in Entry,
                      NEW i \in Good(f)', NEW j \in Good(g)',
                      lines'[f][i].req = lines'[g][j].req
               PROVE  f = g /\ i = j
    BY DEF DiskUnique
  <2>1. CASE /\ i \in Good(f) /\ lines'[f][i] = lines[f][i]
             /\ j \in Good(g) /\ lines'[g][j] = lines[g][j]
    BY <2>1 DEF IInv, DiskUnique
  <2>2. CASE i \in Good(f) /\ lines'[f][i] = lines[f][i] /\ lines'[g][j] = ev
    BY <2>2, <1>8, <1>1
  <2>3. CASE lines'[f][i] = ev /\ j \in Good(g) /\ lines'[g][j] = lines[g][j]
    BY <2>3, <1>8, <1>1
  <2>4. CASE f = e /\ i = Len(lines[e]) + 1 /\ g = e /\ j = Len(lines[e]) + 1
    BY <2>4
  <2>5. QED
    BY <1>7, <2>1, <2>2, <2>3, <2>4
<1>11. QED
  BY <1>5, <1>6, <1>7, <1>9, <1>10 DEF ev

-----------------------------------------------------------------------------
(***************************************************************************)
(* loadAll and Append extend memory in the same way: an event with a       *)
(* request that is not in memory and a number above the counter.           *)
(***************************************************************************)
Fresh(e, ev) ==
    /\ seqs[e] < ev.seq
    /\ \A f \in Entry : \A i \in DOMAIN events[f] : events[f][i].req # ev.req

MemoryGrown(e, ev) ==
    /\ events' \in [Entry -> Seq(Event)]
    /\ seqs' \in [Entry -> Nat]
    /\ seen' \in SUBSET Request
    /\ seqs'[e] = ev.seq
    /\ \A f \in Entry : seqs[f] <= seqs'[f]
    /\ \A f \in Entry : \A i \in DOMAIN events'[f] :
          \/ i \in DOMAIN events[f] /\ events'[f][i] = events[f][i]
          \/ f = e /\ events'[f][i] = ev
    /\ MemoryKnown'
    /\ ServerSeqOrdered'
    /\ NoDuplicateRequest'

\* One more event in an entry's memory, newer than all the others.
LEMMA MemoryGrows ==
    ASSUME IInv, NEW e \in Entry, NEW ev \in Event, Fresh(e, ev), Remember(e, ev)
    PROVE  MemoryGrown(e, ev)
<1> USE DEF Fresh, Remember
<1>1. ev.seq \in Nat \ {0} /\ ev.req \in Request
  BY DEF Event
<1>2. events[e] \in Seq(Event) /\ seqs[e] \in Nat /\ \A f \in Entry : seqs[f] \in Nat
  BY DEF IInv, TypeOK
<1>3. /\ seqs' \in [Entry -> Nat] /\ seqs'[e] = ev.seq /\ seen' \in SUBSET Request
      /\ \A f \in Entry \ {e} : seqs'[f] = seqs[f]
  BY <1>1 DEF IInv, TypeOK
<1>4. /\ events' \in [Entry -> Seq(Event)]
      /\ events'[e] = Append(events[e], ev)
      /\ \A f \in Entry \ {e} : events'[f] = events[f]
  BY <1>2 DEF IInv, TypeOK
<1> DEFINE n == Len(events[e])
<1>5. /\ n \in Nat
      /\ Len(events'[e]) = n + 1
      /\ events'[e] # <<>>
      /\ events'[e][n + 1] = ev
      /\ DOMAIN events'[e] = 1 .. n + 1
      /\ DOMAIN events[e] = 1 .. n
      /\ \A i \in 1 .. n : events'[e][i] = events[e][i]
  BY <1>2, <1>4
<1> HIDE DEF n
<1>6. \A i \in 1 .. n : events[e][i].seq \in Nat /\ events[e][i].seq <= seqs[e]
  <2> SUFFICES ASSUME NEW i \in 1 .. n
               PROVE  events[e][i].seq \in Nat /\ events[e][i].seq <= seqs[e]
    OBVIOUS
  <2>1. events[e][i] \in Event /\ events[e][n] \in Event /\ n \in 1 .. n
    BY <1>2, <1>5
  <2>2. events[e][i].seq \in Nat
    BY <2>1 DEF Event
  <2>3. seqs[e] = events[e][n].seq
    BY <1>2, <1>5 DEF IInv, ServerSeqOrdered, n
  <2>4. CASE i = n
    BY <2>2, <2>3, <2>4
  <2>5. CASE i < n
    <3>1. events[e][i].seq < events[e][n].seq
      BY <2>5, <2>1, <1>5 DEF IInv, ServerSeqOrdered
    <3>2. QED
      BY <3>1, <2>2, <2>3, <1>2
  <2>6. QED
    BY <2>4, <2>5, <1>5
<1>7. \A f \in Entry : \A i \in DOMAIN events'[f] :
         \/ i \in DOMAIN events[f] /\ events'[f][i] = events[f][i]
         \/ f = e /\ i = n + 1 /\ events'[f][i] = ev
  BY <1>4, <1>5
<1>8. MemoryKnown'
  BY <1>7 DEF IInv, MemoryKnown
<1>9. ServerSeqOrdered'
  <2> SUFFICES ASSUME NEW f \in Entry
               PROVE  /\ \A i, j \in DOMAIN events'[f] :
                            i < j => events'[f][i].seq < events'[f][j].seq
                      /\ events'[f] = <<>> => seqs'[f] = 0
                      /\ events'[f] # <<>> => seqs'[f] = events'[f][Len(events'[f])].seq
    BY DEF ServerSeqOrdered
  <2>1. CASE f # e
    BY <2>1, <1>3, <1>4 DEF IInv, ServerSeqOrdered
  <2>2. CASE f = e
    <3>1. ASSUME NEW i \in 1 .. n + 1, NEW j \in 1 .. n + 1, i < j
          PROVE  events'[e][i].seq < events'[e][j].seq
      <4>1. i \in 1 .. n /\ events'[e][i] = events[e][i]
        BY <3>1, <1>5
      <4>2. CASE j = n + 1
        BY <4>1, <4>2, <1>1, <1>2, <1>5, <1>6
      <4>3. CASE j \in 1 .. n
        BY <3>1, <4>1, <4>3, <1>5 DEF IInv, ServerSeqOrdered
      <4>4. QED
        BY <4>2, <4>3, <1>5
    <3>2. QED
      BY <2>2, <3>1, <1>3, <1>5
  <2>3. QED
    BY <2>1, <2>2
<1>10. NoDuplicateRequest'
  <2> SUFFICES ASSUME NEW f \in Entry, NEW g \in Entry,
                      NEW i \in DOMAIN events'[f], NEW j \in DOMAIN events'[g],
                      events'[f][i].req = events'[g][j].req
               PROVE  f = g /\ i = j
    BY DEF NoDuplicateRequest
  <2>1. CASE /\ i \in DOMAIN events[f] /\ events'[f][i] = events[f][i]
             /\ j \in DOMAIN events[g] /\ events'[g][j] = events[g][j]
    BY <2>1 DEF IInv, NoDuplicateRequest
  <2>2. CASE \/ i \in DOMAIN events[f] /\ events'[f][i] = events[f][i] /\ events'[g][j] = ev
             \/ j \in DOMAIN events[g] /\ events'[g][j] = events[g][j] /\ events'[f][i] = ev
    BY <2>2
  <2>3. CASE f = e /\ i = n + 1 /\ g = e /\ j = n + 1
    BY <2>3
  <2>4. QED
    BY <1>7, <2>1, <2>2, <2>3
<1>11. \A f \in Entry : seqs[f] <= seqs'[f]
  BY <1>1, <1>2, <1>3
<1>12. QED
  BY <1>3, <1>4, <1>7, <1>8, <1>9, <1>10, <1>11 DEF MemoryGrown

-----------------------------------------------------------------------------
\* Reading one more line during loadAll.
LEMMA LoadLineStep ==
    ASSUME IInv, NEW e \in Entry, LoadLine(e)
    PROVE  IInv'
<1> DEFINE p == pos[e] + 1
           line == lines[e][p]
<1>1. /\ mode = "loading" /\ mode' = "loading"
      /\ p \in DOMAIN lines[e] /\ p \in 1 .. Len(lines[e])
      /\ pos' = [pos EXCEPT ![e] = p]
      /\ UNCHANGED <<lines, open, acked, crashes, errors>>
  BY DEF LoadLine, Learn, disk, IInv, TypeOK
<1>2. pos' \in [Entry -> Nat] /\ pos'[e] = p /\ \A f \in Entry \ {e} : pos'[f] = pos[f]
  BY <1>1 DEF IInv, TypeOK
<1>3. OpenHasLine' /\ DiskOrdered' /\ DiskUnique' /\ \A f \in Entry : Good(f)' = Good(f)
  BY <1>1 DEF IInv, OpenHasLine, DiskOrdered, DiskUnique, Good
<1>4. CASE line = Garbage
  <2>1. UNCHANGED <<events, seqs, seen>>
    BY <1>4 DEF LoadLine, Learn, memory
  <2>2. TypeOK'
    BY <1>1, <1>2, <2>1 DEF IInv, TypeOK
  <2>3. DiskKnown'
    <3> SUFFICES ASSUME NEW f \in Entry, NEW i \in Good(f), i <= pos'[f]
                 PROVE  lines[f][i].seq <= seqs[f] /\ lines[f][i].req \in seen
      BY <1>1, <1>3, <2>1 DEF DiskKnown
    <3>1. i <= pos[f]
      <4>1. CASE f = e
        BY <4>1, <1>2, <1>4 DEF Good, IInv, TypeOK
      <4>2. CASE f # e
        BY <4>2, <1>2
      <4>3. QED
        BY <4>1, <4>2
    <3>2. QED
      BY <3>1 DEF IInv, DiskKnown
  <2>4. LoadedFromDisk'
    BY <1>1, <1>2, <1>3, <2>1 DEF IInv, TypeOK, LoadedFromDisk, Good
  <2>5. MemoryKnown' /\ ServerSeqOrdered' /\ NoDuplicateRequest'
    BY <2>1 DEF IInv, MemoryKnown, ServerSeqOrdered, NoDuplicateRequest
  <2>6. QED
    BY <1>3, <2>2, <2>3, <2>4, <2>5 DEF IInv
<1>5. CASE line # Garbage
  <2>1. /\ events' = [events EXCEPT ![e] = Append(events[e], line)]
        /\ seen' = seen \cup {line.req}
        /\ seqs' = [seqs EXCEPT ![e] = IF line.seq > seqs[e] THEN line.seq ELSE seqs[e]]
    BY <1>5 DEF LoadLine, Learn
  <2>2. p \in Good(e) /\ line \in Event /\ line.seq \in Nat \ {0} /\ line.req \in Request
    BY <1>1, <1>5 DEF Good, IInv, TypeOK, Event
  <2>3. events[e] \in Seq(Event) /\ seqs[e] \in Nat /\ pos[e] \in Nat
    BY DEF IInv, TypeOK
  \* Everything in memory was read from an earlier line.
  <2>4. \A f \in Entry : \A i \in DOMAIN events[f] :
           \E k \in Good(f) : k <= pos[f] /\ lines[f][k] = events[f][i]
    BY <1>1 DEF IInv, LoadedFromDisk
  <2>5. \A i \in DOMAIN events[e] : events[e][i].seq < line.seq
    <3> SUFFICES ASSUME NEW i \in DOMAIN events[e] PROVE events[e][i].seq < line.seq
      OBVIOUS
    <3>1. PICK k \in Good(e) : k <= pos[e] /\ lines[e][k] = events[e][i]
      BY <2>4
    <3>2. k < p
      <4>1. k \in Nat
        BY DEF Good, IInv, TypeOK
      <4>2. QED
        BY <3>1, <4>1, <2>3
    <3>3. QED
      BY <3>1, <3>2, <2>2 DEF IInv, DiskOrdered
  <2>6. seqs[e] < line.seq
    <3>1. CASE events[e] = <<>>
      BY <3>1, <2>2 DEF IInv, ServerSeqOrdered
    <3>2. CASE events[e] # <<>>
      <4>1. Len(events[e]) \in DOMAIN events[e]
        BY <3>2, <2>3
      <4>2. QED
        BY <4>1, <3>2, <2>5 DEF IInv, ServerSeqOrdered
    <3>3. QED
      BY <3>1, <3>2
  <2>7. \A f \in Entry : \A i \in DOMAIN events[f] : events[f][i].req # line.req
    <3> SUFFICES ASSUME NEW f \in Entry, NEW i \in DOMAIN events[f],
                        events[f][i].req = line.req
                 PROVE  FALSE
      OBVIOUS
    <3>1. PICK k \in Good(f) : k <= pos[f] /\ lines[f][k] = events[f][i]
      BY <2>4
    <3>2. f = e /\ k = p
      BY <3>1, <2>2 DEF IInv, DiskUnique
    <3>3. QED
      BY <3>1, <3>2, <2>3
  <2> HIDE DEF line
  <2>8. Remember(e, line) /\ Fresh(e, line)
    BY <2>1, <2>2, <2>3, <2>6, <2>7 DEF Remember, Fresh
  <2>9. MemoryGrown(e, line)
    BY <2>2, <2>8, MemoryGrows
  <2> USE DEF MemoryGrown
  <2>10. TypeOK'
    BY <1>1, <1>2, <2>9 DEF IInv, TypeOK
  <2>11. seqs'[e] = line.seq /\ \A f \in Entry : seqs[f] \in Nat /\ seqs'[f] \in Nat
    BY <2>9 DEF IInv, TypeOK
  <2>12. DiskKnown'
    <3> SUFFICES ASSUME NEW f \in Entry, NEW i \in Good(f), i <= pos'[f]
                 PROVE  lines[f][i].seq <= seqs'[f] /\ lines[f][i].req \in seen'
      BY <1>1, <1>3 DEF DiskKnown
    <3>1. CASE f = e /\ i = p
      BY <3>1, <2>1, <2>2, <2>11 DEF line
    <3>2. CASE ~(f = e /\ i = p)
      <4>1. i <= pos[f]
        BY <3>2, <1>2, <2>3 DEF Good, IInv, TypeOK
      <4>2. lines[f][i].seq <= seqs[f] /\ lines[f][i].req \in seen
        BY <4>1 DEF IInv, DiskKnown
      <4>3. lines[f][i].seq \in Nat
        BY DEF Good, IInv, TypeOK, Event
      <4>4. QED
        BY <4>2, <4>3, <2>1, <2>9, <2>11
    <3>3. QED
      BY <3>1, <3>2
  <2>13. LoadedFromDisk'
    <3>1. \A f \in Entry : pos'[f] <= Len(lines[f]) /\ pos[f] <= pos'[f]
      BY <1>1, <1>2, <2>3 DEF IInv, TypeOK, LoadedFromDisk
    <3> SUFFICES ASSUME NEW f \in Entry, NEW i \in DOMAIN events'[f]
                 PROVE  \E k \in Good(f) : k <= pos'[f] /\ lines[f][k] = events'[f][i]
      BY <3>1, <1>1, <1>3 DEF LoadedFromDisk
    <3>2. CASE i \in DOMAIN events[f] /\ events'[f][i] = events[f][i]
      <4>1. PICK k \in Good(f) : k <= pos[f] /\ lines[f][k] = events[f][i]
        BY <3>2, <2>4
      <4>2. k <= pos'[f]
        BY <4>1, <3>1, <1>2 DEF IInv, TypeOK, Good
      <4>3. QED
        BY <4>1, <4>2, <3>2
    <3>3. CASE f = e /\ events'[f][i] = line
      BY <3>3, <1>1, <1>2, <2>2 DEF line
    <3>4. QED
      BY <3>2, <3>3, <2>9
  <2>14. QED
    BY <1>3, <2>9, <2>10, <2>12, <2>13 DEF IInv
<1>6. QED
  BY <1>4, <1>5

-----------------------------------------------------------------------------
\* loadAll has read every line, so everything on disk is known.
LEMMA LoadDoneStep ==
    ASSUME IInv, LoadDone
    PROVE  IInv'
<1> USE DEF LoadDone, memory, disk
<1>1. TypeOK'
  BY DEF IInv, TypeOK
<1>2. \A e \in Entry : Good(e)' = Good(e) /\ Good(e) \subseteq 1 .. pos[e]
  BY DEF Good, IInv, TypeOK
<1>3. OpenHasLine' /\ DiskOrdered' /\ DiskUnique'
  BY <1>2 DEF IInv, OpenHasLine, DiskOrdered, DiskUnique
<1>4. DiskKnown'
  <2>1. \A e \in Entry : pos[e] \in Nat
    BY DEF IInv, TypeOK
  <2>2. \A e \in Entry : \A i \in Good(e) : i <= pos[e]
    BY <1>2, <2>1
  <2>3. QED
    BY <1>2, <2>2 DEF IInv, DiskKnown
<1>5. MemoryKnown' /\ LoadedFromDisk' /\ ServerSeqOrdered' /\ NoDuplicateRequest'
  BY DEF IInv, MemoryKnown, LoadedFromDisk, ServerSeqOrdered, NoDuplicateRequest
<1>6. QED
  BY <1>1, <1>3, <1>4, <1>5 DEF IInv

\* Append of a request not seen before, whether or not the write succeeds.
LEMMA AppendStep ==
    ASSUME IInv, mode = "serving", mode' = mode,
           NEW e \in Entry, NEW q \in Request, q \notin seen,
           NEW how \in Outcome,
           Remember(e, NextEvent(e, q)),
           appendToFile(e, NextEvent(e, q), how),
           pos' = pos, acked' \in SUBSET Ack,
           crashes' = crashes, errors' \in 0 .. MaxErrors
    PROVE  IInv'
<1> DEFINE ev == NextEvent(e, q)
<1>1. ev \in Event /\ ev.seq = seqs[e] + 1 /\ ev.req = q /\ seqs[e] \in Nat
  BY DEF IInv, TypeOK, NextEvent, Event
<1>2. Fresh(e, ev)
  BY <1>1 DEF Fresh, IInv, MemoryKnown
<1>3. MemoryGrown(e, ev)
  <2> HIDE DEF ev
  <2>1. Remember(e, ev)
    BY DEF ev
  <2>2. QED
    BY <1>1, <1>2, <2>1, MemoryGrows
<1>4. /\ lines' \in [Entry -> Seq(Line)]
      /\ open' \in [Entry -> BOOLEAN]
      /\ OpenHasLine' /\ DiskOrdered' /\ DiskUnique'
      /\ \A f \in Entry : \A i \in Good(f)' :
            \/ i \in Good(f) /\ lines'[f][i] = lines[f][i]
            \/ f = e /\ lines'[f][i] = ev
  BY AppendToFileKeepsDisk
<1> HIDE DEF ev
<1>5. TypeOK'
  BY <1>3, <1>4 DEF MemoryGrown, IInv, TypeOK, Line
<1>6. DiskKnown'
  <2> SUFFICES ASSUME NEW f \in Entry, NEW i \in Good(f)'
               PROVE  lines'[f][i].seq <= seqs'[f] /\ lines'[f][i].req \in seen'
    BY DEF DiskKnown
  <2>1. /\ seqs[f] \in Nat /\ seqs'[f] \in Nat /\ seqs[f] <= seqs'[f]
        /\ seqs'[e] = ev.seq /\ seen' = seen \cup {q}
    BY <1>1, <1>3 DEF MemoryGrown, IInv, TypeOK, Remember, ev
  <2>2. CASE i \in Good(f) /\ lines'[f][i] = lines[f][i]
    <3>1. lines[f][i].seq <= seqs[f] /\ lines[f][i].req \in seen
      BY <2>2 DEF IInv, DiskKnown
    <3>2. lines[f][i].seq \in Nat
      BY <2>2 DEF Good, IInv, TypeOK, Event
    <3>3. QED
      BY <2>1, <2>2, <3>1, <3>2
  <2>3. CASE f = e /\ lines'[f][i] = ev
    BY <2>1, <2>3, <1>1
  <2>4. QED
    BY <1>4, <2>2, <2>3
<1>7. LoadedFromDisk'
  BY DEF LoadedFromDisk
<1>8. QED
  BY <1>3, <1>4, <1>5, <1>6, <1>7 DEF IInv, MemoryGrown

\* A crash forgets memory; a sound disk is all that is needed afterwards.
LEMMA ResetStep ==
    ASSUME IInv, Reset,
           lines' \in [Entry -> Seq(Line)], open' \in [Entry -> BOOLEAN],
           OpenHasLine', DiskOrdered', DiskUnique'
    PROVE  IInv'
<1> USE DEF Reset
<1>1. TypeOK'
  BY BoundAssumption DEF IInv, TypeOK, Line
<1>2. DiskKnown'
  <2> SUFFICES ASSUME NEW e \in Entry, NEW i \in Good(e)', i <= pos'[e]
               PROVE  FALSE
    BY DEF DiskKnown
  <2>1. i \in 1 .. Len(lines'[e]) /\ pos'[e] = 0
    BY DEF Good
  <2>2. QED
    BY <2>1
<1>3. LoadedFromDisk'
  <2>1. \A e \in Entry : pos'[e] = 0 /\ DOMAIN events'[e] = {} /\ Len(lines'[e]) \in Nat
    OBVIOUS
  <2>2. QED
    BY <2>1 DEF LoadedFromDisk
<1>4. MemoryKnown' /\ NoDuplicateRequest'
  <2>1. \A e \in Entry : DOMAIN events'[e] = {}
    OBVIOUS
  <2>2. QED
    BY <2>1 DEF MemoryKnown, NoDuplicateRequest
<1>5. ServerSeqOrdered'
  BY DEF ServerSeqOrdered
<1>6. QED
  BY <1>1, <1>2, <1>3, <1>4, <1>5 DEF IInv

-----------------------------------------------------------------------------
\* The first start satisfies the inductive invariant.
LEMMA InitIInv == Init => IInv
<1> SUFFICES ASSUME Init PROVE IInv
  OBVIOUS
<1> USE DEF Init
<1>1. TypeOK
  BY BoundAssumption DEF TypeOK
<1>2. \A e \in Entry : Good(e) = {} /\ DOMAIN events[e] = {} /\ Len(lines[e]) = 0
  BY DEF Good
<1>3. OpenHasLine /\ DiskOrdered /\ DiskUnique /\ DiskKnown
  BY <1>2 DEF OpenHasLine, DiskOrdered, DiskUnique, DiskKnown
<1>4. MemoryKnown /\ LoadedFromDisk /\ NoDuplicateRequest
  BY <1>2 DEF MemoryKnown, LoadedFromDisk, NoDuplicateRequest
<1>5. ServerSeqOrdered
  BY DEF ServerSeqOrdered
<1>6. QED
  BY <1>1, <1>3, <1>4, <1>5 DEF IInv

\* Every step preserves it.
LEMMA NextIInv == IInv /\ [Next]_vars => IInv'
<1> SUFFICES ASSUME IInv, [Next]_vars PROVE IInv'
  OBVIOUS
<1>1. ASSUME NEW e \in Entry, LoadLine(e) PROVE IInv'
  BY <1>1, LoadLineStep
<1>2. CASE LoadDone
  BY <1>2, LoadDoneStep
<1>3. ASSUME NEW e \in Entry, NEW q \in Request, AppendNew(e, q) PROVE IInv'
  <2>1. acked' \in SUBSET Ack
    BY <1>3 DEF AppendNew, IInv, TypeOK, Ack
  <2>2. "full" \in Outcome /\ errors \in 0 .. MaxErrors
    BY DEF Outcome, IInv, TypeOK
  <2>3. QED
    BY <1>3, <2>1, <2>2, AppendStep DEF AppendNew
<1>4. ASSUME NEW e \in Entry, NEW q \in Request, AppendDuplicate(e, q) PROVE IInv'
  <2>1. acked' \in SUBSET Ack
    BY <1>4 DEF AppendDuplicate, IInv, TypeOK, Ack
  <2>2. UNCHANGED <<mode, events, seqs, seen, lines, open, pos, crashes, errors>>
    BY <1>4 DEF AppendDuplicate, memory, disk
  <2>3. QED
    BY <2>1, <2>2, SMTT(30) DEF IInv, TypeOK, OpenHasLine, DiskOrdered, DiskUnique, DiskKnown,
                      MemoryKnown, LoadedFromDisk, ServerSeqOrdered, NoDuplicateRequest, Good
<1>5. ASSUME NEW e \in Entry, NEW q \in Request, NEW how \in {"none"} \cup Torn,
             AppendError(e, q, how)
      PROVE  IInv'
  <2>1. how \in Outcome
    BY TornAssumption DEF Outcome
  <2>2. acked' \in SUBSET Ack /\ errors' \in 0 .. MaxErrors
    BY <1>5, BoundAssumption DEF AppendError, IInv, TypeOK
  <2>3. QED
    BY <1>5, <2>1, <2>2, AppendStep DEF AppendError
<1>6. ASSUME NEW e \in Entry, NEW q \in Request, NEW how \in {"full"} \cup Torn,
             CrashInAppend(e, q, how)
      PROVE  IInv'
  <2>1. how \in Outcome
    BY TornAssumption DEF Outcome
  <2>2. /\ lines' \in [Entry -> Seq(Line)] /\ open' \in [Entry -> BOOLEAN]
        /\ OpenHasLine' /\ DiskOrdered' /\ DiskUnique'
    BY <1>6, <2>1, AppendToFileKeepsDisk DEF CrashInAppend
  <2>3. QED
    BY <1>6, <2>2, ResetStep DEF CrashInAppend
<1>7. CASE Crash
  <2>1. lines' = lines /\ open' = open
    BY <1>7 DEF Crash, disk
  <2>2. /\ lines' \in [Entry -> Seq(Line)] /\ open' \in [Entry -> BOOLEAN]
        /\ OpenHasLine' /\ DiskOrdered' /\ DiskUnique'
    BY <2>1 DEF IInv, TypeOK, Line, OpenHasLine, DiskOrdered, DiskUnique, Good
  <2>3. QED
    BY <1>7, <2>2, ResetStep DEF Crash
<1>8. CASE UNCHANGED vars
  BY <1>8 DEF vars, IInv, TypeOK, OpenHasLine, DiskOrdered, DiskUnique, DiskKnown,
              MemoryKnown, LoadedFromDisk, ServerSeqOrdered, NoDuplicateRequest, Good
<1>9. QED
  BY <1>1, <1>2, <1>3, <1>4, <1>5, <1>6, <1>7, <1>8 DEF Next

(***************************************************************************)
(* The inductive invariant holds in every reachable state of Append,       *)
(* loadAll and crashes.                                                    *)
(***************************************************************************)
THEOREM InductiveInvariant == Spec => []IInv
  BY InitIInv, NextIInv, PTL DEF Spec

(***************************************************************************)
(* Type correctness of the event store.                                    *)
(***************************************************************************)
THEOREM TypeCorrect == Spec => []TypeOK
<1>1. IInv => TypeOK
  BY DEF IInv
<1>2. QED
  BY <1>1, InductiveInvariant, PTL

(***************************************************************************)
(* Whatever is torn, lost or reloaded, an entry's events are in strictly   *)
(* increasing server_seq order and MaxServerSeq is the last one.           *)
(***************************************************************************)
THEOREM SequenceOrder == Spec => []ServerSeqOrdered
<1>1. IInv => ServerSeqOrdered
  BY DEF IInv
<1>2. QED
  BY <1>1, InductiveInvariant, PTL

(***************************************************************************)
(* Append stores no request id twice, over all entries and restarts.       *)
(***************************************************************************)
THEOREM Deduplication == Spec => []NoDuplicateRequest
<1>1. IInv => NoDuplicateRequest
  BY DEF IInv
<1>2. QED
  BY <1>1, InductiveInvariant, PTL

-----------------------------------------------------------------------------
(***************************************************************************)
(* Durability: what holds until a write is cut in the middle.  Failed      *)
(* writes and crashes remain.  Until then every file ends in a newline, so *)
(* a write adds a line or does nothing, and no line is lost.               *)
(***************************************************************************)
Record(e, ev) == [entry |-> e, seq |-> ev.seq, req |-> ev.req]

AllClosed == \A e \in Entry : open[e] = FALSE

DurableInv == IInv /\ AllClosed /\ AckedSurvives

\* Membership in Persisted, spelled out.
LEMMA PersistedMember ==
    \A r : r \in Persisted <=>
              \E e \in Entry : \E i \in Good(e) : r = Record(e, lines[e][i])
  BY DEF Persisted, Record

\* The same after the step.
LEMMA PersistedMemberNext ==
    \A r : r \in Persisted' <=>
              \E e \in Entry : \E i \in Good(e)' : r = Record(e, lines'[e][i])
  BY DEF Persisted, Record

\* A complete write adds exactly its own record, fresh and numbered highest.
LEMMA FullWriteAdds ==
    ASSUME DurableInv, mode = "serving",
           NEW e \in Entry, NEW q \in Request, q \notin seen,
           appendToFile(e, NextEvent(e, q), "full")
    PROVE  /\ AllClosed'
           /\ Persisted' = Persisted \cup {Record(e, NextEvent(e, q))}
           /\ Log!Add(Record(e, NextEvent(e, q)))
           /\ Record(e, NextEvent(e, q)) \notin Persisted
<1> DEFINE ev == NextEvent(e, q)
           n == Len(lines[e])
<1>1. ev \in Event /\ ev.seq = seqs[e] + 1 /\ ev.req = q /\ seqs[e] \in Nat /\ ev # Garbage
  BY GarbageAssumption DEF DurableInv, IInv, TypeOK, NextEvent, Event
<1>2. lines[e] \in Seq(Line) /\ open[e] = FALSE
  BY DEF DurableInv, IInv, TypeOK, AllClosed, Line
<1>3. /\ lines' = [lines EXCEPT ![e] = Append(lines[e], ev)]
      /\ open' = [open EXCEPT ![e] = FALSE]
  BY <1>2 DEF appendToFile, NewLines, NewOpen
<1> HIDE DEF ev
<1>4. /\ lines'[e] = Append(lines[e], ev)
      /\ \A f \in Entry \ {e} : lines'[f] = lines[f]
  BY <1>3 DEF DurableInv, IInv, TypeOK
<1>5. /\ n \in Nat
      /\ DOMAIN lines[e] = 1 .. n
      /\ DOMAIN lines'[e] = 1 .. n + 1
      /\ lines'[e][n + 1] = ev
      /\ \A i \in 1 .. n : lines'[e][i] = lines[e][i]
  BY <1>1, <1>2, <1>4 DEF Line
<1> HIDE DEF n
<1>6. AllClosed'
  BY <1>3 DEF DurableInv, AllClosed, IInv, TypeOK
<1>7. /\ Good(e)' = Good(e) \cup {n + 1}
      /\ n + 1 \notin Good(e)
      /\ \A i \in Good(e) : lines'[e][i] = lines[e][i]
      /\ \A f \in Entry \ {e} : Good(f)' = Good(f) /\ lines'[f] = lines[f]
  BY <1>1, <1>4, <1>5 DEF Good
<1>8. Persisted' = Persisted \cup {Record(e, ev)}
  <2>1. ASSUME NEW r \in Persisted' PROVE r \in Persisted \cup {Record(e, ev)}
    <3>a. PICK f \in Entry : \E i \in Good(f)' : r = Record(f, lines'[f][i])
      BY PersistedMemberNext
    <3>1. PICK i \in Good(f)' : r = Record(f, lines'[f][i])
      BY <3>a
    <3>2. CASE f = e /\ i = n + 1
      BY <3>1, <3>2, <1>5
    <3>3. CASE ~(f = e /\ i = n + 1)
      BY <3>1, <3>3, <1>7, PersistedMember
    <3>4. QED
      BY <3>2, <3>3
  <2>2. ASSUME NEW r \in Persisted PROVE r \in Persisted'
    <3>1. PICK f \in Entry : \E i \in Good(f) : r = Record(f, lines[f][i])
      BY PersistedMember
    <3>2. QED
      BY <3>1, <1>7, PersistedMemberNext
  <2>3. Record(e, ev) \in Persisted'
    BY <1>5, <1>7, PersistedMemberNext
  <2>4. QED
    BY <2>1, <2>2, <2>3
<1>9. \A old \in Persisted : old.req # ev.req /\ (old.entry = e => old.seq < ev.seq)
  <2> SUFFICES ASSUME NEW old \in Persisted
               PROVE  old.req # ev.req /\ (old.entry = e => old.seq < ev.seq)
    OBVIOUS
  <2>a. PICK f \in Entry : \E i \in Good(f) : old = Record(f, lines[f][i])
    BY PersistedMember
  <2>1. PICK i \in Good(f) : old = Record(f, lines[f][i])
    BY <2>a
  <2>2. lines[f][i].seq <= seqs[f] /\ lines[f][i].req \in seen
    BY DEF DurableInv, IInv, DiskKnown
  <2>3. lines[f][i].seq \in Nat
    BY DEF Good, DurableInv, IInv, TypeOK, Event
  <2>4. old.entry = f /\ old.seq = lines[f][i].seq /\ old.req = lines[f][i].req
    BY <2>1 DEF Record
  <2>5. QED
    BY <2>2, <2>3, <2>4, <1>1
<1>10. Log!Add(Record(e, ev))
  BY <1>1, <1>8, <1>9 DEF Log!Add, Record
<1>11. Record(e, ev) \notin Persisted
  BY <1>9 DEF Record
<1>12. QED
  BY <1>6, <1>8, <1>10, <1>11 DEF ev

\* A write that leaves nothing, or no write at all, changes no record.
LEMMA NoWriteKeeps ==
    ASSUME DurableInv, lines' = lines, open' = open
    PROVE  AllClosed' /\ Persisted' = Persisted
<1>1. \A f \in Entry : Good(f)' = Good(f)
  BY DEF Good
<1>2. Persisted' = Persisted
  BY <1>1 DEF Persisted
<1>3. QED
  BY <1>2 DEF DurableInv, AllClosed

\* A write that fails before its first byte changes no record.
LEMMA NoneWriteKeeps ==
    ASSUME DurableInv, NEW e \in Entry, NEW ev, appendToFile(e, ev, "none")
    PROVE  AllClosed' /\ Persisted' = Persisted
<1>1. lines' = [lines EXCEPT ![e] = lines[e]] /\ open' = [open EXCEPT ![e] = FALSE]
  BY DEF appendToFile, NewLines, NewOpen, DurableInv, AllClosed
<1>2. lines' = lines /\ open' = open
  BY <1>1 DEF DurableInv, IInv, TypeOK, AllClosed
<1>3. QED
  BY <1>2, NoWriteKeeps

\* A torn write leaves its file without a final newline.
LEMMA TornLeavesOpen ==
    ASSUME IInv, AllClosed', NEW e \in Entry, NEW ev, NEW how, appendToFile(e, ev, how)
    PROVE  how \notin Torn
<1> SUFFICES ASSUME how \in Torn PROVE FALSE
  OBVIOUS
<1>1. NewOpen(open[e], how)
  BY TornAssumption DEF NewOpen
<1>2. open'[e] = NewOpen(open[e], how)
  BY DEF appendToFile, IInv, TypeOK
<1>3. QED
  BY <1>1, <1>2 DEF AllClosed

(***************************************************************************)
(* One step of the store that tears nothing is one step of EventLog or     *)
(* leaves it alone.                                                        *)
(***************************************************************************)
LEMMA UntornStep ==
    ASSUME DurableInv, [Next]_vars, AllClosed'
    PROVE  DurableInv' /\ [Log!Next]_Persisted
<1>1. IInv'
  BY NextIInv DEF DurableInv
<1>2. ASSUME acked' = acked, AllClosed', Persisted' = Persisted
      PROVE  DurableInv' /\ [Log!Next]_Persisted
  BY <1>1, <1>2 DEF DurableInv, AckedSurvives
<1>3. ASSUME NEW e \in Entry, LoadLine(e) PROVE DurableInv' /\ [Log!Next]_Persisted
  BY <1>2, <1>3, NoWriteKeeps DEF LoadLine, disk
<1>4. CASE LoadDone
  BY <1>2, <1>4, NoWriteKeeps DEF LoadDone, disk
<1>5. ASSUME NEW e \in Entry, NEW q \in Request, AppendNew(e, q)
      PROVE  DurableInv' /\ [Log!Next]_Persisted
  <2> DEFINE r == Record(e, NextEvent(e, q))
  <2>1. /\ AllClosed'
        /\ Persisted' = Persisted \cup {r}
        /\ Log!Add(r)
        /\ r \notin Persisted
    BY <1>5, FullWriteAdds DEF AppendNew
  <2>2. acked' = acked \cup {r}
    BY <1>5 DEF AppendNew, Record, NextEvent
  <2> HIDE DEF r
  <2>3. AckedSurvives'
    BY <2>1, <2>2 DEF DurableInv, AckedSurvives
  <2>4. Log!Next
    BY <2>1 DEF Log!Next
  <2>5. QED
    BY <1>1, <2>1, <2>3, <2>4 DEF DurableInv
<1>6. ASSUME NEW e \in Entry, NEW q \in Request, AppendDuplicate(e, q)
      PROVE  DurableInv' /\ [Log!Next]_Persisted
  <2>1. AllClosed' /\ Persisted' = Persisted
    BY <1>6, NoWriteKeeps DEF AppendDuplicate, disk
  <2>2. \A a \in acked' : a \in acked \/ a.seq = 0
    BY <1>6 DEF AppendDuplicate
  <2>3. AckedSurvives'
    BY <2>1, <2>2 DEF DurableInv, AckedSurvives
  <2>4. QED
    BY <1>1, <2>1, <2>3 DEF DurableInv
<1>7. ASSUME NEW e \in Entry, NEW q \in Request, NEW how \in {"none"} \cup Torn,
             AppendError(e, q, how)
      PROVE  DurableInv' /\ [Log!Next]_Persisted
  <2>1. how = "none"
    BY <1>7, TornLeavesOpen DEF AppendError, DurableInv
  <2>2. AllClosed' /\ Persisted' = Persisted
    BY <1>7, <2>1, NoneWriteKeeps DEF AppendError
  <2>3. QED
    BY <1>2, <1>7, <2>2 DEF AppendError
<1>8. ASSUME NEW e \in Entry, NEW q \in Request, NEW how \in {"full"} \cup Torn,
             CrashInAppend(e, q, how)
      PROVE  DurableInv' /\ [Log!Next]_Persisted
  <2> DEFINE r == Record(e, NextEvent(e, q))
  <2>1. how = "full"
    BY <1>8, TornLeavesOpen DEF CrashInAppend, DurableInv
  <2>2. /\ AllClosed'
        /\ Persisted' = Persisted \cup {r}
        /\ Log!Add(r)
        /\ r \notin Persisted
    BY <1>8, <2>1, FullWriteAdds DEF CrashInAppend
  <2>3. acked' = acked
    BY <1>8 DEF CrashInAppend, Reset
  <2> HIDE DEF r
  <2>4. AckedSurvives'
    BY <2>2, <2>3 DEF DurableInv, AckedSurvives
  <2>5. Log!Next
    BY <2>2 DEF Log!Next
  <2>6. QED
    BY <1>1, <2>2, <2>4, <2>5 DEF DurableInv
<1>9. CASE Crash
  BY <1>2, <1>9, NoWriteKeeps DEF Crash, Reset, disk
<1>10. CASE UNCHANGED vars
  BY <1>2, <1>10, NoWriteKeeps DEF vars
<1>11. QED
  BY <1>3, <1>4, <1>5, <1>6, <1>7, <1>8, <1>9, <1>10 DEF Next

\* Without torn writes every file keeps ending in a newline.
LEMMA NoTearCloses ==
    ASSUME Torn = {}, DurableInv, [Next]_vars
    PROVE  AllClosed'
<1>1. ASSUME lines' = lines, open' = open PROVE AllClosed'
  BY <1>1, NoWriteKeeps
<1>2. ASSUME NEW e \in Entry, NEW ev, NEW how \in {"none", "full"}, appendToFile(e, ev, how)
      PROVE  AllClosed'
  <2>1. NewOpen(open[e], how) = FALSE
    BY DEF NewOpen, DurableInv, AllClosed
  <2>2. QED
    BY <1>2, <2>1 DEF appendToFile, DurableInv, AllClosed, IInv, TypeOK
<1>3. CASE UNCHANGED vars
  BY <1>1, <1>3 DEF vars
<1>4. CASE Next
  BY <1>1, <1>2, <1>4 DEF Next, LoadLine, LoadDone, AppendNew, AppendDuplicate, AppendError,
                          CrashInAppend, Crash, Reset, disk
<1>5. QED
  BY <1>3, <1>4

\* A torn file stays torn: no write repairs it.
LEMMA TornStays ==
    ASSUME IInv, [Next]_vars, Untorn'
    PROVE  Untorn
<1>1. ASSUME lines' = lines, open' = open PROVE Untorn
  BY <1>1 DEF Untorn, Good
<1>2. ASSUME NEW e \in Entry, NEW ev, NEW how \in Outcome, appendToFile(e, ev, how)
      PROVE  Untorn
  <2>1. /\ lines'[e] = NewLines(lines[e], open[e], ev, how)
        /\ open'[e] = NewOpen(open[e], how)
        /\ \A f \in Entry \ {e} : lines'[f] = lines[f] /\ open'[f] = open[f]
    BY <1>2 DEF appendToFile, IInv, TypeOK
  <2>2. lines[e] \in Seq(Line) /\ open[e] \in BOOLEAN /\ (open[e] => lines[e] # <<>>)
    BY DEF IInv, TypeOK, Line, OpenHasLine
  <2>3. ~open'[e] /\ \A i \in DOMAIN lines'[e] : lines'[e][i] # Garbage
    BY DEF Untorn, Good
  <2>4. how \in {"none", "full"}
    BY <2>1, <2>3 DEF NewOpen, Outcome
  <2>5. CASE how = "none"
    BY <2>1, <2>3, <2>5 DEF NewLines, NewOpen, Untorn, Good
  <2>6. CASE how = "full"
    <3>1. ~open[e]
      <4> SUFFICES ASSUME open[e] PROVE FALSE
        OBVIOUS
      <4>1. lines'[e] = [lines[e] EXCEPT ![Len(lines[e])] = Garbage]
        BY <2>1, <2>6 DEF NewLines
      <4>2. Len(lines[e]) \in DOMAIN lines[e]
        BY <2>2
      <4>3. Len(lines[e]) \in DOMAIN lines'[e] /\ lines'[e][Len(lines[e])] = Garbage
        BY <4>1, <4>2
      <4>4. QED
        BY <4>3, <2>3
    <3>2. lines'[e] = Append(lines[e], ev)
      BY <2>1, <2>6, <3>1 DEF NewLines
    <3>3. \A i \in DOMAIN lines[e] : i \in DOMAIN lines'[e] /\ lines'[e][i] = lines[e][i]
      BY <2>2, <3>2
    <3>4. Good(e) = DOMAIN lines[e]
      BY <2>3, <3>3 DEF Good
    <3>5. QED
      BY <2>1, <3>1, <3>4 DEF Untorn, Good
  <2>7. QED
    BY <2>4, <2>5, <2>6
<1>3. CASE UNCHANGED vars
  BY <1>1, <1>3 DEF vars
<1>4. Torn \subseteq Outcome /\ "none" \in Outcome /\ "full" \in Outcome
  BY TornAssumption DEF Outcome
<1>5. CASE Next
  BY <1>1, <1>2, <1>4, <1>5 DEF Next, LoadLine, LoadDone, AppendNew, AppendDuplicate,
                                AppendError, CrashInAppend, Crash, Reset, disk
<1>6. QED
  BY <1>3, <1>5

\* Nothing is acknowledged, nothing is on disk.
LEMMA DurableInit == Init => DurableInv /\ Log!Init
<1> SUFFICES ASSUME Init PROVE DurableInv /\ Log!Init
  OBVIOUS
<1>1. AllClosed /\ AckedSurvives
  BY DEF Init, AllClosed, AckedSurvives
<1>2. \A e \in Entry : Good(e) = {}
  BY DEF Init, Good
<1>3. Persisted = {}
  BY <1>2, PersistedMember
<1>4. QED
  BY <1>1, <1>3, InitIInv DEF DurableInv, Log!Init

(***************************************************************************)
(* As long as no write was cut in the middle, an event whose number Append *)
(* returned is on disk, over any number of crashes and failed writes and   *)
(* for every way in which a later write may be torn.                       *)
(***************************************************************************)
THEOREM Durability == Spec => []AckedUntilTorn
<1>1. Init => AckedUntilTorn
  BY DurableInit DEF DurableInv, AckedUntilTorn
<1>2. IInv /\ AckedUntilTorn /\ [Next]_vars => AckedUntilTorn'
  <2> SUFFICES ASSUME IInv, AckedUntilTorn, [Next]_vars, Untorn' PROVE AckedSurvives'
    BY DEF AckedUntilTorn
  <2>1. Untorn
    BY TornStays
  <2>2. DurableInv
    BY <2>1 DEF DurableInv, AckedUntilTorn, Untorn, AllClosed, IInv, TypeOK
  <2>3. AllClosed'
    BY NextIInv DEF Untorn, AllClosed, IInv, TypeOK
  <2>4. QED
    BY <2>2, <2>3, UntornStep DEF DurableInv
<1>3. QED
  BY <1>1, <1>2, InductiveInvariant, PTL DEF Spec

(***************************************************************************)
(* With untorn writes the store implements the append-only EventLog.       *)
(***************************************************************************)
THEOREM Refinement ==
    ASSUME Torn = {}
    PROVE  Spec => ImplementsEventLog
<1>1. DurableInv /\ [Next]_vars => DurableInv' /\ [Log!Next]_Persisted
  BY NoTearCloses, UntornStep
<1>2. QED
  BY <1>1, DurableInit, PTL DEF Spec, ImplementsEventLog, Log!Spec

=============================================================================
