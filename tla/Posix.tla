-------------------------------- MODULE Posix --------------------------------
(***************************************************************************)
(* The variable size shared memory of src/ipc/posix: a writer that         *)
(* replaces its object when a write does not fit, under a name made of a   *)
(* prefix and the size, and readers that keep what they have mapped while  *)
(* the name is the same. Nothing orders reads and writes but the options   *)
(* that the callers pass on, in any order. Objects of the kernel are       *)
(* external: one lives on while it is mapped after its name was unlinked.  *)
(* A writer may be replaced by a new one with the same prefix, and a       *)
(* closed reader by a new one; Close, which takes no lock, is called       *)
(* between two calls.                                                      *)
(***************************************************************************)
EXTENDS Naturals, Sequences

CONSTANTS PosixReaders,
          PosixSizes,     \* the sizes of writes, each of which is a name
          PosixWrites,    \* bound: the calls of Write
          PosixRestarts   \* bound: how often the writer is replaced

ASSUME PosixAssumption == /\ PosixSizes \subseteq Nat \ {0}
                          /\ PosixWrites \in Nat /\ PosixRestarts \in Nat

VARIABLES obj,        \* the objects, in the order of their creation
          pw,         \* the writer
          pr,         \* the readers
          psent,      \* the read options that Write returned
          pwrites,    \* how often Write was called
          gen,        \* how many writers there were
          pgot,       \* history: what each reader read last
          crashed     \* a reader copied from an address that is not mapped

posixVars == <<obj, pw, pr, psent, pwrites, gen, pgot, crashed>>

NoShm == [id |-> 0, name |-> 0, state |-> "nil"]
NewPosixWriter == [pc |-> "idle", shm |-> NoShm, arg |-> 0]
\* History, of a reader: the writers it met, whether Close was called, and whether it
\* came back to an object that it had closed for one it could not open.
NewPosixReader == [pc |-> "idle", shm |-> NoShm, o |-> 0, met |-> {}, shut |-> FALSE, back |-> FALSE]

PosixInit == /\ obj = <<>> /\ pw = NewPosixWriter /\ psent = <<>> /\ pwrites = 0 /\ gen = 1
             /\ pr = [p \in PosixReaders |-> NewPosixReader]
             /\ pgot = [p \in PosixReaders |-> [o |-> 0, version |-> 0, same |-> FALSE]]
             /\ crashed = FALSE

Linked(name) == {i \in DOMAIN obj : obj[i].name = name /\ obj[i].linked}
PWGoto(from, to) == pw.pc = from /\ pw' = [pw EXCEPT !.pc = to]
PRGoto(p, from, to) == pr[p].pc = from /\ pr' = [pr EXCEPT ![p].pc = to]
ReadOptions(p) == psent[pr[p].o]

\* SharedMemory.Close: unlink what was created, unmap and close. The name is kept.
Closed(h) == IF h.state = "nil" THEN h ELSE [h EXCEPT !.state = "closed"]
Unlink(h) == obj' = IF h.state = "open" THEN [obj EXCEPT ![h.id].linked = FALSE] ELSE obj

-----------------------------------------------------------------------------
\* Write, under w.m.
PosixCall(n) == /\ pw.pc = "idle" /\ pwrites < PosixWrites /\ pwrites' = pwrites + 1
                /\ pw' = [pw EXCEPT !.pc = "shm", !.arg = n]
                /\ UNCHANGED <<obj, pr, psent, gen, pgot, crashed>>

PosixFits == pw.shm.state # "nil" /\ pw.arg <= pw.shm.name

\* None, or too small: close it ...
PosixReplace == /\ pw.pc = "shm" /\ ~PosixFits
                /\ Unlink(pw.shm)
                /\ pw' = [pw EXCEPT !.pc = "create", !.shm = Closed(pw.shm)]
                /\ UNCHANGED <<pr, psent, pwrites, gen, pgot, crashed>>

PosixKeep == /\ PosixFits /\ PWGoto("shm", "write")
             /\ UNCHANGED <<obj, pr, psent, pwrites, gen, pgot, crashed>>

\* ... and create another, which fails if its name is still linked.
PosixCreate == /\ pw.pc = "create" /\ Linked(pw.arg) = {}
               /\ obj' = Append(obj, [name |-> pw.arg, linked |-> TRUE, version |-> 0])
               /\ pw' = [pw EXCEPT !.pc = "write",
                                   !.shm = [id |-> Len(obj) + 1, name |-> pw.arg, state |-> "open"]]
               /\ UNCHANGED <<pr, psent, pwrites, gen, pgot, crashed>>

PosixCreateFails == /\ PWGoto("create", "idle")
                    /\ UNCHANGED <<obj, pr, psent, pwrites, gen, pgot, crashed>>

\* Write returns an error if the object was closed, and else copies and creates
\* read options.
PosixWriteFails == /\ PWGoto("write", "idle") /\ pw.shm.state = "closed"
                   /\ UNCHANGED <<obj, pr, psent, pwrites, gen, pgot, crashed>>

PosixWrite == /\ PWGoto("write", "idle") /\ pw.shm.state = "open"
              /\ obj' = [obj EXCEPT ![pw.shm.id].version = pwrites]
              /\ psent' = Append(psent, [name |-> pw.shm.name, version |-> pwrites, gen |-> gen])
              /\ UNCHANGED <<pr, pwrites, gen, pgot, crashed>>

\* Close.
PosixClose == /\ pw.pc = "idle" /\ pw.shm.state = "open"
              /\ Unlink(pw.shm)
              /\ pw' = [pw EXCEPT !.shm = Closed(@)]
              /\ UNCHANGED <<pr, psent, pwrites, gen, pgot, crashed>>

\* A new writer, once it is closed or after a crash that unlinks nothing.
PosixRestart == /\ gen <= PosixRestarts /\ gen' = gen + 1 /\ pw' = NewPosixWriter
                /\ UNCHANGED <<obj, pr, psent, pwrites, pgot, crashed>>

-----------------------------------------------------------------------------
\* ReadBytes, under r.m, with any options that were sent. The handle of a reader whose
\* last open failed is closed and keeps the name of the object before.
PosixComesBack(p, i) == /\ pr[p].shm.state # "nil" /\ pr[p].shm.name # ReadOptions(p).name
                        /\ pr[p].shm.name = psent[i].name

PosixCallRead(p, i) == /\ pr[p].pc = "idle"
                       /\ pr' = [pr EXCEPT ![p].pc = "shm", ![p].o = i, ![p].met = @ \cup {psent[i].gen},
                                           ![p].back = @ \/ PosixComesBack(p, i)]
                       /\ UNCHANGED <<obj, pw, psent, pwrites, gen, pgot, crashed>>

MappedAny(p) == pr[p].shm.state # "nil"      \* mutant: the name is not compared
Mapped(p) == pr[p].shm.state # "nil" /\ pr[p].shm.name = ReadOptions(p).name

\* Not opened, or another name: close it and open what is linked under the name.
PosixReopen(p) == /\ ~Mapped(p) /\ pr[p].pc = "shm"
                  /\ pr' = [pr EXCEPT ![p].pc = "open", ![p].shm = Closed(@)]
                  /\ UNCHANGED <<obj, pw, psent, pwrites, gen, pgot, crashed>>

PosixKeepOpen(p) == /\ Mapped(p) /\ PRGoto(p, "shm", "copy")
                    /\ UNCHANGED <<obj, pw, psent, pwrites, gen, pgot, crashed>>

PosixOpen(p) == /\ pr[p].pc = "open"
                /\ LET found == Linked(ReadOptions(p).name) IN
                   \/ \E i \in found : pr' = [pr EXCEPT ![p].pc = "copy",
                        ![p].shm = [id |-> i, name |-> obj[i].name, state |-> "open"]]
                   \/ found = {} /\ pr' = [pr EXCEPT ![p].pc = "idle"]
                /\ UNCHANGED <<obj, pw, psent, pwrites, gen, pgot, crashed>>

\* The reader met no other writer than the one that is there.
OneWriter(p) == pr[p].met \subseteq {gen}

PosixCopy(p) == /\ PRGoto(p, "copy", "idle")
                /\ IF pr[p].shm.state = "open"
                   THEN LET from == obj[pr[p].shm.id] IN
                        /\ pgot' = [pgot EXCEPT ![p] = [o |-> pr[p].o, version |-> from.version,
                                                        same |-> OneWriter(p)]]
                        /\ UNCHANGED crashed
                   ELSE crashed' = TRUE /\ UNCHANGED pgot
                /\ UNCHANGED <<obj, pw, psent, pwrites, gen>>

\* Close of a reader, which keeps what it had opened and must not read any more.
PosixReaderClose(p) == /\ pr[p].pc = "idle" /\ pr[p].shm.state = "open"
                       /\ pr' = [pr EXCEPT ![p].shm = Closed(@), ![p].shut = TRUE]
                       /\ UNCHANGED <<obj, pw, psent, pwrites, gen, pgot, crashed>>

PosixNewReader(p) == /\ pr[p].pc = "idle" /\ pr[p].shut
                     /\ pr' = [pr EXCEPT ![p] = NewPosixReader]
                     /\ UNCHANGED <<obj, pw, psent, pwrites, gen, pgot, crashed>>

PosixNext == /\ ~crashed
             /\ \/ \E n \in PosixSizes : PosixCall(n)
                \/ PosixReplace \/ PosixKeep \/ PosixCreate \/ PosixCreateFails
                \/ PosixWriteFails \/ PosixWrite \/ PosixClose \/ PosixRestart
                \/ \E p \in PosixReaders :
                     \/ \E i \in DOMAIN psent : PosixCallRead(p, i)
                     \/ PosixReopen(p) \/ PosixKeepOpen(p) \/ PosixOpen(p) \/ PosixCopy(p)
                     \/ PosixReaderClose(p) \/ PosixNewReader(p)

PosixSpec == PosixInit /\ [][PosixNext]_posixVars

-----------------------------------------------------------------------------
\* Every variable has its type.
PosixTypeOK == /\ \A i \in DOMAIN obj : obj[i].name \in PosixSizes /\ obj[i].linked \in BOOLEAN
               /\ \A p \in PosixReaders : pr[p].o \in 0..Len(psent) /\ pr[p].met \subseteq 1..gen
               /\ pwrites \in 0..PosixWrites /\ gen \in 1..PosixRestarts + 1 /\ crashed \in BOOLEAN

\* A reader that only met the writer that is there gets what its options describe or
\* something newer, in whatever order it is given them, across replaced objects, Close
\* and failed creations: within the life of a writer a name is never used for two
\* objects. It copies from mapped memory, unless Close was called on it, or it comes back
\* to options it had read before, after a read whose open failed: the object it has
\* closed has their name. The writer that comes next may use a name again, and then a
\* reader may get old bytes, or copy from what it could not open
\* (src/ipc/posix/posix.go:203-236, 271-296).
PosixFresh == /\ PosixTypeOK
              /\ \A p \in PosixReaders : pgot[p].same => pgot[p].version >= psent[pgot[p].o].version
              /\ crashed => \E p \in PosixReaders : pr[p].pc = "idle" /\ (pr[p].shut \/ pr[p].back \/ ~OneWriter(p))
=============================================================================
