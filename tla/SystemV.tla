------------------------------- MODULE SystemV -------------------------------
(***************************************************************************)
(* The semaphored shared memory of src/ipc/systemv: a writer that replaces *)
(* its segment when a write does not fit, and hands out read options, and  *)
(* readers that open what the options name, in any order of the options.   *)
(* The kernel's segments and semaphores are external; a removed segment    *)
(* lives on while it is attached, but its key is free again. The semaphore *)
(* is taken without SEM_UNDO: a process that dies keeps it. A writer that  *)
(* crashes restarts from nothing. UnixNano of a creation is the number of  *)
(* the segment.                                                            *)
(***************************************************************************)
EXTENDS Naturals, Sequences, FiniteSets

CONSTANTS Readers, Writer, Nobody,
          Keys,       \* the random keys: few, so that one is used again
          Sizes,      \* the sizes of writes
          MaxWrites,  \* bound: the calls of Write
          MaxFaults   \* bound: crashes of the writer, failed creations and calls of Close

ASSUME SystemVAssumption == /\ Writer \notin Readers /\ Nobody \notin Readers \cup {Writer}
                            /\ Sizes \subseteq Nat \ {0} /\ MaxWrites \in Nat /\ MaxFaults \in Nat

VARIABLES seg,        \* the segments, in the order of their creation
          sem,        \* the semaphores
          w,          \* the writer
          r,          \* the readers
          sent,       \* the read options that Write returned
          writes,     \* how often Write was called
          faults,     \* how many faults there were
          got,        \* history: what each reader read in its last call
          spoilt,     \* history: the semaphores a crash or a failed creation left locked
          exposed,    \* history: who may use a semaphore and a handle that Close could not reset
          segv        \* who copied from or to an address that is not mapped

systemVVars == <<seg, sem, w, r, sent, writes, faults, got, spoilt, exposed, segv>>

Nil == [id |-> 0, state |-> "nil"]
Open(i) == [id |-> i, state |-> "open"]
NewWriter == [pc |-> "idle", shm |-> Nil, sem |-> Nil, size |-> 0, arg |-> 0]
NewReader == [pc |-> "idle", shm |-> Nil, sem |-> Nil, at |-> 0, o |-> 0]
NoRead == [o |-> 0, seg |-> 0, lock |-> 0, version |-> 0, torn |-> FALSE, under |-> 0, short |-> FALSE]

SystemVInit == /\ seg = <<>> /\ sem = <<>> /\ sent = <<>> /\ writes = 0 /\ faults = 0
               /\ w = NewWriter /\ r = [p \in Readers |-> NewReader]
               /\ got = [p \in Readers |-> NoRead] /\ spoilt = {} /\ exposed = {} /\ segv = {}

Named(table, key) == {i \in DOMAIN table : table[i].key = key /\ table[i].live}

\* generateRandomKey: any key that nobody uses.
FreeKey(table, key) == Named(table, key) = {}

Exists(i, attached) == seg[i].live \/ attached # {}

\* SharedMemory.Close: shmdt, then IPC_RMID. The handle is reset only if both
\* succeed, and what is gone cannot be removed again.
CloseShm(h, p) ==
  IF h.state # "open" THEN seg' = seg
  ELSE LET left == seg[h.id].attached \ {p}
       IN  seg' = [seg EXCEPT ![h.id].attached = left, ![h.id].live = FALSE]
ShmClosed(h, p) ==
  IF h.state # "open" THEN h
  ELSE [h EXCEPT !.state = IF Exists(h.id, seg[h.id].attached \ {p}) THEN "closed" ELSE "dangling"]

\* Semaphore.Close, which removes it for everybody.
CloseSem(h) == sem' = IF h.state = "open" THEN [sem EXCEPT ![h.id].live = FALSE] ELSE sem
SemClosed(h) == IF h.state = "open" /\ sem[h.id].live THEN [h EXCEPT !.state = "closed"] ELSE h

\* Key of a handle, -1 once it is closed.
HasKey(h, key) == h.state \in {"open", "dangling"} /\ seg[h.id].key = key

\* Lock and Unlock, by p, of a semaphore it has a handle on.
Usable(h) == h.state = "open" /\ sem[h.id].live
SemLock(h, p) == Usable(h) /\ sem[h.id].by = Nobody /\ sem' = [sem EXCEPT ![h.id].by = p]
SemUnlock(h) == Usable(h) /\ sem' = [sem EXCEPT ![h.id].by = Nobody]

WGoto(from, to) == w.pc = from /\ w' = [w EXCEPT !.pc = to]
RGoto(p, from, to) == r[p].pc = from /\ r' = [r EXCEPT ![p].pc = to]
Options(p) == sent[r[p].o]
Fault == faults < MaxFaults /\ faults' = faults + 1

-----------------------------------------------------------------------------
\* Write, under w.m.
CallWrite(n) == /\ w.pc = "idle" /\ writes < MaxWrites /\ writes' = writes + 1
                /\ w' = [w EXCEPT !.pc = "shm", !.arg = n]
                /\ UNCHANGED <<seg, sem, r, sent, faults, got, spoilt, exposed, segv>>

TooSmall == w.shm.state = "nil" \/ w.arg > w.size

\* No segment, or it is too small: close it ...
ReplaceShm == /\ w.pc = "shm" /\ TooSmall
              /\ CloseShm(w.shm, Writer)
              /\ w' = [w EXCEPT !.pc = "create", !.shm = ShmClosed(w.shm, Writer)]
              /\ UNCHANGED <<sem, r, sent, writes, faults, got, spoilt, exposed, segv>>

KeepShm == /\ ~TooSmall /\ WGoto("shm", "sem")
           /\ UNCHANGED <<seg, sem, r, sent, writes, faults, got, spoilt, exposed, segv>>

\* ... and create another under a key that is free ...
CreateShm(k) == /\ w.pc = "create" /\ FreeKey(seg, k)
                /\ seg' = Append(seg, [key |-> k, live |-> TRUE, attached |-> {Writer}, size |-> w.arg,
                                       version |-> 0, torn |-> FALSE, under |-> 0])
                /\ w' = [w EXCEPT !.pc = "sem", !.shm = Open(Len(seg) + 1), !.size = w.arg]
                /\ UNCHANGED <<sem, r, sent, writes, faults, got, spoilt, exposed, segv>>

\* ... or fail, with the old handle closed and its size kept.
CreateFails == /\ w.pc \in {"create", "sem"} /\ WGoto(w.pc, "idle") /\ Fault
               /\ w.pc = "sem" => w.sem.state = "nil"
               /\ exposed' = IF w.shm.state = "dangling" THEN exposed \cup {Writer} ELSE exposed
               /\ UNCHANGED <<seg, sem, r, sent, writes, got, spoilt, segv>>

CreateSem(k) == /\ w.pc = "sem" /\ w.sem.state = "nil" /\ FreeKey(sem, k)
                /\ sem' = Append(sem, [key |-> k, live |-> TRUE, by |-> Nobody])
                /\ w' = [w EXCEPT !.pc = "lock", !.sem = Open(Len(sem) + 1)]
                /\ UNCHANGED <<seg, r, sent, writes, faults, got, spoilt, exposed, segv>>

KeepSem == /\ w.sem.state # "nil" /\ WGoto("sem", "lock")
           /\ UNCHANGED <<seg, sem, r, sent, writes, faults, got, spoilt, exposed, segv>>

WriteLock == /\ WGoto("lock", "write") /\ SemLock(w.sem, Writer)
             /\ UNCHANGED <<seg, r, sent, writes, faults, got, spoilt, exposed, segv>>

\* Somebody removed the semaphore: every write fails from now on.
WriteLockFails == /\ WGoto("lock", "idle") /\ ~Usable(w.sem)
                  /\ UNCHANGED <<seg, sem, r, sent, writes, faults, got, spoilt, exposed, segv>>

\* The segment is closed since a creation failed: return, semaphore in hand.
WriteFails == /\ WGoto("write", "idle") /\ w.shm.state = "closed"
              /\ spoilt' = spoilt \cup {w.sem.id}
              /\ UNCHANGED <<seg, sem, r, sent, writes, faults, got, exposed, segv>>

WriteStart == /\ WGoto("write", "writing") /\ w.shm.state # "closed"
              /\ IF w.shm.state = "open"
                 THEN seg' = [seg EXCEPT ![w.shm.id].torn = TRUE, ![w.shm.id].under = w.sem.id] /\ UNCHANGED segv
                 ELSE segv' = {Writer} /\ UNCHANGED seg
              /\ UNCHANGED <<sem, r, sent, writes, faults, got, spoilt, exposed>>

WriteEnd == /\ WGoto("writing", "unlock")
            /\ seg' = [seg EXCEPT ![w.shm.id].torn = FALSE, ![w.shm.id].version = writes]
            /\ UNCHANGED <<sem, r, sent, writes, faults, got, spoilt, exposed, segv>>

\* Unlock, and create read options.
WriteUnlock == /\ WGoto("unlock", "idle") /\ SemUnlock(w.sem)
               /\ sent' = Append(sent, [at |-> w.shm.id, lock |-> w.sem.id, size |-> w.arg, version |-> writes])
               /\ UNCHANGED <<seg, r, writes, faults, got, spoilt, exposed, segv>>

WriteUnlockFails == /\ WGoto("unlock", "idle") /\ ~Usable(w.sem)
                    /\ UNCHANGED <<seg, sem, r, sent, writes, faults, got, spoilt, exposed, segv>>

Close == /\ w.pc = "idle" /\ w.shm.state = "open" /\ Fault
         /\ CloseSem(w.sem) /\ CloseShm(w.shm, Writer)
         /\ w' = [w EXCEPT !.sem = SemClosed(w.sem), !.shm = ShmClosed(w.shm, Writer)]
         /\ exposed' = IF w.sem.state = "nil" THEN exposed \cup {Writer} ELSE exposed
         /\ UNCHANGED <<r, sent, writes, got, spoilt, segv>>

\* The writer's process dies: its segment stays, and so does the semaphore it holds.
Crash == /\ w # NewWriter /\ Fault /\ w' = NewWriter
         /\ seg' = [i \in DOMAIN seg |-> [seg[i] EXCEPT !.attached = @ \ {Writer}]]
         /\ spoilt' = spoilt \cup {i \in DOMAIN sem : sem[i].by = Writer}
         /\ UNCHANGED <<sem, r, sent, writes, got, exposed, segv>>

-----------------------------------------------------------------------------
\* ReadBytes, under r.m, with any options that were sent. A handle that Close could not
\* reset keeps its key, and At is still that of the last open.
ComesBack(p, i) == /\ r[p].shm.state = "dangling" /\ r[p].at # Options(p).at
                   /\ r[p].at = sent[i].at

CallRead(p, i) == /\ r[p].pc = "idle"
                  /\ r' = [r EXCEPT ![p].pc = "shm", ![p].o = i]
                  /\ got' = [got EXCEPT ![p] = NoRead]
                  /\ exposed' = IF ComesBack(p, i) THEN exposed \cup {p} ELSE exposed
                  /\ UNCHANGED <<seg, sem, w, sent, writes, faults, spoilt, segv>>

ChangedKey(p) == ~HasKey(r[p].shm, seg[Options(p).at].key)    \* mutant: At is not compared
Changed(p) == \/ ~HasKey(r[p].shm, seg[Options(p).at].key)
              \/ r[p].at # Options(p).at

\* Not opened, or another segment: close it, which also removes it ...
Reopen(p) == /\ r[p].pc = "shm" /\ Changed(p)
             /\ CloseShm(r[p].shm, p)
             /\ r' = [r EXCEPT ![p].pc = "open", ![p].shm = ShmClosed(r[p].shm, p)]
             /\ UNCHANGED <<sem, w, sent, writes, faults, got, spoilt, exposed, segv>>

KeepOpen(p) == /\ ~Changed(p) /\ RGoto(p, "shm", "sem")
               /\ UNCHANGED <<seg, sem, w, sent, writes, faults, got, spoilt, exposed, segv>>

\* ... and open the segment that has the key now, if there is one.
OpenShm(p) == /\ r[p].pc = "open"
              /\ \E i \in Named(seg, seg[Options(p).at].key) :
                   /\ seg' = [seg EXCEPT ![i].attached = @ \cup {p}]
                   /\ r' = [r EXCEPT ![p].pc = "sem", ![p].shm = Open(i), ![p].at = Options(p).at]
              /\ UNCHANGED <<sem, w, sent, writes, faults, got, spoilt, exposed, segv>>

OpenFails(p) == /\ RGoto(p, "open", "idle") /\ Named(seg, seg[Options(p).at].key) = {}
                /\ UNCHANGED <<seg, sem, w, sent, writes, faults, got, spoilt, exposed, segv>>

\* The semaphore is opened once, whatever later options name.
OpenSem(p) == /\ r[p].pc = "sem" /\ r[p].sem.state = "nil"
              /\ LET found == Named(sem, sem[Options(p).lock].key) IN
                 \/ \E i \in found : r' = [r EXCEPT ![p].pc = "lock", ![p].sem = Open(i)]
                 \/ found = {} /\ r' = [r EXCEPT ![p].pc = "idle"]
              /\ UNCHANGED <<seg, sem, w, sent, writes, faults, got, spoilt, exposed, segv>>

KeepOpenSem(p) == /\ r[p].sem.state # "nil" /\ RGoto(p, "sem", "lock")
                  /\ UNCHANGED <<seg, sem, w, sent, writes, faults, got, spoilt, exposed, segv>>

ReadLock(p) == /\ RGoto(p, "lock", "copy") /\ SemLock(r[p].sem, p)
               /\ UNCHANGED <<seg, w, sent, writes, faults, got, spoilt, exposed, segv>>

CopyUnlocked(p) == /\ RGoto(p, "lock", "copy")       \* mutant: a failed Lock is ignored
                   /\ ~Usable(r[p].sem)
                   /\ UNCHANGED <<seg, sem, w, sent, writes, faults, got, spoilt, exposed, segv>>

ReadLockFails(p) == /\ RGoto(p, "lock", "idle") /\ ~Usable(r[p].sem)
                    /\ UNCHANGED <<seg, sem, w, sent, writes, faults, got, spoilt, exposed, segv>>

Copy(p) == /\ RGoto(p, "copy", "unlock")
           /\ IF r[p].shm.state = "open"
              THEN LET i == r[p].shm.id IN
                   /\ got' = [got EXCEPT ![p] = [o |-> r[p].o, seg |-> i, lock |-> r[p].sem.id,
                                                 version |-> seg[i].version, torn |-> seg[i].torn,
                                                 under |-> seg[i].under,
                                                 short |-> Options(p).size > seg[i].size]]
                   /\ UNCHANGED segv
              ELSE segv' = {p} /\ UNCHANGED got
           /\ UNCHANGED <<seg, sem, w, sent, writes, faults, spoilt, exposed>>

ReturnLocked(p) == /\ RGoto(p, "unlock", "idle")      \* mutant: no unlock
                   /\ UNCHANGED <<seg, sem, w, sent, writes, faults, got, spoilt, exposed, segv>>

ReadUnlock(p) == /\ RGoto(p, "unlock", "idle")
                 /\ SemUnlock(r[p].sem) \/ (~Usable(r[p].sem) /\ UNCHANGED sem)
                 /\ UNCHANGED <<seg, w, sent, writes, faults, got, spoilt, exposed, segv>>

\* Close of a reader, which removes the writer's semaphore and segment.
ReaderClose(p) == /\ r[p].pc = "idle" /\ r[p].shm.state = "open" /\ Fault
                  /\ CloseSem(r[p].sem) /\ CloseShm(r[p].shm, p)
                  /\ r' = [r EXCEPT ![p].sem = SemClosed(r[p].sem), ![p].shm = ShmClosed(r[p].shm, p)]
                  /\ exposed' = IF r[p].sem.state = "nil" THEN exposed \cup {p} ELSE exposed
                  /\ UNCHANGED <<w, sent, writes, got, spoilt, segv>>

-----------------------------------------------------------------------------
Write == \/ ReplaceShm \/ KeepShm \/ KeepSem \/ WriteLock \/ WriteLockFails
         \/ WriteFails \/ WriteStart \/ WriteEnd \/ WriteUnlock \/ WriteUnlockFails
         \/ \E k \in Keys : CreateShm(k) \/ CreateSem(k)

ReadBytes(p) == \/ Reopen(p) \/ KeepOpen(p) \/ OpenShm(p) \/ OpenFails(p) \/ OpenSem(p)
                \/ KeepOpenSem(p) \/ ReadLock(p) \/ ReadLockFails(p) \/ Copy(p) \/ ReadUnlock(p)

SystemVNext == /\ segv = {}
               /\ \/ \E n \in Sizes : CallWrite(n)
                  \/ Write \/ CreateFails \/ Close \/ Crash
                  \/ \E p \in Readers : \/ \E i \in DOMAIN sent : CallRead(p, i)
                                        \/ ReadBytes(p) \/ ReaderClose(p)

SystemVSpec == SystemVInit /\ [][SystemVNext]_systemVVars

\* Processes that can run do, and semop lets in whoever waits.
SystemVFairness == SF_systemVVars(segv = {} /\ Write) /\ \A p \in Readers : SF_systemVVars(segv = {} /\ ReadBytes(p))

FairSystemVSpec == SystemVSpec /\ SystemVFairness

-----------------------------------------------------------------------------
\* Every variable has its type.
SystemVTypeOK == /\ \A i \in DOMAIN seg : /\ seg[i].key \in Keys /\ seg[i].live \in BOOLEAN
                                          /\ seg[i].attached \subseteq Readers \cup {Writer}
                 /\ \A i \in DOMAIN sem : /\ sem[i].key \in Keys /\ sem[i].live \in BOOLEAN
                                          /\ sem[i].by \in Readers \cup {Writer, Nobody}
                 /\ \A p \in Readers : r[p].o \in 0..Len(sent) /\ got[p].o \in 0..Len(sent)
                 /\ spoilt \subseteq DOMAIN sem /\ exposed \cup segv \subseteq Readers \cup {Writer}

\* What a read returns, with options used in any order, is at least as recent as the
\* write its options come from and lies within the segment, unless their key was used
\* again: then nobody may have written to that segment yet, and it may be shorter. And
\* it is whole unless the reader holds another semaphore than who wrote the segment, as
\* after the writer restarted (src/ipc/systemv/systemv.go:284-297, 393-447).
ReadsAreWhole == SystemVTypeOK /\ \A p \in Readers : got[p].o # 0 =>
  LET o == sent[got[p].o]
      again == got[p].seg > o.at
  IN  /\ got[p].seg = o.at \/ again
      /\ got[p].version >= o.version \/ (again /\ got[p].version = 0)
      /\ got[p].short => again
      /\ got[p].torn => got[p].lock # got[p].under

\* Whoever holds a semaphore is at work and will unlock it, unless a crash or a
\* failed creation left it locked.
InSection(p) == IF p = Writer THEN w.pc \in {"write", "writing", "unlock"}
                ELSE r[p].pc \in {"copy", "unlock"}
SemaphoreFreed == \A i \in DOMAIN sem \ spoilt :
  sem[i].live /\ sem[i].by # Nobody => InSection(sem[i].by)

\* Nobody copies from or to a segment it has detached: a handle that Close could not
\* reset is not used, because the key or At of the options differ, or because the
\* semaphore went with it. Three cases excepted: a writer whose next creation failed
\* keeps the semaphore, the handle and its size, and copies the next write that fits to
\* where the segment was; a reader that comes back to the options of a segment that it
\* detached for one it could not open; and whoever is used on after a Close that found
\* no semaphore to close. And nobody keeps a semaphore that neither a crash nor a failed
\* creation left locked (src/ipc/systemv/systemv.go:322-346, 395-447).
NeverDangling == segv \subseteq exposed /\ SemaphoreFreed

\* A read returns, with an error or what it read, unless its semaphore was left locked.
ReadReturns == \A p \in Readers :
  (r[p].pc # "idle") ~> (r[p].pc = "idle" \/ segv # {} \/ r[p].sem.id \in spoilt)
=============================================================================
