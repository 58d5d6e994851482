----------------------------- MODULE Tools_proofs -----------------------------
(***************************************************************************)
(* Theorems about the tools that are checked one at a time: POSIX shared   *)
(* memory, closers, System V shared memory, for every value of their       *)
(* constants.                                                              *)
(***************************************************************************)
EXTENDS Closer, SystemV, Posix, FiniteSetTheorems, SequenceTheorems, WellFoundedInduction, TLAPS

-----------------------------------------------------------------------------
\* POSIX shared memory.
Objects == [name : PosixSizes, linked : BOOLEAN, version : Nat]
Handles == [id : Nat, name : Nat, state : {"nil", "open", "closed"}]
Option == [name : PosixSizes, version : Nat, gen : Nat]
PosixTypes ==
  /\ obj \in Seq(Objects) /\ psent \in Seq(Option)
  /\ pw \in [pc : {"idle", "shm", "create", "write"}, shm : Handles, arg : Nat]
  /\ pr \in [PosixReaders -> [pc : {"idle", "shm", "open", "copy"}, shm : Handles, o : Nat, met : SUBSET Nat,
                              shut : BOOLEAN, back : BOOLEAN]]
  /\ pgot \in [PosixReaders -> [o : Nat, version : Nat, same : BOOLEAN]]
  /\ pwrites \in 0..PosixWrites /\ gen \in 1..PosixRestarts + 1 /\ crashed \in BOOLEAN

\* What the past leaves: a reader met the writer of its options, and what was read keeps
\* what it was read for.
PastInv ==
  /\ \A i \in 1..Len(obj) : obj[i].version <= pwrites
  /\ \A k \in 1..Len(psent) : psent[k].gen \in 1..gen /\ psent[k].version <= pwrites
  /\ \A p \in PosixReaders :
       /\ pr[p].o \in 0..Len(psent) /\ pr[p].met \subseteq 1..gen
       /\ pr[p].o # 0 => psent[pr[p].o].gen \in pr[p].met
       /\ pr[p].o = 0 => pr[p].pc = "idle" /\ pr[p].shm.state = "nil"
       /\ pr[p].shm.state = "open" => pr[p].shm.id \in 1..Len(obj)
       /\ pgot[p].same => /\ pgot[p].o \in 1..Len(psent)
                          /\ pgot[p].version >= psent[pgot[p].o].version
  /\ crashed => \E p \in PosixReaders : pr[p].pc = "idle" /\ (pr[p].shut \/ pr[p].back \/ ~OneWriter(p))

\* The objects after the first b are those of the writer that is there now: it gives them
\* names that grow, so that each name means one of them.
WriterInv(b) ==
  /\ b \in 0..Len(obj)
  /\ \A i, j \in 1..Len(obj) : b < i /\ i < j => obj[i].name < obj[j].name
  /\ \A i, j \in 1..Len(obj) : b < i /\ j <= b /\ obj[j].name = obj[i].name => ~obj[j].linked
  /\ \A i \in 1..Len(obj) : b < i => obj[i].name <= pw.shm.name
  /\ pw.shm.state = "nil" => b = Len(obj)
  /\ pw.shm.state = "open" => pw.shm.id \in 1..Len(obj) /\ b < pw.shm.id /\ obj[pw.shm.id].name = pw.shm.name
  /\ pw.pc = "create" => ~PosixFits /\ pw.shm.state # "open"
  /\ pw.pc # "idle" => pw.arg \in PosixSizes
  /\ pw.pc = "write" => pw.shm.state # "nil"

\* Its options name these objects.
OptionsInv(b) ==
  \A k \in 1..Len(psent) : psent[k].gen = gen =>
    \E i \in 1..Len(obj) : b < i /\ obj[i].name = psent[k].name /\ obj[i].version >= psent[k].version

\* A reader that only met this writer has an object of it mapped, or none: what it closed
\* has another name than its options, unless it comes back.
ReaderInv(b) == \A p \in PosixReaders : OneWriter(p) =>
  /\ pr[p].shm.state = "open" => /\ pr[p].shm.id \in 1..Len(obj) /\ b < pr[p].shm.id
                                 /\ obj[pr[p].shm.id].name = pr[p].shm.name
  /\ pr[p].shm.state = "closed" /\ ~pr[p].shut /\ ~pr[p].back => pr[p].shm.name # ReadOptions(p).name
  /\ pr[p].pc = "copy" => pr[p].shm.state # "nil" /\ pr[p].shm.name = ReadOptions(p).name

PosixIInv == /\ PosixTypes /\ PastInv
             /\ \E b \in 0..Len(obj) : WriterInv(b) /\ OptionsInv(b) /\ ReaderInv(b)

LEMMA SeqUpdate ==
  ASSUME NEW T, NEW s \in Seq(T), NEW i \in 1..Len(s), NEW x \in T
  PROVE  /\ [s EXCEPT ![i] = x] \in Seq(T) /\ Len([s EXCEPT ![i] = x]) = Len(s)
         /\ \A j \in 1..Len(s) : [s EXCEPT ![i] = x][j] = IF j = i THEN x ELSE s[j]
BY ExceptSeq

LEMMA SeqExtend ==
  ASSUME NEW T, NEW s \in Seq(T), NEW x \in T
  PROVE  /\ Append(s, x) \in Seq(T) /\ Len(Append(s, x)) = Len(s) + 1 /\ Len(s) \in Nat
         /\ Append(s, x)[Len(s) + 1] = x /\ \A j \in 1..Len(s) : Append(s, x)[j] = s[j]
BY AppendProperties, LenProperties

LEMMA PosixFacts ==
  ASSUME PosixTypes
  PROVE  /\ Len(obj) \in Nat /\ Len(psent) \in Nat /\ DOMAIN obj = 1..Len(obj) /\ DOMAIN psent = 1..Len(psent)
         /\ \A i \in 1..Len(obj) : obj[i] \in Objects
         /\ \A k \in 1..Len(psent) : psent[k] \in Option
         /\ PosixSizes \subseteq Nat \ {0} /\ PosixWrites \in Nat /\ PosixRestarts \in Nat
BY PosixAssumption, LenProperties, ElementOfSeq DEF PosixTypes

LEMMA PosixInitInv == PosixInit => PosixIInv
<1> SUFFICES ASSUME PosixInit PROVE PosixIInv OBVIOUS
<1> USE PosixAssumption DEF PosixInit, NewPosixWriter, NewPosixReader, NoShm
<1>1. PosixTypes
  <2>1. obj \in Seq(Objects) /\ psent \in Seq(Option) BY EmptySeq
  <2>2. NoShm \in Handles BY DEF Handles
  <2>3. pw \in [pc : {"idle", "shm", "create", "write"}, shm : Handles, arg : Nat] BY <2>2
  <2>4. NewPosixReader \in [pc : {"idle", "shm", "open", "copy"}, shm : Handles, o : Nat, met : SUBSET Nat,
     shut : BOOLEAN, back : BOOLEAN]
    BY <2>2
  <2>5. pwrites \in 0..PosixWrites /\ gen \in 1..PosixRestarts + 1 /\ crashed \in BOOLEAN
    <3>1. pwrites = 0 /\ gen = 1 /\ crashed = FALSE OBVIOUS
    <3>2. pwrites \in 0..PosixWrites /\ gen \in 1..PosixRestarts + 1 BY ONLY <3>1, PosixAssumption
    <3>3. crashed \in BOOLEAN BY ONLY <3>1
    <3>4. QED BY ONLY <3>2, <3>3
  <2>6. pgot \in [PosixReaders -> [o : Nat, version : Nat, same : BOOLEAN]] OBVIOUS
  <2>7. pr = [p \in PosixReaders |-> NewPosixReader] BY DEF PosixInit
  <2>8. pr \in [PosixReaders -> [pc : {"idle", "shm", "open", "copy"}, shm : Handles, o : Nat, met : SUBSET Nat,
     shut : BOOLEAN, back : BOOLEAN]]
    BY ONLY <2>4, <2>7
  <2>9. QED BY ONLY <2>1, <2>3, <2>5, <2>6, <2>8 DEF PosixTypes
<1>2. Len(obj) = 0 /\ Len(psent) = 0 BY EmptySeq
<1>3. PastInv BY <1>2 DEF PastInv
<1>4. WriterInv(0) /\ OptionsInv(0) /\ ReaderInv(0) BY <1>2 DEF WriterInv, OptionsInv, ReaderInv
<1>5. QED BY <1>1, <1>2, <1>3, <1>4 DEF PosixIInv

\* The steps of the writer that leave the objects and the options alone.
WriterOnly == (\E n \in PosixSizes : PosixCall(n)) \/ PosixKeep \/ PosixCreateFails \/ PosixWriteFails
LEMMA WriterOnlyInv == PosixIInv /\ WriterOnly => PosixIInv'
<1> SUFFICES ASSUME PosixIInv, WriterOnly PROVE PosixIInv' OBVIOUS
<1>1. PosixTypes /\ PastInv BY DEF PosixIInv
<1>2. PICK b \in 0..Len(obj) : WriterInv(b) /\ OptionsInv(b) /\ ReaderInv(b) BY DEF PosixIInv
<1>3. UNCHANGED <<obj, pr, psent, gen, pgot, crashed>>
  BY DEF WriterOnly, PosixCall, PosixKeep, PosixCreateFails, PosixWriteFails
<1>4. /\ pw' \in [pc : {"idle", "shm", "create", "write"}, shm : Handles, arg : Nat] /\ pw'.shm = pw.shm
      /\ pwrites' \in 0..PosixWrites /\ pwrites <= pwrites'
      /\ pw'.pc # "create" /\ (pw'.pc # "idle" => pw'.arg \in PosixSizes)
      /\ pw'.pc = "write" => pw.shm.state # "nil"
  <2>1. /\ pw \in [pc : {"idle", "shm", "create", "write"}, shm : Handles, arg : Nat]
        /\ pwrites \in Nat /\ pwrites <= PosixWrites /\ PosixWrites \in Nat /\ PosixSizes \subseteq Nat
        /\ pw.pc # "idle" => pw.arg \in PosixSizes
    BY <1>1, <1>2, PosixFacts DEF PosixTypes, WriterInv
  <2>2. ASSUME NEW n \in PosixSizes, PosixCall(n)
        PROVE  /\ pw' = [pw EXCEPT !.pc = "shm", !.arg = n] /\ n \in Nat
               /\ pwrites' = pwrites + 1 /\ pwrites < PosixWrites
    BY <2>1, <2>2 DEF PosixCall
  <2>3. CASE \E n \in PosixSizes : PosixCall(n)
    <3>1. PICK n \in PosixSizes : PosixCall(n) BY <2>3
    <3>2. pw' = [pw EXCEPT !.pc = "shm", !.arg = n] /\ n \in Nat BY <2>2, <3>1
    <3>3. /\ pw' \in [pc : {"idle", "shm", "create", "write"}, shm : Handles, arg : Nat] /\ pw'.shm = pw.shm
          /\ pw'.pc = "shm" /\ pw'.arg = n
      BY <2>1, <3>2
    <3>4. pwrites' \in 0..PosixWrites /\ pwrites <= pwrites'
      <4>1. pwrites' = pwrites + 1 /\ pwrites < PosixWrites BY <2>2, <3>1
      <4>2. QED BY ONLY <2>1, <4>1
    <3>5. QED BY <3>3, <3>4
  <2>4. CASE PosixKeep BY <2>1, <2>4 DEF PosixKeep, PWGoto, PosixFits
  <2>5. CASE PosixCreateFails BY <2>1, <2>5 DEF PosixCreateFails, PWGoto
  <2>6. CASE PosixWriteFails BY <2>1, <2>6 DEF PosixWriteFails, PWGoto
  <2>7. QED BY <2>3, <2>4, <2>5, <2>6 DEF WriterOnly
<1>5. PosixTypes' BY <1>1, <1>3, <1>4 DEF PosixTypes
<1>6. PastInv'
  <2>0. pwrites \in Nat /\ pwrites' \in Nat /\ pwrites <= pwrites' BY <1>1, <1>4, PosixAssumption DEF PosixTypes
  <2>1. \A i \in 1..Len(obj) : obj[i].version <= pwrites'
    <3> SUFFICES ASSUME NEW i \in 1..Len(obj) PROVE obj[i].version <= pwrites' OBVIOUS
    <3>1. obj[i].version \in Nat /\ obj[i].version <= pwrites BY <1>1, PosixFacts DEF PastInv, Objects
    <3>2. QED BY <2>0, <3>1
  <2>2. \A k \in 1..Len(psent) : psent[k].version <= pwrites'
    <3> SUFFICES ASSUME NEW k \in 1..Len(psent) PROVE psent[k].version <= pwrites' OBVIOUS
    <3>1. psent[k].version \in Nat /\ psent[k].version <= pwrites BY <1>1, PosixFacts DEF PastInv, Option
    <3>2. QED BY <2>0, <3>1
  <2>3. QED BY <1>1, <1>3, <2>1, <2>2 DEF PastInv, OneWriter, ReadOptions
<1>7. WriterInv(b)' BY <1>2, <1>3, <1>4 DEF WriterInv
<1>8. OptionsInv(b)' /\ ReaderInv(b)' BY <1>2, <1>3 DEF OptionsInv, ReaderInv, OneWriter, ReadOptions
<1>9. QED BY <1>3, <1>5, <1>6, <1>7, <1>8 DEF PosixIInv

\* Those that unlink the object: it is closed.
WriterCloses == PosixReplace \/ PosixClose
LEMMA WriterClosesInv == PosixIInv /\ WriterCloses => PosixIInv'
<1> SUFFICES ASSUME PosixIInv, WriterCloses PROVE PosixIInv' OBVIOUS
<1>1. PosixTypes /\ PastInv BY DEF PosixIInv
<1>2. PICK b \in 0..Len(obj) : WriterInv(b) /\ OptionsInv(b) /\ ReaderInv(b) BY DEF PosixIInv
<1>3. UNCHANGED <<pr, psent, pwrites, gen, pgot, crashed>> /\ Unlink(pw.shm)
  BY DEF WriterCloses, PosixReplace, PosixClose
<1>4. /\ pw' \in [pc : {"idle", "shm", "create", "write"}, shm : Handles, arg : Nat]
      /\ pw'.shm.name = pw.shm.name /\ pw'.shm.state = IF pw.shm.state = "nil" THEN "nil" ELSE "closed"
      /\ pw'.pc \in {"idle", "create"} /\ pw'.arg = pw.arg
      /\ pw'.pc = "create" => ~PosixFits /\ pw.arg \in PosixSizes
  <2>1. pw \in [pc : {"idle", "shm", "create", "write"}, shm : Handles, arg : Nat] BY <1>1 DEF PosixTypes
  <2>2. /\ Closed(pw.shm) \in Handles /\ Closed(pw.shm).name = pw.shm.name
        /\ Closed(pw.shm).state = IF pw.shm.state = "nil" THEN "nil" ELSE "closed"
    BY <2>1 DEF Closed, Handles
  <2>3. CASE PosixReplace BY <1>2, <2>1, <2>2, <2>3 DEF PosixReplace, WriterInv
  <2>4. CASE PosixClose BY <2>1, <2>2, <2>4 DEF PosixClose
  <2>5. QED BY <2>3, <2>4 DEF WriterCloses
<1>5. /\ obj' \in Seq(Objects) /\ Len(obj') = Len(obj)
      /\ \A i \in 1..Len(obj) : /\ obj'[i].name = obj[i].name /\ obj'[i].version = obj[i].version
                                /\ obj'[i].linked => obj[i].linked
  <2>1. CASE pw.shm.state # "open" BY <1>1, <1>3, <2>1 DEF Unlink, PosixTypes
  <2>2. CASE pw.shm.state = "open"
    <3>1. pw.shm.id \in 1..Len(obj) BY <1>2, <2>2 DEF WriterInv
    <3>2. PICK x : x = [obj[pw.shm.id] EXCEPT !.linked = FALSE] OBVIOUS
    <3>3. /\ x \in Objects /\ x.name = obj[pw.shm.id].name /\ x.version = obj[pw.shm.id].version
          /\ x.linked = FALSE
      BY <1>1, <3>1, <3>2, PosixFacts DEF Objects
    <3>4. obj' = [obj EXCEPT ![pw.shm.id] = x] BY <1>3, <2>2, <3>2 DEF Unlink
    <3>5. obj \in Seq(Objects) BY <1>1 DEF PosixTypes
    <3>6. /\ obj' \in Seq(Objects) /\ Len(obj') = Len(obj)
          /\ \A j \in 1..Len(obj) : obj'[j] = IF j = pw.shm.id THEN x ELSE obj[j]
      BY ONLY <3>1, <3>3, <3>4, <3>5, SeqUpdate
    <3>7. QED BY <3>3, <3>6
  <2>3. QED BY <2>1, <2>2
<1>6. PosixTypes' BY <1>1, <1>3, <1>4, <1>5 DEF PosixTypes
<1>7. PastInv' BY <1>1, <1>3, <1>5, PosixFacts DEF PastInv, OneWriter, ReadOptions
<1>8. WriterInv(b)'
  <2>1. (pw'.pc = "create" => ~PosixFits') BY <1>4 DEF PosixFits
  <2>2. QED BY <1>2, <1>4, <1>5, <2>1 DEF WriterInv
<1>9. OptionsInv(b)'
  <2>1. psent' = psent /\ gen' = gen /\ OptionsInv(b) BY <1>2, <1>3
  <2>2. QED BY ONLY <1>5, <2>1 DEF OptionsInv
<1>10. ReaderInv(b)' BY <1>2, <1>3, <1>5 DEF ReaderInv, OneWriter, ReadOptions
<1>11. QED BY <1>5, <1>6, <1>7, <1>8, <1>9, <1>10 DEF PosixIInv

LEMMA WriterCreatesInv == PosixIInv /\ PosixCreate => PosixIInv'
<1> SUFFICES ASSUME PosixIInv, PosixCreate PROVE PosixIInv' OBVIOUS
<1>1. PosixTypes /\ PastInv BY DEF PosixIInv
<1>2. PICK b \in 0..Len(obj) : WriterInv(b) /\ OptionsInv(b) /\ ReaderInv(b) BY DEF PosixIInv
<1>3. UNCHANGED <<pr, psent, pwrites, gen, pgot, crashed>> BY DEF PosixCreate
<1>4. PICK x : x = [name |-> pw.arg, linked |-> TRUE, version |-> 0] OBVIOUS
<1>5. x \in Objects /\ x.name = pw.arg /\ x.version = 0 BY <1>2, <1>4 DEF PosixCreate, WriterInv, Objects
<1>6. /\ obj' \in Seq(Objects) /\ Len(obj) \in Nat /\ Len(obj') = Len(obj) + 1 /\ obj'[Len(obj) + 1] = x
      /\ \A j \in 1..Len(obj) : obj'[j] = obj[j]
  <2>1. obj \in Seq(Objects) /\ obj' = Append(obj, x) BY <1>1, <1>4 DEF PosixCreate, PosixTypes
  <2>2. QED BY ONLY <1>5, <2>1, SeqExtend
<1>7. /\ pw' \in [pc : {"idle", "shm", "create", "write"}, shm : Handles, arg : Nat]
      /\ pw'.shm = [id |-> Len(obj) + 1, name |-> pw.arg, state |-> "open"] /\ pw'.pc = "write" /\ pw'.arg = pw.arg
  <2> DEFINE h == [id |-> Len(obj) + 1, name |-> pw.arg, state |-> "open"]
  <2>1. pw \in [pc : {"idle", "shm", "create", "write"}, shm : Handles, arg : Nat] BY <1>1 DEF PosixTypes
  <2>2. h \in Handles BY <1>6, <2>1 DEF Handles
  <2>3. pw' = [pw EXCEPT !.pc = "write", !.shm = h] BY DEF PosixCreate
  <2>4. QED BY <2>1, <2>2, <2>3
<1>8. PosixTypes' BY <1>1, <1>3, <1>6, <1>7 DEF PosixTypes
<1>9. PastInv'
  <2>1. \A i \in 1..Len(obj') : obj'[i].version <= pwrites'
    <3> SUFFICES ASSUME NEW i \in 1..Len(obj') PROVE obj'[i].version <= pwrites BY <1>3
    <3>1. i \in 1..Len(obj) \/ i = Len(obj) + 1 BY <1>6
    <3>2. pwrites \in Nat BY <1>1, PosixAssumption DEF PosixTypes
    <3>3. QED BY <1>1, <1>5, <1>6, <3>1, <3>2 DEF PastInv
  <2>2. \A i \in 1..Len(obj) : i \in 1..Len(obj') BY <1>6
  <2>3. QED BY <1>1, <1>3, <2>1, <2>2 DEF PastInv, OneWriter, ReadOptions
<1>10. \A j \in 1..Len(obj) : obj[j].name = pw.arg => ~obj[j].linked
  BY <1>1, PosixFacts DEF PosixCreate, Linked
<1>11. \A i \in 1..Len(obj) : b < i => obj[i].name < pw.arg
  <2> SUFFICES ASSUME NEW i \in 1..Len(obj), b < i PROVE obj[i].name < pw.arg OBVIOUS
  <2>1. pw.shm.state # "nil" BY <1>2, <1>6 DEF WriterInv
  <2>2. pw.pc = "create" BY DEF PosixCreate
  <2>3. ~(pw.arg <= pw.shm.name) BY <1>2, <2>1, <2>2 DEF WriterInv, PosixFits
  <2>4. obj[i].name <= pw.shm.name /\ obj[i].name \in Nat /\ pw.arg \in Nat /\ pw.shm.name \in Nat
    BY <1>1, <1>2, PosixFacts DEF WriterInv, Objects, PosixTypes, Handles
  <2>5. QED BY <2>3, <2>4
<1>12. WriterInv(b)'
  <2>1. pw.arg \in PosixSizes /\ pw.arg \in Nat BY <1>2, PosixAssumption DEF WriterInv, PosixCreate
  <2>2. \A i \in 1..Len(obj') : i \in 1..Len(obj) \/ i = Len(obj) + 1 BY <1>6
  <2>3. \A i, j \in 1..Len(obj') : b < i /\ i < j => obj'[i].name < obj'[j].name
    BY <1>2, <1>5, <1>6, <1>11, <2>2 DEF WriterInv
  <2>4. \A i, j \in 1..Len(obj') : b < i /\ j <= b /\ obj'[j].name = obj'[i].name => ~obj'[j].linked
    BY <1>2, <1>5, <1>6, <1>10, <2>2 DEF WriterInv
  <2>5. \A i \in 1..Len(obj') : b < i => obj'[i].name <= pw'.shm.name
    <3> SUFFICES ASSUME NEW i \in 1..Len(obj'), b < i PROVE obj'[i].name <= pw.arg BY <1>7
    <3>1. CASE i = Len(obj) + 1 BY <1>5, <1>6, <2>1, <3>1
    <3>2. CASE i \in 1..Len(obj)
      <4>1. obj[i].name < pw.arg /\ obj[i].name \in Nat BY <1>1, <1>11, <3>2, PosixFacts DEF Objects
      <4>2. QED BY <1>6, <2>1, <3>2, <4>1
    <3>3. QED BY <2>2, <3>1, <3>2
  <2>6. /\ b \in 0..Len(obj') /\ Len(obj) + 1 \in 1..Len(obj') /\ b < Len(obj) + 1
        /\ obj'[Len(obj) + 1].name = pw.arg
    BY ONLY <1>5, <1>6, b \in 0..Len(obj)
  <2>7. /\ pw'.shm.state = "open" /\ pw'.shm.id = Len(obj) + 1 /\ pw'.shm.name = pw.arg
        /\ pw'.pc = "write" /\ pw'.arg = pw.arg
    BY ONLY <1>7
  <2>8. QED BY ONLY <2>1, <2>3, <2>4, <2>5, <2>6, <2>7 DEF WriterInv
<1>13. OptionsInv(b)'
  <2>1. \A i \in 1..Len(obj) : i \in 1..Len(obj') /\ obj'[i] = obj[i] BY <1>6
  <2>2. psent' = psent /\ gen' = gen /\ OptionsInv(b) BY <1>2, <1>3
  <2>3. QED BY ONLY <2>1, <2>2 DEF OptionsInv
<1>14. ReaderInv(b)' BY <1>2, <1>3, <1>6 DEF ReaderInv, OneWriter, ReadOptions
<1>15. QED BY <1>6, <1>8, <1>9, <1>12, <1>13, <1>14 DEF PosixIInv

\* A write puts the number of the call in the object and in the options that name it.
LEMMA WriterWritesInv == PosixIInv /\ PosixWrite /\ ~crashed => PosixIInv'
<1> SUFFICES ASSUME PosixIInv, PosixWrite, ~crashed PROVE PosixIInv' OBVIOUS
<1>1. PosixTypes /\ PastInv BY DEF PosixIInv
<1>2. PICK b \in 0..Len(obj) : WriterInv(b) /\ OptionsInv(b) /\ ReaderInv(b) BY DEF PosixIInv
<1>3. UNCHANGED <<pr, pwrites, gen, pgot, crashed>> BY DEF PosixWrite
<1>4. PICK h : h = pw.shm.id OBVIOUS
<1>5. /\ h \in 1..Len(obj) /\ b < h /\ obj[h].name = pw.shm.name /\ pw.shm.state = "open" /\ pwrites \in Nat
      /\ pwrites \in 0..PosixWrites
  BY <1>1, <1>2, <1>4, PosixAssumption DEF WriterInv, PosixWrite, PWGoto, PosixTypes
<1>6. /\ pw' \in [pc : {"idle", "shm", "create", "write"}, shm : Handles, arg : Nat]
      /\ pw'.shm = pw.shm /\ pw'.pc = "idle" /\ pw'.arg = pw.arg
  BY <1>1 DEF PosixWrite, PWGoto, PosixTypes
<1>7. /\ obj' \in Seq(Objects) /\ Len(obj') = Len(obj)
      /\ \A i \in 1..Len(obj) : /\ obj'[i].name = obj[i].name /\ obj'[i].linked = obj[i].linked
                                /\ obj'[i].version = IF i = h THEN pwrites ELSE obj[i].version
  <2>1. PICK x : x = [obj[h] EXCEPT !.version = pwrites] OBVIOUS
  <2>2. /\ x \in Objects /\ x.name = obj[h].name /\ x.linked = obj[h].linked
        /\ x.version = pwrites
    BY <1>1, <1>5, <2>1, PosixFacts DEF Objects
  <2>3. obj' = [obj EXCEPT ![h] = x] BY <1>4, <2>1 DEF PosixWrite
  <2>4. obj \in Seq(Objects) BY <1>1 DEF PosixTypes
  <2>5. /\ obj' \in Seq(Objects) /\ Len(obj') = Len(obj)
        /\ \A j \in 1..Len(obj) : obj'[j] = IF j = h THEN x ELSE obj[j]
    BY ONLY <1>5, <2>2, <2>3, <2>4, SeqUpdate
  <2>6. QED BY <2>2, <2>5
<1>8. PICK o : o = [name |-> pw.shm.name, version |-> pwrites, gen |-> gen] OBVIOUS
<1>9. o \in Option /\ o.name = pw.shm.name /\ o.version = pwrites /\ o.gen = gen /\ gen \in Nat
  <2>1. pw.shm.name \in PosixSizes BY <1>1, <1>5, PosixFacts DEF Objects
  <2>2. gen \in Nat BY <1>1, PosixAssumption DEF PosixTypes
  <2>3. QED BY <1>5, <1>8, <2>1, <2>2 DEF Option
<1>10. /\ psent' \in Seq(Option) /\ Len(psent) \in Nat /\ Len(psent') = Len(psent) + 1
       /\ psent'[Len(psent) + 1] = o /\ \A k \in 1..Len(psent) : psent'[k] = psent[k]
  <2>1. psent \in Seq(Option) /\ psent' = Append(psent, o) BY <1>1, <1>8 DEF PosixWrite, PosixTypes
  <2>2. QED BY ONLY <1>9, <2>1, SeqExtend
<1>11. \A k \in 1..Len(psent') : k \in 1..Len(psent) \/ k = Len(psent) + 1 BY <1>10
<1>12. PosixTypes' BY <1>1, <1>3, <1>6, <1>7, <1>10 DEF PosixTypes
<1>13. \A p \in PosixReaders : pr[p].o # 0 => ReadOptions(p)' = ReadOptions(p)
  BY <1>1, <1>3, <1>10 DEF PastInv, ReadOptions
<1>14. PastInv'
  <2>1. \A i \in 1..Len(obj') : obj'[i].version <= pwrites' BY <1>1, <1>3, <1>5, <1>7 DEF PastInv
  <2>2. \A k \in 1..Len(psent') : psent'[k].gen \in 1..gen' /\ psent'[k].version <= pwrites'
    <3>1. gen \in 1..gen /\ pwrites <= pwrites BY <1>1, <1>5, <1>9, PosixAssumption DEF PosixTypes
    <3>2. QED BY <1>1, <1>3, <1>9, <1>10, <1>11, <3>1 DEF PastInv
  <2>3. ~crashed' BY <1>3
  <2>4. \A k \in 0..Len(psent) : k \in 0..Len(psent') BY <1>10
  <2>5. ASSUME NEW p \in PosixReaders, pr[p].o # 0 PROVE psent'[pr[p].o].gen \in pr[p].met
    <3>1. pr[p].o \in 1..Len(psent) BY <1>1, <2>5 DEF PastInv
    <3>2. QED BY <1>1, <1>10, <2>5, <3>1 DEF PastInv
  <2>6. ASSUME NEW p \in PosixReaders, pgot[p].same
        PROVE  pgot[p].o \in 1..Len(psent') /\ pgot[p].version >= psent'[pgot[p].o].version
    BY <1>1, <1>10, <2>6 DEF PastInv
  <2>7. QED BY <1>1, <1>3, <1>7, <2>1, <2>2, <2>3, <2>4, <2>5, <2>6 DEF PastInv
<1>15. WriterInv(b)' BY <1>2, <1>6, <1>7 DEF WriterInv
<1>16. OptionsInv(b)'
  <2> SUFFICES ASSUME NEW k \in 1..Len(psent'), psent'[k].gen = gen
               PROVE  \E i \in 1..Len(obj') : b < i /\ obj'[i].name = psent'[k].name /\ obj'[i].version >= psent'[k].version
    BY <1>3 DEF OptionsInv
  <2>1. CASE k = Len(psent) + 1
    <3>1. obj'[h].name = psent'[k].name /\ obj'[h].version = pwrites /\ psent'[k].version = pwrites
      BY <1>5, <1>7, <1>9, <1>10, <2>1
    <3>2. QED BY <1>5, <1>7, <3>1
  <2>2. CASE k \in 1..Len(psent)
    <3>1. psent'[k] = psent[k] BY <1>10, <2>2
    <3>2. PICK i \in 1..Len(obj) : b < i /\ obj[i].name = psent[k].name /\ obj[i].version >= psent[k].version
      BY <1>2, <2>2, <3>1 DEF OptionsInv
    <3>3. pwrites >= psent[k].version BY <1>1, <1>5, <2>2, PosixFacts DEF PastInv, Option
    <3>4. QED BY <1>7, <3>1, <3>2, <3>3
  <2>3. QED BY <1>11, <2>1, <2>2
<1>17. ReaderInv(b)'
  <2>1. \A p \in PosixReaders : pr[p].o = 0 => pr[p].pc = "idle" /\ pr[p].shm.state = "nil" BY <1>1 DEF PastInv
  <2>2. \A p \in PosixReaders : OneWriter(p)' <=> OneWriter(p) BY <1>3 DEF OneWriter
  <2>3. QED BY <1>2, <1>3, <1>7, <1>13, <2>1, <2>2 DEF ReaderInv
<1>18. QED BY <1>7, <1>12, <1>14, <1>15, <1>16, <1>17 DEF PosixIInv

\* A new writer: nobody has used it yet.
LEMMA WriterRestartsInv == PosixIInv /\ PosixRestart /\ ~crashed => PosixIInv'
<1> SUFFICES ASSUME PosixIInv, PosixRestart, ~crashed PROVE PosixIInv' OBVIOUS
<1>1. PosixTypes /\ PastInv BY DEF PosixIInv
<1>2. gen \in Nat /\ gen >= 1 /\ gen <= PosixRestarts /\ gen' = gen + 1 /\ PosixRestarts \in Nat
  BY <1>1, PosixAssumption DEF PosixRestart, PosixTypes
<1>3. UNCHANGED <<obj, pr, psent, pwrites, pgot, crashed>> /\ pw' = NewPosixWriter BY DEF PosixRestart
<1>4. PosixTypes'
  <2>1. NoShm \in Handles BY DEF NoShm, Handles
  <2>2. pw' \in [pc : {"idle", "shm", "create", "write"}, shm : Handles, arg : Nat] BY <1>3, <2>1 DEF NewPosixWriter
  <2>3. gen' \in 1..PosixRestarts + 1 BY <1>2
  <2>4. QED BY <1>1, <1>3, <2>2, <2>3 DEF PosixTypes
<1>5. PastInv'
  <2>1. \A k \in 1..gen : k \in 1..gen' BY <1>2
  <2>2. \A p \in PosixReaders : pr[p].met \subseteq 1..gen' BY <1>1, <2>1 DEF PastInv
  <2>3. QED BY <1>1, <1>3, <2>1, <2>2 DEF PastInv
<1>6. Len(obj) \in Nat BY <1>1, PosixFacts
<1>7. WriterInv(Len(obj))'
  <2>1. \A i \in 1..Len(obj) : ~(Len(obj) < i) BY <1>6
  <2>2. PICK b : b = Len(obj) OBVIOUS
  <2>3. pw'.pc = "idle" /\ pw'.shm.state = "nil" BY <1>3 DEF NewPosixWriter, NoShm
  <2>4. WriterInv(b)' BY <1>3, <1>6, <2>1, <2>2, <2>3 DEF WriterInv
  <2>5. QED BY <1>3, <2>2, <2>4 DEF WriterInv
<1>8. \A k \in 1..Len(psent) : psent[k].gen # gen' BY <1>1, <1>2 DEF PastInv
<1>9. ASSUME NEW p \in PosixReaders, OneWriter(p)' PROVE pr[p].pc = "idle" /\ pr[p].shm.state = "nil"
  <2>1. pr[p].met \subseteq {gen'} /\ pr[p].met \subseteq 1..gen BY <1>1, <1>3, <1>9 DEF OneWriter, PastInv
  <2>2. gen' \notin 1..gen BY <1>2
  <2>3. pr[p].o = 0 BY <1>1, <2>1, <2>2 DEF PastInv
  <2>4. QED BY <1>1, <2>3 DEF PastInv
<1>10. OptionsInv(Len(obj))' /\ ReaderInv(Len(obj))' BY <1>3, <1>8, <1>9 DEF OptionsInv, ReaderInv
<1>11. \E b \in 0..Len(obj') : (WriterInv(b) /\ OptionsInv(b) /\ ReaderInv(b))'
  <2>1. PICK b : b = Len(obj) OBVIOUS
  <2>2. WriterInv(b)' /\ OptionsInv(b)' /\ ReaderInv(b)' BY <1>3, <1>7, <1>10, <2>1 DEF WriterInv, OptionsInv, ReaderInv
  <2>3. b \in 0..Len(obj') BY <1>3, <1>6, <2>1
  <2>4. QED BY <2>2, <2>3
<1>12. QED BY <1>4, <1>5, <1>11 DEF PosixIInv

\* The steps of a reader change its own record: what the invariants say of it.
ReaderRecords == [pc : {"idle", "shm", "open", "copy"}, shm : Handles, o : Nat, met : SUBSET Nat,
     shut : BOOLEAN, back : BOOLEAN]
PastOf(x) == /\ x.o \in 0..Len(psent) /\ x.met \subseteq 1..gen
             /\ x.o # 0 => psent[x.o].gen \in x.met
             /\ x.o = 0 => x.pc = "idle" /\ x.shm.state = "nil"
             /\ x.shm.state = "open" => x.shm.id \in 1..Len(obj)
ReaderOf(b, x) == x.met \subseteq {gen} =>
  /\ x.shm.state = "open" => /\ x.shm.id \in 1..Len(obj) /\ b < x.shm.id /\ obj[x.shm.id].name = x.shm.name
  /\ x.shm.state = "closed" /\ ~x.shut /\ ~x.back => x.shm.name # psent[x.o].name
  /\ x.pc = "copy" => x.shm.state # "nil" /\ x.shm.name = psent[x.o].name

LEMMA ReaderFacts ==
  ASSUME PosixIInv, NEW p \in PosixReaders
  PROVE  /\ pr[p] \in ReaderRecords /\ PastOf(pr[p])
         /\ gen \in Nat \ {0} /\ PosixTypes
         /\ \E b \in 0..Len(obj) : WriterInv(b) /\ OptionsInv(b) /\ ReaderInv(b) /\ ReaderOf(b, pr[p])
<1>1. PosixTypes /\ PastInv BY DEF PosixIInv
<1>2. pr[p] \in ReaderRecords /\ PastOf(pr[p]) BY <1>1 DEF PosixTypes, ReaderRecords, PastInv, PastOf
<1>3. gen \in Nat \ {0} BY <1>1, PosixAssumption DEF PosixTypes
<1>4. PICK b \in 0..Len(obj) : WriterInv(b) /\ OptionsInv(b) /\ ReaderInv(b) BY DEF PosixIInv
<1>5. ReaderOf(b, pr[p]) BY <1>4 DEF ReaderInv, ReaderOf, OneWriter, ReadOptions
<1>6. QED BY <1>1, <1>2, <1>3, <1>4, <1>5

LEMMA ReaderMoves ==
  ASSUME PosixIInv, ~crashed, NEW p \in PosixReaders, NEW x \in ReaderRecords,
         pr' = [pr EXCEPT ![p] = x], UNCHANGED <<obj, pw, psent, pwrites, gen>>,
         PastOf(x),
         \A b \in 0..Len(obj) : WriterInv(b) /\ OptionsInv(b) /\ ReaderInv(b) => ReaderOf(b, x),
         pgot' \in [PosixReaders -> [o : Nat, version : Nat, same : BOOLEAN]],
         \A q \in PosixReaders : pgot'[q].same => /\ pgot'[q].o \in 1..Len(psent)
                                                  /\ pgot'[q].version >= psent[pgot'[q].o].version,
         crashed' \in BOOLEAN,
         crashed' => x.pc = "idle" /\ (x.shut \/ x.back \/ ~(x.met \subseteq {gen}))
  PROVE  PosixIInv'
<1>1. PosixTypes /\ PastInv BY DEF PosixIInv
<1>2. PICK b \in 0..Len(obj) : WriterInv(b) /\ OptionsInv(b) /\ ReaderInv(b) BY DEF PosixIInv
<1>3. pr \in [PosixReaders -> ReaderRecords] BY <1>1 DEF PosixTypes, ReaderRecords
<1>4. pr'[p] = x /\ \A q \in PosixReaders \ {p} : pr'[q] = pr[q] BY <1>3
<1>5. PosixTypes' BY <1>1, <1>3 DEF PosixTypes, ReaderRecords
<1>6. \A q \in PosixReaders : PastOf(pr'[q])
  <2> SUFFICES ASSUME NEW q \in PosixReaders PROVE PastOf(pr'[q]) OBVIOUS
  <2>1. CASE q = p BY <1>4, <2>1
  <2>2. CASE q # p BY <1>1, <1>4, <2>2 DEF PastInv, PastOf
  <2>3. QED BY <2>1, <2>2
<1>7. crashed' => \E q \in PosixReaders : pr'[q].pc = "idle" /\ (pr'[q].shut \/ pr'[q].back \/ ~OneWriter(q)')
  <2>1. ASSUME crashed' PROVE pr'[p].pc = "idle" /\ (pr'[p].shut \/ pr'[p].back \/ ~OneWriter(p)')
    <3>1. OneWriter(p)' <=> x.met \subseteq {gen} BY <1>4 DEF OneWriter
    <3>2. QED BY <1>4, <2>1, <3>1
  <2>2. QED BY <2>1
<1>8. PastInv' BY <1>1, <1>6, <1>7 DEF PastInv, PastOf
<1>9. WriterInv(b)' /\ OptionsInv(b)' BY <1>2 DEF WriterInv, OptionsInv, PosixFits
<1>10. \A q \in PosixReaders : ReaderOf(b, pr'[q])
  <2> SUFFICES ASSUME NEW q \in PosixReaders PROVE ReaderOf(b, pr'[q]) OBVIOUS
  <2>1. CASE q = p BY <1>2, <1>4, <2>1
  <2>2. CASE q # p BY <1>2, <1>4, <2>2 DEF ReaderInv, ReaderOf, OneWriter, ReadOptions
  <2>3. QED BY <2>1, <2>2
<1>11. ReaderInv(b)' BY <1>10 DEF ReaderInv, ReaderOf, OneWriter, ReadOptions
<1>12. QED BY <1>2, <1>5, <1>8, <1>9, <1>11 DEF PosixIInv

\* In particular those that read nothing.
LEMMA ReaderGoes ==
  ASSUME PosixIInv, ~crashed, NEW p \in PosixReaders, NEW x \in ReaderRecords,
         pr' = [pr EXCEPT ![p] = x], UNCHANGED <<obj, pw, psent, pwrites, gen, pgot, crashed>>,
         PastOf(x),
         \A b \in 0..Len(obj) : WriterInv(b) /\ OptionsInv(b) /\ ReaderInv(b) => ReaderOf(b, x)
  PROVE  PosixIInv'
<1>1. PosixTypes /\ PastInv BY DEF PosixIInv
<1>2. pgot' \in [PosixReaders -> [o : Nat, version : Nat, same : BOOLEAN]] BY <1>1 DEF PosixTypes
<1>3. \A q \in PosixReaders : pgot'[q].same => /\ pgot'[q].o \in 1..Len(psent)
                                               /\ pgot'[q].version >= psent[pgot'[q].o].version
  BY <1>1 DEF PastInv
<1>4. ~crashed' /\ crashed' \in BOOLEAN BY <1>1 DEF PosixTypes
<1>5. UNCHANGED <<obj, pw, psent, pwrites, gen>> OBVIOUS
<1>6. QED BY <1>2, <1>3, <1>4, <1>5, ReaderMoves

LEMMA ReaderCallsInv ==
  ASSUME PosixIInv, ~crashed, NEW p \in PosixReaders, NEW i \in DOMAIN psent, PosixCallRead(p, i)
  PROVE  PosixIInv'
<1> DEFINE y == pr[p]
           c == PosixComesBack(p, i)
           x == [y EXCEPT !.pc = "shm", !.o = i, !.met = y.met \cup {psent[i].gen}, !.back = y.back \/ c]
<1>1. y \in ReaderRecords /\ PastOf(y) /\ gen \in Nat \ {0} /\ PosixTypes /\ PastInv BY ReaderFacts DEF PosixIInv
<1>2. i \in 1..Len(psent) /\ psent[i].gen \in 1..gen /\ i \in Nat /\ psent[i].gen \in Nat
  BY <1>1, PosixFacts DEF PastInv
<1>3. c \in BOOLEAN /\ y.back \in BOOLEAN /\ y.met \in SUBSET Nat BY <1>1 DEF PosixComesBack, ReaderRecords
<1>4. pr' = [pr EXCEPT ![p] = x] /\ UNCHANGED <<obj, pw, psent, pwrites, gen, pgot, crashed>> BY DEF PosixCallRead
<1>5. y.shm.state # "nil" /\ y.shm.name # psent[y.o].name /\ y.shm.name = psent[i].name => c
  BY DEF PosixComesBack, ReadOptions
<1> HIDE DEF c
<1>6. (y.back \/ c) \in BOOLEAN /\ y.met \cup {psent[i].gen} \in SUBSET Nat BY <1>2, <1>3
<1>7. /\ x \in ReaderRecords /\ x.o = i /\ x.shm = y.shm /\ x.pc = "shm" /\ x.shut = y.shut
      /\ x.met = y.met \cup {psent[i].gen} /\ x.back = (y.back \/ c)
  BY <1>1, <1>2, <1>6 DEF ReaderRecords
<1> HIDE DEF x
<1>8. PastOf(x)
  <2>1. i # 0 /\ i \in 0..Len(psent) BY <1>2
  <2>2. QED BY <1>1, <1>2, <1>7, <2>1 DEF PastOf
<1>9. ASSUME NEW b \in 0..Len(obj), ReaderInv(b) PROVE ReaderOf(b, x)
  <2> SUFFICES ASSUME y.met \subseteq {gen}
               PROVE  /\ y.shm.state = "open" => /\ y.shm.id \in 1..Len(obj) /\ b < y.shm.id
                                                 /\ obj[y.shm.id].name = y.shm.name
                      /\ y.shm.state = "closed" /\ ~y.shut /\ ~y.back /\ ~c => y.shm.name # psent[i].name
    BY <1>7 DEF ReaderOf
  <2>1. /\ y.shm.state = "open" => /\ y.shm.id \in 1..Len(obj) /\ b < y.shm.id
                                   /\ obj[y.shm.id].name = y.shm.name
        /\ y.shm.state = "closed" /\ ~y.shut /\ ~y.back => y.shm.name # psent[y.o].name
    BY <1>9 DEF ReaderInv, OneWriter, ReadOptions
  <2>2. QED BY <1>5, <2>1
<1>10. QED BY <1>4, <1>7, <1>8, <1>9, ReaderGoes

\* The other steps leave what was asked for as it is.
LEMMA SameOptions ==
  ASSUME PosixIInv, NEW p \in PosixReaders, pr[p].pc # "idle" \/ pr[p].shm.state # "nil", NEW x \in ReaderRecords,
         x.o = pr[p].o, x.met = pr[p].met, x.shm.state = "open" => x.shm = pr[p].shm \/ x.shm.id \in 1..Len(obj)
  PROVE  PastOf(x) /\ x.o \in 1..Len(psent)
<1>1. PastOf(pr[p]) /\ pr[p].o # 0 BY ReaderFacts DEF PastOf
<1>2. QED BY <1>1 DEF PastOf

LEMMA ReaderReopensInv ==
  ASSUME PosixIInv, ~crashed, NEW p \in PosixReaders, PosixReopen(p)
  PROVE  PosixIInv'
<1> DEFINE y == pr[p]
           x == [y EXCEPT !.pc = "open", !.shm = Closed(y.shm)]
<1>1. y \in ReaderRecords /\ PosixTypes BY ReaderFacts
<1>2. /\ Closed(y.shm) \in Handles /\ Closed(y.shm).name = y.shm.name
      /\ Closed(y.shm).state = IF y.shm.state = "nil" THEN "nil" ELSE "closed"
  BY <1>1 DEF Closed, Handles, ReaderRecords
<1>3. x \in ReaderRecords BY <1>1, <1>2 DEF ReaderRecords
<1>4. pr' = [pr EXCEPT ![p] = x] /\ y.pc = "shm" /\ (y.shm.state = "nil" \/ y.shm.name # psent[y.o].name)
  BY DEF PosixReopen, Mapped, ReadOptions
<1>5. UNCHANGED <<obj, pw, psent, pwrites, gen, pgot, crashed>> BY DEF PosixReopen
<1>6. x.o = y.o /\ x.met = y.met /\ x.pc = "open" /\ x.shm = Closed(y.shm) /\ x.shut = y.shut /\ x.back = y.back
  BY <1>1 DEF ReaderRecords
<1> HIDE DEF x
<1>7. PastOf(x) /\ y.o \in 1..Len(psent) BY <1>2, <1>3, <1>4, <1>6, SameOptions
<1>8. ASSUME NEW b \in 0..Len(obj), ReaderInv(b) PROVE ReaderOf(b, x)
  <2>1. ReaderOf(b, y) BY <1>8 DEF ReaderInv, ReaderOf, OneWriter, ReadOptions
  <2>2. y.shm.name \in Nat /\ psent[y.o].name \in Nat
    BY <1>1, <1>7, PosixFacts DEF ReaderRecords, Handles, Option
  <2>3. QED BY <1>2, <1>4, <1>6, <2>1, <2>2 DEF ReaderOf
<1>9. QED BY <1>3, <1>4, <1>5, <1>7, <1>8, ReaderGoes

LEMMA ReaderKeepsInv ==
  ASSUME PosixIInv, ~crashed, NEW p \in PosixReaders, PosixKeepOpen(p)
  PROVE  PosixIInv'
<1> DEFINE y == pr[p]
           x == [y EXCEPT !.pc = "copy"]
<1>1. y \in ReaderRecords BY ReaderFacts
<1>2. x \in ReaderRecords BY <1>1 DEF ReaderRecords
<1>3. pr' = [pr EXCEPT ![p] = x] /\ y.pc = "shm" /\ y.shm.state # "nil" /\ y.shm.name = psent[y.o].name
  BY DEF PosixKeepOpen, PRGoto, Mapped, ReadOptions
<1>4. UNCHANGED <<obj, pw, psent, pwrites, gen, pgot, crashed>> BY DEF PosixKeepOpen
<1>5. x.o = y.o /\ x.met = y.met /\ x.pc = "copy" /\ x.shm = y.shm /\ x.shut = y.shut /\ x.back = y.back
  BY <1>1 DEF ReaderRecords
<1> HIDE DEF x
<1>6. PastOf(x) BY <1>2, <1>3, <1>5, SameOptions
<1>7. ASSUME NEW b \in 0..Len(obj), ReaderInv(b) PROVE ReaderOf(b, x)
  <2>1. ReaderOf(b, y) BY <1>7 DEF ReaderInv, ReaderOf, OneWriter, ReadOptions
  <2>2. QED BY <1>3, <1>5, <2>1 DEF ReaderOf
<1>8. QED BY <1>2, <1>3, <1>4, <1>6, <1>7, ReaderGoes

\* What is linked under the name of an option of this writer is its object.
LEMMA ReaderOpensInv ==
  ASSUME PosixIInv, ~crashed, NEW p \in PosixReaders, PosixOpen(p)
  PROVE  PosixIInv'
<1> DEFINE y == pr[p]
<1>1. y \in ReaderRecords /\ PosixTypes /\ gen \in Nat \ {0} /\ PastInv BY ReaderFacts DEF PosixIInv
<1>2. UNCHANGED <<obj, pw, psent, pwrites, gen, pgot, crashed>> /\ y.pc = "open" BY DEF PosixOpen
<1>3. ASSUME NEW i \in Linked(ReadOptions(p).name),
             pr' = [pr EXCEPT ![p].pc = "copy", ![p].shm = [id |-> i, name |-> obj[i].name, state |-> "open"]]
      PROVE  PosixIInv'
  <2> DEFINE h == [id |-> i, name |-> obj[i].name, state |-> "open"]
             x == [y EXCEPT !.pc = "copy", !.shm = h]
  <2>1. i \in 1..Len(obj) /\ obj[i].linked /\ obj[i].name = psent[y.o].name /\ obj[i].name \in Nat /\ i \in Nat
    BY <1>1, PosixFacts DEF Linked, ReadOptions, Objects
  <2>2. h \in Handles BY <2>1 DEF Handles
  <2>3. x \in ReaderRecords BY <1>1, <2>2 DEF ReaderRecords
  <2>4. pr' = [pr EXCEPT ![p] = x] BY <1>3
  <2>5. x.o = y.o /\ x.met = y.met /\ x.pc = "copy" /\ x.shm = h BY <1>1 DEF ReaderRecords
  <2> HIDE DEF x
  <2>6. PastOf(x) /\ x.o \in 1..Len(psent) BY <1>2, <2>1, <2>3, <2>5, SameOptions
  <2>7. ASSUME NEW b \in 0..Len(obj), WriterInv(b), OptionsInv(b) PROVE ReaderOf(b, x)
    <3> SUFFICES ASSUME x.met \subseteq {gen} PROVE b < i BY <2>1, <2>5 DEF ReaderOf
    <3>1. psent[x.o].gen = gen BY <2>6 DEF PastOf
    <3>2. PICK j \in 1..Len(obj) : b < j /\ obj[j].name = psent[x.o].name BY <2>6, <2>7, <3>1 DEF OptionsInv
    <3>3. i <= b => ~obj[i].linked BY <2>1, <2>5, <2>7, <3>2 DEF WriterInv
    <3>4. b \in Nat OBVIOUS
    <3>5. QED BY <2>1, <3>3, <3>4
  <2>8. QED BY <1>2, <2>3, <2>4, <2>6, <2>7, ReaderGoes
<1>4. ASSUME pr' = [pr EXCEPT ![p].pc = "idle"] PROVE PosixIInv'
  <2> DEFINE x == [y EXCEPT !.pc = "idle"]
  <2>1. x \in ReaderRecords /\ pr' = [pr EXCEPT ![p] = x] BY <1>1, <1>4 DEF ReaderRecords
  <2>2. x.o = y.o /\ x.met = y.met /\ x.pc = "idle" /\ x.shm = y.shm /\ x.shut = y.shut /\ x.back = y.back
    BY <1>1 DEF ReaderRecords
  <2> HIDE DEF x
  <2>3. PastOf(x) BY <1>2, <2>1, <2>2, SameOptions
  <2>4. ASSUME NEW b \in 0..Len(obj), ReaderInv(b) PROVE ReaderOf(b, x)
    <3>1. ReaderOf(b, y) BY <2>4 DEF ReaderInv, ReaderOf, OneWriter, ReadOptions
    <3>2. QED BY <2>2, <3>1 DEF ReaderOf
  <2>5. QED BY <1>2, <2>1, <2>3, <2>4, ReaderGoes
<1>5. QED BY <1>3, <1>4 DEF PosixOpen

\* What is copied is what the options describe or newer: of this writer one object has the
\* name, and what it holds only gets newer.
LEMMA ReaderCopiesInv ==
  ASSUME PosixIInv, ~crashed, NEW p \in PosixReaders, PosixCopy(p)
  PROVE  PosixIInv'
<1> DEFINE y == pr[p]
           x == [y EXCEPT !.pc = "idle"]
<1>1. y \in ReaderRecords /\ PosixTypes /\ gen \in Nat \ {0} /\ PastInv /\ PastOf(y) BY ReaderFacts DEF PosixIInv
<1>2. y.pc = "copy" /\ pr' = [pr EXCEPT ![p] = x] /\ UNCHANGED <<obj, pw, psent, pwrites, gen>>
  BY DEF PosixCopy, PRGoto
<1>3. x \in ReaderRecords /\ x.o = y.o /\ x.met = y.met /\ x.pc = "idle" /\ x.shm = y.shm /\ x.shut = y.shut /\ x.back = y.back
  BY <1>1 DEF ReaderRecords
<1> HIDE DEF x
<1>4. PastOf(x) /\ y.o \in 1..Len(psent) BY <1>2, <1>3, SameOptions
<1>5. ASSUME NEW b \in 0..Len(obj), ReaderInv(b) PROVE ReaderOf(b, x)
  <2>1. ReaderOf(b, y) BY <1>5 DEF ReaderInv, ReaderOf, OneWriter, ReadOptions
  <2>2. QED BY <1>3, <2>1 DEF ReaderOf
<1>6. pgot \in [PosixReaders -> [o : Nat, version : Nat, same : BOOLEAN]] BY <1>1 DEF PosixTypes
<1>7. PICK b \in 0..Len(obj) : WriterInv(b) /\ OptionsInv(b) /\ ReaderOf(b, y) BY ReaderFacts
<1>8. \A q \in PosixReaders : pgot[q].same => /\ pgot[q].o \in 1..Len(psent)
                                              /\ pgot[q].version >= psent[pgot[q].o].version
  BY <1>1 DEF PastInv
<1>9. CASE y.shm.state = "open"
  <2> DEFINE i == y.shm.id
  <2>1. i \in 1..Len(obj) /\ obj[i] \in Objects BY <1>1, <1>9, PosixFacts DEF PastOf
  <2>2. PICK v \in Nat : v = obj[i].version BY <2>1 DEF Objects
  <2>3. PICK m \in BOOLEAN : m = OneWriter(p) BY DEF OneWriter
  <2>4. PICK g : g = [o |-> y.o, version |-> v, same |-> m] OBVIOUS
  <2>5. crashed' = crashed /\ pgot' = [pgot EXCEPT ![p] = g] BY <1>9, <2>2, <2>3, <2>4 DEF PosixCopy
  <2>6. g \in [o : Nat, version : Nat, same : BOOLEAN] /\ g.o = y.o /\ g.version = v /\ g.same = m
    BY <1>4, <2>4
  <2>7. m => v >= psent[y.o].version
    <3> SUFFICES ASSUME m PROVE v >= psent[y.o].version OBVIOUS
    <3>1. y.met \subseteq {gen} /\ psent[y.o].gen = gen
      <4>1. y.met \subseteq {gen} BY <2>3 DEF OneWriter
      <4>2. y.o # 0 BY <1>4
      <4>3. QED BY <1>1, <4>1, <4>2 DEF PastOf
    <3>2. b < i /\ obj[i].name = psent[y.o].name BY <1>2, <1>7, <1>9, <3>1 DEF ReaderOf
    <3>3. PICK j \in 1..Len(obj) : b < j /\ obj[j].name = psent[y.o].name /\ obj[j].version >= psent[y.o].version
      BY <1>4, <1>7, <3>1 DEF OptionsInv
    <3>4. ~(i < j) /\ ~(j < i)
      <4>1. psent[y.o].name \in Nat BY <1>1, <1>4, PosixFacts DEF Option
      <4>2. i < j => obj[i].name < obj[j].name BY <1>7, <2>1, <3>2 DEF WriterInv
      <4>3. j < i => obj[j].name < obj[i].name BY <1>7, <2>1, <3>3 DEF WriterInv
      <4>4. QED BY <3>2, <3>3, <4>1, <4>2, <4>3
    <3>5. i = j BY <2>1, <3>3, <3>4
    <3>6. QED BY <2>2, <3>3, <3>5
  <2>8. pgot' \in [PosixReaders -> [o : Nat, version : Nat, same : BOOLEAN]] BY <1>6, <2>5, <2>6
  <2>9. pgot'[p] = g /\ \A q \in PosixReaders \ {p} : pgot'[q] = pgot[q] BY <1>6, <2>5
  <2>10. \A q \in PosixReaders : pgot'[q].same => /\ pgot'[q].o \in 1..Len(psent)
                                                  /\ pgot'[q].version >= psent[pgot'[q].o].version
    BY <1>4, <1>8, <2>6, <2>7, <2>9
  <2>11. ~crashed' /\ crashed' \in BOOLEAN BY <1>1, <2>5 DEF PosixTypes
  <2>12. QED BY <1>2, <1>3, <1>4, <1>5, <2>8, <2>10, <2>11, ReaderMoves
<1>10. CASE y.shm.state # "open"
  <2>1. crashed' /\ crashed' \in BOOLEAN /\ pgot' = pgot BY <1>10 DEF PosixCopy
  <2>2. x.met \subseteq {gen} => x.shut \/ x.back BY <1>1, <1>2, <1>3, <1>7, <1>10 DEF ReaderOf, ReaderRecords, Handles
  <2>3. pgot' \in [PosixReaders -> [o : Nat, version : Nat, same : BOOLEAN]] BY <1>6, <2>1
  <2>4. \A q \in PosixReaders : pgot'[q].same => /\ pgot'[q].o \in 1..Len(psent)
                                                 /\ pgot'[q].version >= psent[pgot'[q].o].version
    BY <1>8, <2>1
  <2>5. QED BY <1>2, <1>3, <1>4, <1>5, <2>1, <2>2, <2>3, <2>4, ReaderMoves
<1>11. QED BY <1>9, <1>10

LEMMA ReaderEndsInv ==
  ASSUME PosixIInv, ~crashed, NEW p \in PosixReaders, PosixReaderClose(p) \/ PosixNewReader(p)
  PROVE  PosixIInv'
<1> DEFINE y == pr[p]
<1>1. y \in ReaderRecords /\ gen \in Nat \ {0} /\ PosixTypes BY ReaderFacts
<1>2. CASE PosixReaderClose(p)
  <2> DEFINE x == [y EXCEPT !.shm = Closed(y.shm), !.shut = TRUE]
  <2>1. y.shm.state = "open" /\ pr' = [pr EXCEPT ![p] = x] /\ UNCHANGED <<obj, pw, psent, pwrites, gen, pgot, crashed>>
    BY <1>2 DEF PosixReaderClose
  <2>2. Closed(y.shm) \in Handles /\ Closed(y.shm).name = y.shm.name /\ Closed(y.shm).state = "closed"
    BY <1>1, <2>1 DEF Closed, Handles, ReaderRecords
  <2>3. /\ x \in ReaderRecords /\ x.o = y.o /\ x.met = y.met /\ x.pc = y.pc /\ x.shm = Closed(y.shm)
        /\ x.shut = TRUE
    BY <1>1, <2>2 DEF ReaderRecords
  <2>4. y.pc = "idle" BY <1>2 DEF PosixReaderClose
  <2> HIDE DEF x
  <2>5. PastOf(x) BY <2>1, <2>2, <2>3, SameOptions
  <2>6. ASSUME NEW b \in 0..Len(obj), ReaderInv(b) PROVE ReaderOf(b, x)
    <3>1. ReaderOf(b, y) BY <2>6 DEF ReaderInv, ReaderOf, OneWriter, ReadOptions
    <3>2. QED BY <2>1, <2>2, <2>3, <2>4, <3>1 DEF ReaderOf
  <2>7. QED BY <2>1, <2>3, <2>5, <2>6, ReaderGoes
<1>3. CASE PosixNewReader(p)
  <2>1. PICK x : x = NewPosixReader OBVIOUS
  <2>2. pr' = [pr EXCEPT ![p] = x] /\ UNCHANGED <<obj, pw, psent, pwrites, gen, pgot, crashed>>
    BY <1>3, <2>1 DEF PosixNewReader
  <2>3. x \in ReaderRecords /\ x.o = 0 /\ x.met = {} /\ x.pc = "idle" /\ x.shm.state = "nil"
    BY <2>1 DEF NewPosixReader, NoShm, ReaderRecords, Handles
  <2>4. PastOf(x) BY <1>1, <2>3, PosixFacts DEF PastOf
  <2>5. \A b \in 0..Len(obj) : ReaderOf(b, x) BY <1>1, <2>3 DEF ReaderOf
  <2>6. QED BY <2>2, <2>3, <2>4, <2>5, ReaderGoes
<1>4. QED BY <1>2, <1>3

LEMMA PosixInductive == PosixIInv /\ [PosixNext]_posixVars => PosixIInv'
<1> SUFFICES ASSUME PosixIInv, [PosixNext]_posixVars PROVE PosixIInv' OBVIOUS
<1>1. CASE UNCHANGED posixVars
  <2>1. PosixTypes' BY <1>1 DEF PosixIInv, PosixTypes, posixVars
  <2>2. PastInv' BY <1>1 DEF PosixIInv, PastInv, OneWriter, ReadOptions, posixVars
  <2>3. PICK b \in 0..Len(obj) : WriterInv(b) /\ OptionsInv(b) /\ ReaderInv(b) BY DEF PosixIInv
  <2>4. WriterInv(b)' /\ OptionsInv(b)' /\ ReaderInv(b)'
    BY <1>1, <2>3 DEF WriterInv, OptionsInv, ReaderInv, OneWriter, PosixFits, ReadOptions, posixVars
  <2>5. b \in 0..Len(obj') BY <1>1 DEF posixVars
  <2>6. QED BY <2>1, <2>2, <2>4, <2>5 DEF PosixIInv
<1>2. CASE PosixNext
  <2>1. ~crashed BY <1>2 DEF PosixNext
  <2>2. ASSUME NEW p \in PosixReaders, NEW i \in DOMAIN psent, PosixCallRead(p, i) PROVE PosixIInv'
    BY <2>1, <2>2, ReaderCallsInv
  <2>3. ASSUME NEW p \in PosixReaders,
               \/ PosixReopen(p) \/ PosixKeepOpen(p) \/ PosixOpen(p) \/ PosixCopy(p)
               \/ PosixReaderClose(p) \/ PosixNewReader(p)
        PROVE  PosixIInv'
    BY <2>1, <2>3, ReaderReopensInv, ReaderKeepsInv, ReaderOpensInv, ReaderCopiesInv, ReaderEndsInv
  <2>4. CASE WriterOnly \/ WriterCloses \/ PosixCreate \/ PosixWrite \/ PosixRestart
    BY <2>1, <2>4, WriterOnlyInv, WriterClosesInv, WriterCreatesInv, WriterWritesInv, WriterRestartsInv
  <2>5. QED BY <1>2, <2>2, <2>3, <2>4 DEF PosixNext, WriterOnly, WriterCloses
<1>3. QED BY <1>1, <1>2

\* A reader that only met the writer it reads from gets what its options describe or
\* something newer, in whatever order it uses options, and from mapped memory unless it
\* was closed or came back to an object it had closed for one it could not open, whatever
\* the writer replaced or failed to create in between (src/ipc/posix/posix.go:203-236,
\* 271-296).
THEOREM ReadsAreFresh == PosixSpec => []PosixFresh
<1>1. PosixIInv => PosixFresh
  <2> SUFFICES ASSUME PosixIInv PROVE PosixFresh OBVIOUS
  <2>1. PosixTypes /\ PastInv BY DEF PosixIInv
  <2>2. PosixTypeOK BY <2>1, PosixFacts DEF PosixTypeOK, PastInv, PosixTypes, Objects
  <2>3. QED BY <2>1, <2>2 DEF PosixFresh, PastInv
<1>2. QED BY <1>1, PosixInitInv, PosixInductive, PTL DEF PosixSpec
-----------------------------------------------------------------------------
\* Closers. A call in progress is a frame, at position n of the stack of its goroutine.
Calling == [op : {"close", "add", "append", "do", "onclosed"}, on : Closers, arg : Things, err : BOOLEAN,
            at : {"start", "funcs", "call", "second", "write", "fn"}, left : Seq(Things)]

\* A frame that holds the mutex mc of its closer, or one of the mutexes mf.
InDo(f) == f.op = "do" /\ f.at = "fn"
InClose(f) == f.op = "close" /\ f.at = "call"
Holds(f) == InDo(f) \/ InClose(f) \/ (f.op = "close" /\ f.at = "funcs")
InAppend(f) == f.op = "append" /\ f.at = "write"
InAdd(f) == f.op = "add" /\ f.at = "write"
Keeps(f, c) == \/ (InAppend(f) \/ InAdd(f)) /\ f.on = c
               \/ f.op = "append" /\ f.at = "second" /\ f.on = c
               \/ InAppend(f) /\ f.arg = c

CloserTypes ==
  /\ fs \in [Closers -> Seq(Things)] /\ closed \in [Closers -> BOOLEAN]
  /\ mc \in [Closers -> Procs \cup {NoOne}] /\ mf \in [Closers -> Procs \cup {NoOne}]
  /\ stack \in [Procs -> Seq(Calling)]
  /\ calls \in [Procs -> Nat] /\ made \subseteq Things
  /\ result \in [Procs -> BOOLEAN] /\ failed \in [Procs -> BOOLEAN]
  /\ raced \subseteq Closers /\ callback \subseteq Closers /\ told \in [Closers -> BOOLEAN]
  /\ added \in [Closers -> [Things -> Nat]] /\ called \in [Closers -> [Things -> Nat]]

\* What a stack s of p is: each frame that holds mc of its closer is known to mc, and no
\* other frame holds it; a frame below another one waits in a Do or in a Close; and
\* the innermost one has the mutexes mf.
StackOf(p, s) ==
  /\ \A n \in 1..Len(s) : Holds(s[n]) => mc[s[n].on] = p
  /\ \A n \in 1..Len(s) : InDo(s[n]) => ~closed[s[n].on]
  /\ \A m, n \in 1..Len(s) : Holds(s[m]) /\ Holds(s[n]) /\ s[m].on = s[n].on => m = n
  /\ \A n \in 2..Len(s) : InDo(s[n]) \/ InClose(s[n])
  /\ \A n \in 1..Len(s) : s[n].op = "append" => s[n].arg \in Closers
  /\ s # <<>> => \A c \in Closers : Keeps(s[1], c) => mf[c] = p

\* Its calls are all Close or none is, and the error of a func is in one of them until
\* Close has returned.
ErrorsOf(p, s) ==
  /\ \A m, n \in 1..Len(s) : s[m].op = "close" => s[n].op = "close"
  /\ (s # <<>> /\ s[1].op = "close") => (failed[p] <=> \E n \in 1..Len(s) : s[n].err)
  /\ (s = <<>> \/ s[1].op # "close") => result[p] = failed[p] /\ \A n \in 1..Len(s) : ~s[n].err

\* The Close, Append or Add of c that p is in, and the funcs it has copied.
InCall(p, c, l) == \E n \in 1..Len(stack[p]) : InClose(stack[p][n]) /\ stack[p][n].on = c /\ stack[p][n].left = l
Appending(p, c, l) == stack[p] # <<>> /\ InAppend(stack[p][1]) /\ stack[p][1].on = c /\ stack[p][1].left = l
Adding(p, c, l) == stack[p] # <<>> /\ InAdd(stack[p][1]) /\ stack[p][1].on = c /\ stack[p][1].left = l

\* What was added and not yet called is in l.
Owed(c, l) == \A x \in Things : added[c][x] = called[c][x] + Copies(l, x)
NoCall(c) == \A p \in Procs, l \in Seq(Things) : ~InCall(p, c, l)
NoAppend(c) == \A p \in Procs, l \in Seq(Things) : ~Appending(p, c, l)

\* It is what Close has copied, what Append has copied, or else the funcs.
CountOf(c) ==
  /\ \A p \in Procs, l \in Seq(Things) : InCall(p, c, l) => Owed(c, l)
  /\ \A p \in Procs, l \in Seq(Things) : Appending(p, c, l) => Owed(c, l) /\ NoCall(c)
  /\ \A p \in Procs, l \in Seq(Things) : Adding(p, c, l) => l = fs[c] /\ NoCall(c)
  /\ NoCall(c) /\ NoAppend(c) => Owed(c, fs[c])

LockInv == \A p \in Procs : StackOf(p, stack[p])
ErrorInv == \A p \in Procs : ErrorsOf(p, stack[p])
CountInv == \A c \in Closers \ raced : CountOf(c)
CloserIInv == CloserTypes /\ LockInv /\ ErrorInv /\ CountInv

-----------------------------------------------------------------------------
\* How often something is in a sequence.
LEMMA CopiesNat ==
  ASSUME NEW S, NEW s \in Seq(S), NEW x
  PROVE  Copies(s, x) \in Nat
<1>1. IsFiniteSet(1..Len(s)) BY FS_Interval, LenProperties
<1>2. {i \in DOMAIN s : s[i] = x} \in SUBSET (1..Len(s)) BY LenProperties
<1>3. IsFiniteSet({i \in DOMAIN s : s[i] = x}) BY ONLY <1>1, <1>2, FS_Subset
<1>4. QED BY <1>3, FS_CardinalityType DEF Copies

LEMMA CopiesEmpty == \A x : Copies(<<>>, x) = 0
<1> TAKE x
<1>1. DOMAIN <<>> = {} OBVIOUS
<1>2. {i \in DOMAIN <<>> : <<>>[i] = x} = {} BY <1>1
<1>3. QED BY ONLY <1>2, FS_EmptySet DEF Copies

LEMMA CopiesConcat ==
  ASSUME NEW S, NEW s \in Seq(S), NEW t \in Seq(S), NEW x
  PROVE  Copies(s \o t, x) = Copies(s, x) + Copies(t, x)
<1> DEFINE A == {i \in DOMAIN s : s[i] = x}
           B == {i \in DOMAIN t : t[i] = x}
           C == {i \in DOMAIN (s \o t) : (s \o t)[i] = x}
           D == C \ A
           f == [i \in B |-> i + Len(s)]
<1>1. Len(s) \in Nat /\ Len(t) \in Nat /\ DOMAIN s = 1..Len(s) /\ DOMAIN t = 1..Len(t)
  BY LenProperties
<1>2. /\ DOMAIN (s \o t) = 1..(Len(s) + Len(t))
      /\ \A i \in 1..(Len(s) + Len(t)) : (s \o t)[i] = IF i <= Len(s) THEN s[i] ELSE t[i - Len(s)]
  BY ConcatProperties, LenProperties
<1>3. A \subseteq C
  <2> SUFFICES ASSUME NEW i \in A PROVE i \in C OBVIOUS
  <2>1. i \in 1..Len(s) /\ s[i] = x BY <1>1
  <2>2. QED BY <1>1, <1>2, <2>1
<1>4. \A i \in D : i \in Len(s) + 1..Len(s) + Len(t) /\ t[i - Len(s)] = x
  <2> SUFFICES ASSUME NEW i \in D PROVE i \in Len(s) + 1..Len(s) + Len(t) /\ t[i - Len(s)] = x OBVIOUS
  <2>1. i \in 1..(Len(s) + Len(t)) /\ (s \o t)[i] = x /\ (i \in 1..Len(s) => s[i] # x) BY <1>1, <1>2
  <2>2. QED BY <1>1, <1>2, <2>1
<1>5. f \in Bijection(B, D)
  <2>1. \A i \in B : i \in 1..Len(t) /\ t[i] = x BY <1>1
  <2>2. \A i \in B : i + Len(s) \in D
    <3> SUFFICES ASSUME NEW i \in B PROVE i + Len(s) \in D OBVIOUS
    <3>1. i \in 1..Len(t) /\ t[i] = x BY <2>1
    <3>2. i + Len(s) \in 1..(Len(s) + Len(t)) /\ (s \o t)[i + Len(s)] = t[i] BY <1>1, <1>2, <3>1
    <3>3. i + Len(s) \notin 1..Len(s) BY <1>1, <3>1
    <3>4. QED BY <1>1, <1>2, <3>1, <3>2, <3>3
  <2>3. f \in [B -> D] BY <2>2
  <2>4. \A i, j \in B : f[i] = f[j] => i = j BY <1>1, <2>1
  <2>5. \A j \in D : \E i \in B : f[i] = j
    <3> SUFFICES ASSUME NEW j \in D PROVE \E i \in B : f[i] = j OBVIOUS
    <3>1. j - Len(s) \in B BY <1>1, <1>4
    <3>2. f[j - Len(s)] = j BY <1>1, <1>4, <3>1
    <3>3. QED BY <3>1, <3>2
  <2>6. DOMAIN f = B OBVIOUS
  <2>7. IsInjective(f) BY ONLY <2>4, <2>6 DEF IsInjective
  <2>8. QED BY ONLY <2>3, <2>5, <2>7 DEF Bijection, Injection, Surjection
<1>6. IsFiniteSet(A) /\ IsFiniteSet(B) /\ IsFiniteSet(C)
  <2>1. IsFiniteSet(1..Len(s)) /\ IsFiniteSet(1..Len(t)) /\ IsFiniteSet(1..(Len(s) + Len(t)))
    BY <1>1, FS_Interval
  <2>2. A \in SUBSET (1..Len(s)) /\ B \in SUBSET (1..Len(t)) /\ C \in SUBSET (1..(Len(s) + Len(t)))
    BY <1>1, <1>2
  <2>3. QED BY ONLY <2>1, <2>2, FS_Subset
<1>7. IsFiniteSet(D) /\ Cardinality(D) = Cardinality(B)
  BY <1>5, <1>6, FS_Bijection DEF ExistsBijection
<1>8. Cardinality(A \cup D) = Cardinality(A) + Cardinality(D) - Cardinality(A \cap D)
  BY <1>6, <1>7, FS_Union
<1>9. A \cup D = C /\ A \cap D = {} BY <1>3
<1>10. Cardinality(A \cap D) = 0 BY <1>9, FS_EmptySet
<1>11. Cardinality(A) \in Nat /\ Cardinality(D) \in Nat BY <1>6, <1>7, FS_CardinalityType
<1>12. Copies(s \o t, x) = Cardinality(C) /\ Copies(s, x) = Cardinality(A) /\ Copies(t, x) = Cardinality(B)
  BY ONLY DEF Copies
<1> HIDE DEF A, B, C, D
<1>13. Cardinality(C) = Cardinality(A) + Cardinality(D)
  <2>1. Cardinality(A \cup D) = Cardinality(C) BY ONLY <1>9
  <2>2. \A k, l, m, n \in Int : k = l + m - n /\ n = 0 => k = l + m OBVIOUS
  <2>3. Cardinality(A \cup D) \in Int BY ONLY <1>8, <1>10, <1>11
  <2>4. QED BY ONLY <1>8, <1>10, <1>11, <2>1, <2>2, <2>3
<1>14. QED BY ONLY <1>7, <1>12, <1>13

\* A frame, or a func, put in front of a sequence.
LEMMA Put ==
  ASSUME NEW S, NEW f \in S, NEW s \in Seq(S)
  PROVE  /\ <<f>> \in Seq(S) /\ <<f>> \o s \in Seq(S) /\ Len(<<f>> \o s) = Len(s) + 1 /\ Len(s) \in Nat
         /\ (<<f>> \o s)[1] = f /\ \A n \in 1..Len(s) : (<<f>> \o s)[n + 1] = s[n]
<1>1. <<f>> \in Seq(S) /\ Len(<<f>>) = 1 /\ <<f>>[1] = f OBVIOUS
<1>2. Len(s) \in Nat BY LenProperties
<1>3. QED BY <1>1, <1>2, ConcatProperties

\* The first of a sequence, and the others.
LEMMA First ==
  ASSUME NEW S, NEW s \in Seq(S), s # <<>>
  PROVE  /\ Head(s) = s[1] /\ s[1] \in S /\ Tail(s) \in Seq(S) /\ Len(s) \in Nat \ {0}
         /\ Len(Tail(s)) = Len(s) - 1 /\ \A n \in 1..Len(Tail(s)) : Tail(s)[n] = s[n + 1]
         /\ s = <<s[1]>> \o Tail(s)
<1>1. Len(s) \in Nat \ {0} BY EmptySeq
<1>2. Head(s) = s[1] OBVIOUS
<1>3. /\ Head(s) \in S /\ Tail(s) \in Seq(S) /\ Len(Tail(s)) = Len(s) - 1
      /\ \A n \in 1..Len(Tail(s)) : Tail(s)[n] = s[n + 1]
  BY HeadTailProperties
<1>4. s = <<s[1]>> \o Tail(s)
  <2>1. Len(<<s[1]>> \o Tail(s)) = Len(s) /\ <<s[1]>> \o Tail(s) \in Seq(S) BY <1>1, <1>2, <1>3, Put
  <2>2. \A n \in 1..Len(s) : s[n] = (<<s[1]>> \o Tail(s))[n]
    <3> SUFFICES ASSUME NEW n \in 1..Len(s) PROVE s[n] = (<<s[1]>> \o Tail(s))[n] OBVIOUS
    <3>1. CASE n = 1 BY <1>2, <1>3, <3>1, Put
    <3>2. CASE n # 1
      <4>1. n - 1 \in 1..Len(Tail(s)) BY <1>1, <1>3, <3>2
      <4>2. (<<s[1]>> \o Tail(s))[n - 1 + 1] = Tail(s)[n - 1] BY <1>2, <1>3, <4>1, Put
      <4>3. QED BY <1>1, <1>3, <4>1, <4>2
    <3>3. QED BY <3>1, <3>2
  <2>3. QED BY <2>1, <2>2, SeqEqual
<1>5. QED BY <1>1, <1>2, <1>3, <1>4

\* The funcs after the one that is called.
LEMMA CopiesTail ==
  ASSUME NEW S, NEW s \in Seq(S), s # <<>>, NEW x
  PROVE  Copies(s, x) = Copies(<<Head(s)>>, x) + Copies(Tail(s), x)
<1>1. <<s[1]>> \in Seq(S) /\ Tail(s) \in Seq(S) /\ Head(s) = s[1] /\ s = <<s[1]>> \o Tail(s) BY First, Put
<1>2. Copies(<<s[1]>> \o Tail(s), x) = Copies(<<s[1]>>, x) + Copies(Tail(s), x) BY <1>1, CopiesConcat
<1>3. QED BY ONLY <1>1, <1>2

-----------------------------------------------------------------------------
\* What a step makes of the stack of p: from position j on, the frames of before moved by k.
Moved(p, j, k) ==
  /\ stack' \in [Procs -> Seq(Calling)] /\ \A q \in Procs \ {p} : stack'[q] = stack[q]
  /\ Len(stack'[p]) = Len(stack[p]) - k
  /\ \A n \in j..Len(stack'[p]) : stack'[p][n] = stack[p][n + k]

LEMMA TopFacts ==
  ASSUME CloserTypes, NEW p \in Procs, stack[p] # <<>>
  PROVE  /\ Top(p) = stack[p][1] /\ Top(p) \in Calling /\ stack[p] \in Seq(Calling)
         /\ Len(stack[p]) \in Nat \ {0} /\ Tail(stack[p]) \in Seq(Calling)
         /\ Len(Tail(stack[p])) = Len(stack[p]) - 1
         /\ \A n \in 1..Len(stack[p]) - 1 : Tail(stack[p])[n] = stack[p][n + 1]
         /\ \A n \in 1..Len(stack[p]) : stack[p][n] \in Calling
<1>1. stack[p] \in Seq(Calling) BY DEF CloserTypes
<1>2. QED BY <1>1, First, ElementOfSeq DEF Top

LEMMA StackFacts ==
  ASSUME CloserTypes, NEW p \in Procs
  PROVE  /\ stack[p] \in Seq(Calling) /\ Len(stack[p]) \in Nat
         /\ stack[p] # <<>> <=> Len(stack[p]) > 0
         /\ \A n \in 1..Len(stack[p]) : stack[p][n] \in Calling
<1>1. stack[p] \in Seq(Calling) BY DEF CloserTypes
<1>2. QED BY <1>1, EmptySeq, LenProperties, ElementOfSeq

LEMMA BecomesMoves ==
  ASSUME CloserTypes, NEW p \in Procs, stack[p] # <<>>, NEW f \in Calling, Becomes(p, f)
  PROVE  Moved(p, 2, 0) /\ stack'[p][1] = f
<1> DEFINE rest == Tail(stack[p])
<1>1. /\ rest \in Seq(Calling) /\ Len(rest) = Len(stack[p]) - 1 /\ Len(stack[p]) \in Nat \ {0}
      /\ \A n \in 1..Len(stack[p]) - 1 : rest[n] = stack[p][n + 1]
  BY TopFacts
<1>2. stack' = [stack EXCEPT ![p] = <<f>> \o rest] BY DEF Becomes
<1> HIDE DEF rest
<1>3. /\ <<f>> \o rest \in Seq(Calling) /\ Len(<<f>> \o rest) = Len(rest) + 1 /\ (<<f>> \o rest)[1] = f
      /\ \A n \in 1..Len(rest) : (<<f>> \o rest)[n + 1] = rest[n]
  BY <1>1, Put
<1>4. PICK t \in Seq(Calling) : t = <<f>> \o rest BY <1>3
<1>5. stack' \in [Procs -> Seq(Calling)] /\ stack'[p] = t /\ \A q \in Procs \ {p} : stack'[q] = stack[q]
  BY <1>2, <1>4 DEF CloserTypes
<1>6. Len(t) = Len(stack[p]) /\ t[1] = f BY <1>1, <1>3, <1>4
<1>7. ASSUME NEW n \in 2..Len(t) PROVE t[n] = stack[p][n]
  <2>1. n - 1 \in 1..Len(rest) BY <1>1, <1>6
  <2>2. t[n - 1 + 1] = rest[n - 1] BY <1>3, <1>4, <2>1
  <2>3. QED BY <1>1, <2>1, <2>2
<1>8. QED BY <1>1, <1>5, <1>6, <1>7 DEF Moved

LEMMA PopMoves ==
  ASSUME CloserTypes, NEW p \in Procs, stack[p] # <<>>, Pop(p)
  PROVE  Moved(p, 1, 1)
<1>1. PICK t \in Seq(Calling) : t = Tail(stack[p]) BY TopFacts
<1>2. /\ Len(t) = Len(stack[p]) - 1 /\ Len(stack[p]) \in Nat \ {0}
      /\ \A n \in 1..Len(t) : t[n] = stack[p][n + 1]
  BY <1>1, TopFacts
<1>3. stack' \in [Procs -> Seq(Calling)] /\ stack'[p] = t /\ \A q \in Procs \ {p} : stack'[q] = stack[q]
  BY <1>1 DEF Pop, CloserTypes
<1>4. QED BY <1>2, <1>3 DEF Moved

LEMMA PushMoves ==
  ASSUME CloserTypes, NEW p \in Procs, NEW f \in Calling, Push(p, f)
  PROVE  Moved(p, 2, -1) /\ stack'[p][1] = f
<1>1. stack[p] \in Seq(Calling) BY DEF CloserTypes
<1>2. PICK t \in Seq(Calling) : t = <<f>> \o stack[p] BY <1>1, Put
<1>3. Len(t) = Len(stack[p]) + 1 /\ t[1] = f /\ \A n \in 1..Len(stack[p]) : t[n + 1] = stack[p][n]
  BY <1>1, <1>2, Put
<1>4. stack' \in [Procs -> Seq(Calling)] /\ stack'[p] = t /\ \A q \in Procs \ {p} : stack'[q] = stack[q]
  BY <1>2 DEF Push, CloserTypes
<1>5. Len(stack[p]) \in Nat BY <1>1, LenProperties
<1>6. ASSUME NEW n \in 2..Len(t) PROVE t[n] = stack[p][n - 1]
  <2>1. n - 1 \in 1..Len(stack[p]) BY <1>3, <1>5
  <2>2. t[n - 1 + 1] = stack[p][n - 1] BY <1>3, <2>1
  <2>3. QED BY <1>5, <2>2
<1>7. QED BY <1>3, <1>4, <1>5, <1>6 DEF Moved

LEMMA ChildMoves ==
  ASSUME CloserTypes, NEW p \in Procs, stack[p] # <<>>, NEW f \in Calling, NEW g \in Calling,
         stack' = [stack EXCEPT ![p] = <<f, g>> \o Tail(@)]
  PROVE  Moved(p, 3, -1) /\ stack'[p][1] = f /\ stack'[p][2] = g
<1> DEFINE rest == Tail(stack[p])
<1>1. /\ rest \in Seq(Calling) /\ Len(rest) = Len(stack[p]) - 1 /\ Len(stack[p]) \in Nat \ {0}
      /\ \A n \in 1..Len(stack[p]) - 1 : rest[n] = stack[p][n + 1]
  BY TopFacts
<1>2. stack' = [stack EXCEPT ![p] = <<f, g>> \o rest] OBVIOUS
<1> HIDE DEF rest
<1>3. <<f, g>> \in Seq(Calling) /\ Len(<<f, g>>) = 2 /\ <<f, g>>[1] = f /\ <<f, g>>[2] = g OBVIOUS
<1>4. PICK t \in Seq(Calling) : t = <<f, g>> \o rest BY <1>1, <1>3, ConcatProperties
<1>5. /\ Len(t) = 2 + Len(rest)
      /\ \A n \in 1..2 + Len(rest) : t[n] = IF n <= 2 THEN <<f, g>>[n] ELSE rest[n - 2]
  BY <1>1, <1>3, <1>4, ConcatProperties
<1>6. stack' \in [Procs -> Seq(Calling)] /\ stack'[p] = t /\ \A q \in Procs \ {p} : stack'[q] = stack[q]
  BY <1>2, <1>4 DEF CloserTypes
<1>7. Len(t) = Len(stack[p]) + 1 /\ t[1] = f /\ t[2] = g
  <2>1. Len(rest) \in Nat /\ 1 \in 1..2 + Len(rest) /\ 2 \in 1..2 + Len(rest) BY <1>1
  <2>2. t[1] = <<f, g>>[1] /\ t[2] = <<f, g>>[2] BY ONLY <1>5, <2>1
  <2>3. QED BY <1>1, <1>3, <1>5, <2>2
<1>8. ASSUME NEW n \in 3..Len(t) PROVE t[n] = stack[p][n - 1]
  <2>1. n - 2 \in 1..Len(stack[p]) - 1 /\ n \in 1..2 + Len(rest) /\ ~(n <= 2) BY <1>1, <1>5
  <2>2. t[n] = rest[n - 2] BY <1>5, <2>1
  <2>3. rest[n - 2] = stack[p][n - 2 + 1] BY <1>1, <2>1
  <2>4. QED BY <1>1, <2>1, <2>2, <2>3
<1>9. QED BY <1>1, <1>6, <1>7, <1>8 DEF Moved

LEMMA ReturnMoves ==
  ASSUME CloserTypes, NEW p \in Procs, stack[p] # <<>>, Return(p)
  PROVE  /\ Moved(p, 2, 1)
         /\ Len(stack[p]) > 1 => stack'[p][1] = [stack[p][2] EXCEPT !.err = stack[p][2].err \/ Top(p).err]
<1>1. /\ stack[p] \in Seq(Calling) /\ Len(stack[p]) \in Nat \ {0} /\ Top(p) \in Calling
      /\ \A n \in 1..Len(stack[p]) : stack[p][n] \in Calling
  BY TopFacts
<1>2. CASE Len(stack[p]) > 1
  <2> DEFINE rest == SubSeq(stack[p], 3, Len(stack[p]))
             g == [stack[p][2] EXCEPT !.err = stack[p][2].err \/ Top(p).err]
  <2>1. stack[p][2] \in Calling BY <1>1, <1>2
  <2>2. g \in Calling BY <1>1, <2>1 DEF Calling
  <2>3. rest \in Seq(Calling) /\ Len(rest) = Len(stack[p]) - 2 /\ \A n \in 1..Len(stack[p]) - 2 : rest[n] = stack[p][n + 2]
    <3>1. \A n \in 3..Len(stack[p]) : stack[p][n] \in Calling BY <1>1
    <3>2. /\ rest \in Seq(Calling) /\ Len(rest) = IF 3 <= Len(stack[p]) THEN Len(stack[p]) - 3 + 1 ELSE 0
          /\ \A n \in 1..Len(stack[p]) - 3 + 1 : rest[n] = stack[p][3 + n - 1]
      BY <1>1, <3>1, SubSeqProperties
    <3>3. QED BY <1>1, <1>2, <3>2
  <2>4. stack' = [stack EXCEPT ![p] = <<g>> \o rest]
    <3>1. stack' = [stack EXCEPT ![p] = IF Len(stack[p]) > 1 THEN <<g>> \o rest ELSE <<>>] BY DEF Return
    <3>2. QED BY <1>2, <3>1
  <2> HIDE DEF rest, g
  <2>5. PICK t \in Seq(Calling) : t = <<g>> \o rest BY <2>2, <2>3, Put
  <2>6. Len(t) = Len(rest) + 1 /\ t[1] = g /\ \A n \in 1..Len(rest) : t[n + 1] = rest[n] BY <2>2, <2>3, <2>5, Put
  <2>7. stack' \in [Procs -> Seq(Calling)] /\ stack'[p] = t /\ \A q \in Procs \ {p} : stack'[q] = stack[q]
    BY <2>4, <2>5 DEF CloserTypes
  <2>8. ASSUME NEW n \in 2..Len(t) PROVE t[n] = stack[p][n + 1]
    <3>1. n - 1 \in 1..Len(rest) BY <1>1, <1>2, <2>3, <2>6
    <3>2. t[n - 1 + 1] = rest[n - 1] BY <2>6, <3>1
    <3>3. rest[n - 1] = stack[p][n - 1 + 2] BY <2>3, <3>1
    <3>4. QED BY <3>1, <3>2, <3>3
  <2>9. Moved(p, 2, 1) BY <1>1, <1>2, <2>3, <2>6, <2>7, <2>8 DEF Moved
  <2>10. stack'[p][1] = g BY <2>6, <2>7
  <2>11. QED BY <2>9, <2>10 DEF g
<1>3. CASE ~(Len(stack[p]) > 1)
  <2>1. stack' = [stack EXCEPT ![p] = <<>>] BY <1>3 DEF Return
  <2>2. <<>> \in Seq(Calling) /\ Len(<<>>) = 0 BY EmptySeq
  <2>3. stack' \in [Procs -> Seq(Calling)] /\ stack'[p] = <<>> /\ \A q \in Procs \ {p} : stack'[q] = stack[q]
    BY <2>1, <2>2 DEF CloserTypes
  <2>4. Len(stack'[p]) = 0 /\ Len(stack[p]) = 1
    <3>1. Len(stack'[p]) = 0 BY ONLY <2>2, <2>3
    <3>2. \A n \in Nat \ {0} : ~(n > 1) => n = 1 OBVIOUS
    <3>3. Len(stack[p]) \in Nat \ {0} /\ ~(Len(stack[p]) > 1) BY ONLY <1>1, <1>3
    <3>4. QED BY ONLY <3>1, <3>2, <3>3
  <2>5. \A n \in 2..Len(stack'[p]) : stack'[p][n] = stack[p][n + 1] BY <2>4
  <2>6. Moved(p, 2, 1) BY ONLY <2>3, <2>4, <2>5 DEF Moved
  <2>7. QED BY <1>3, <2>6
<1>4. QED BY <1>2, <1>3

-----------------------------------------------------------------------------
\* The mutexes of a closer change hands only where they are free or held by p, and a
\* frame of p that holds one held it before, or has just locked it.
OnlyMine(p) ==
  /\ \A c \in Closers : mc'[c] = mc[c] \/ mc[c] \in {NoOne, p}
  /\ \A c \in Closers : mf'[c] = mf[c] \/ mf[c] \in {NoOne, p}
  /\ \A c \in Closers : closed'[c] = closed[c] \/ mc[c] = p

HeldBefore(p, k, f, n) ==
  /\ n + k \in 1..Len(stack[p]) /\ Holds(stack[p][n + k]) /\ f.on = stack[p][n + k].on
  /\ InDo(f) => InDo(stack[p][n + k])
  /\ mc'[f.on] = mc[f.on] /\ closed'[f.on] = closed[f.on]
HeldNow(p, f) == mc[f.on] = NoOne /\ mc'[f.on] = p /\ (InDo(f) => ~closed'[f.on])

LEMMA LocksKept ==
  ASSUME CloserTypes, LockInv, NEW p \in Procs, NEW j \in Nat, NEW k \in {-1, 0, 1},
         Moved(p, j, k), OnlyMine(p),
         \A n \in 1..Len(stack'[p]) : Holds(stack'[p][n]) =>
           HeldBefore(p, k, stack'[p][n], n) \/ (n = 1 /\ HeldNow(p, stack'[p][n])),
         \A n \in 2..Len(stack'[p]) : InDo(stack'[p][n]) \/ InClose(stack'[p][n]),
         \A n \in 1..Len(stack'[p]) : stack'[p][n].op = "append" => stack'[p][n].arg \in Closers,
         stack'[p] # <<>> => \A c \in Closers : Keeps(stack'[p][1], c) => mf'[c] = p
  PROVE  LockInv'
<1>1. ASSUME NEW q \in Procs, q # p PROVE StackOf(q, stack[q])'
  <2>1. stack'[q] = stack[q] BY <1>1 DEF Moved
  <2>2. StackOf(q, stack[q]) BY DEF LockInv
  <2>3. \A n \in 1..Len(stack[q]) : stack[q][n] \in Calling /\ stack[q][n].on \in Closers
    BY StackFacts DEF Calling
  <2>4. q # NoOne BY CloserAssumption
  <2> DEFINE s == stack[q]
  <2>5. \A n \in 1..Len(s) : Holds(s[n]) => mc'[s[n].on] = q
    BY <1>1, <2>2, <2>3, <2>4 DEF StackOf, OnlyMine
  <2>6. \A n \in 1..Len(s) : InDo(s[n]) => ~closed'[s[n].on]
    BY <1>1, <2>2, <2>3, <2>4 DEF StackOf, OnlyMine, Holds
  <2>7. s # <<>> => \A c \in Closers : Keeps(s[1], c) => mf'[c] = q
    BY <1>1, <2>2, <2>4 DEF StackOf, OnlyMine
  <2>8. QED BY <2>1, <2>2, <2>5, <2>6, <2>7 DEF StackOf
<1>2. StackOf(p, stack[p])'
  <2> DEFINE s == stack[p]
             t == stack'[p]
  <2>1. StackOf(p, s) BY DEF LockInv
  <2>2. Len(s) \in Nat /\ Len(t) \in Nat /\ \A n \in 1..Len(s) : s[n].on \in Closers
    BY StackFacts, LenProperties DEF Moved, Calling
  <2>3. p # NoOne BY CloserAssumption
  <2>4. \A n \in 1..Len(t) : Holds(t[n]) => mc'[t[n].on] = p
    BY <2>1 DEF StackOf, HeldBefore, HeldNow
  <2>5. \A n \in 1..Len(t) : InDo(t[n]) => ~closed'[t[n].on]
    BY <2>1 DEF StackOf, HeldBefore, HeldNow, Holds
  <2>6. ASSUME NEW m \in 1..Len(t), NEW n \in 1..Len(t), Holds(t[m]), Holds(t[n]), t[m].on = t[n].on
        PROVE  m = n
    <3>1. HeldBefore(p, k, t[m], m) \/ (m = 1 /\ HeldNow(p, t[m])) BY <2>6
    <3>2. HeldBefore(p, k, t[n], n) \/ (n = 1 /\ HeldNow(p, t[n])) BY <2>6
    <3>3. ASSUME NEW i \in 1..Len(t), HeldBefore(p, k, t[i], i) PROVE mc[t[i].on] = p
      BY <2>1, <3>3 DEF StackOf, HeldBefore
    <3>4. ASSUME NEW i \in 1..Len(t), HeldNow(p, t[i]) PROVE mc[t[i].on] # p
      BY <2>3, <3>4 DEF HeldNow
    <3>5. CASE HeldBefore(p, k, t[m], m) /\ HeldBefore(p, k, t[n], n)
      <4>0. /\ m + k \in 1..Len(s) /\ n + k \in 1..Len(s) /\ Holds(s[m + k]) /\ Holds(s[n + k])
            /\ s[m + k].on = s[n + k].on
        BY ONLY <2>6, <3>5 DEF HeldBefore
      <4>1. m + k = n + k BY ONLY <2>1, <4>0 DEF StackOf
      <4>2. QED BY <2>2, <4>1
    <3>6. QED BY <2>6, <3>1, <3>2, <3>3, <3>4, <3>5
  <2>7. QED BY <2>4, <2>5, <2>6 DEF StackOf
<1>3. QED BY <1>1, <1>2 DEF LockInv

\* The errors of the other goroutines.
LEMMA ErrorsKept ==
  ASSUME CloserTypes, ErrorInv, NEW p \in Procs, NEW j \in Nat, NEW k \in {-1, 0, 1}, Moved(p, j, k),
         \A q \in Procs \ {p} : result'[q] = result[q] /\ failed'[q] = failed[q],
         ErrorsOf(p, stack[p])'
  PROVE  ErrorInv'
<1>1. ASSUME NEW q \in Procs, q # p PROVE ErrorsOf(q, stack[q])'
  <2>1. stack'[q] = stack[q] /\ result'[q] = result[q] /\ failed'[q] = failed[q] BY <1>1 DEF Moved
  <2>2. ErrorsOf(q, stack[q]) BY DEF ErrorInv
  <2>3. QED BY <2>1, <2>2 DEF ErrorsOf
<1>2. QED BY <1>1 DEF ErrorInv

\* What is counted for c stays what it was, when no copy of its funcs comes or goes.
CopiesStay(p, k, c) ==
  /\ \A n \in 1..Len(stack'[p]) : InClose(stack'[p][n]) /\ stack'[p][n].on = c =>
       /\ n + k \in 1..Len(stack[p]) /\ InClose(stack[p][n + k]) /\ stack[p][n + k].on = c
       /\ stack[p][n + k].left = stack'[p][n].left
  /\ \A n \in 1..Len(stack[p]) : InClose(stack[p][n]) /\ stack[p][n].on = c =>
       /\ n - k \in 1..Len(stack'[p]) /\ InClose(stack'[p][n - k]) /\ stack'[p][n - k].on = c
       /\ stack'[p][n - k].left = stack[p][n].left
CallsStay(c) == \A q \in Procs, l \in Seq(Things) : InCall(q, c, l)' <=> InCall(q, c, l)
WritesStay(p, c) == \A l \in Seq(Things) : /\ Appending(p, c, l)' <=> Appending(p, c, l)
                                           /\ Adding(p, c, l)' <=> Adding(p, c, l)

LEMMA OthersStay ==
  ASSUME NEW p \in Procs, NEW j \in Nat, NEW k \in {-1, 0, 1}, Moved(p, j, k),
         NEW q \in Procs \ {p}, NEW c \in Closers, NEW l \in Seq(Things)
  PROVE  /\ InCall(q, c, l)' <=> InCall(q, c, l)
         /\ Appending(q, c, l)' <=> Appending(q, c, l)
         /\ Adding(q, c, l)' <=> Adding(q, c, l)
<1>1. stack'[q] = stack[q] BY DEF Moved
<1>2. QED BY <1>1 DEF InCall, Appending, Adding

LEMMA CopiesStayed ==
  ASSUME CloserTypes, NEW p \in Procs, NEW j \in Nat, NEW k \in {-1, 0, 1}, Moved(p, j, k),
         NEW c \in Closers, CopiesStay(p, k, c)
  PROVE  CallsStay(c)
<1> SUFFICES ASSUME NEW q \in Procs, NEW l \in Seq(Things) PROVE InCall(q, c, l)' <=> InCall(q, c, l)
  BY DEF CallsStay
<1>1. CASE q # p BY <1>1, OthersStay
<1>2. CASE q = p
  <2>1. ASSUME InCall(p, c, l)' PROVE InCall(p, c, l)
    <3>1. PICK n \in 1..Len(stack'[p]) :
            InClose(stack'[p][n]) /\ stack'[p][n].on = c /\ stack'[p][n].left = l
      BY <2>1 DEF InCall
    <3>2. /\ n + k \in 1..Len(stack[p]) /\ InClose(stack[p][n + k]) /\ stack[p][n + k].on = c
          /\ stack[p][n + k].left = l
      BY <3>1 DEF CopiesStay
    <3>3. QED BY <3>2 DEF InCall
  <2>2. ASSUME InCall(p, c, l) PROVE InCall(p, c, l)'
    <3>1. PICK n \in 1..Len(stack[p]) : InClose(stack[p][n]) /\ stack[p][n].on = c /\ stack[p][n].left = l
      BY <2>2 DEF InCall
    <3>2. /\ n - k \in 1..Len(stack'[p]) /\ InClose(stack'[p][n - k]) /\ stack'[p][n - k].on = c
          /\ stack'[p][n - k].left = l
      BY <3>1 DEF CopiesStay
    <3>3. QED BY <3>2 DEF InCall
  <2>3. QED BY <1>2, <2>1, <2>2
<1>3. QED BY <1>1, <1>2

LEMMA CountKept ==
  ASSUME CloserTypes, CountInv, NEW p \in Procs, NEW j \in Nat, NEW k \in {-1, 0, 1}, Moved(p, j, k),
         NEW c \in Closers, raced \subseteq raced', c \notin raced', CopiesStay(p, k, c), WritesStay(p, c),
         fs'[c] = fs[c], added'[c] = added[c], called'[c] = called[c]
  PROVE  CountOf(c)'
<1>1. CountOf(c) BY DEF CountInv
<1>2. CallsStay(c) BY CopiesStayed
<1>3. \A q \in Procs, l \in Seq(Things) : /\ Appending(q, c, l)' <=> Appending(q, c, l)
                                          /\ Adding(q, c, l)' <=> Adding(q, c, l)
  BY OthersStay DEF WritesStay
<1>4. NoCall(c)' <=> NoCall(c) BY <1>2 DEF NoCall, CallsStay
<1>5. NoAppend(c)' <=> NoAppend(c) BY <1>3 DEF NoAppend
<1>6. \A l \in Seq(Things) : Owed(c, l)' <=> Owed(c, l) BY DEF Owed
<1>7. fs[c] \in Seq(Things) BY DEF CloserTypes
<1>8. Owed(c, fs[c])' <=> Owed(c, fs[c]) BY <1>6 DEF Owed
<1>9. QED BY <1>1, <1>2, <1>3, <1>4, <1>5, <1>6, <1>8 DEF CountOf, CallsStay

\* Errors when the frames keep what they are, and when one that is no Close goes.
LEMMA ErrorsSame ==
  ASSUME CloserTypes, ErrorInv, NEW p \in Procs, Moved(p, 2, 0), stack[p] # <<>>,
         stack'[p][1].op = stack[p][1].op, stack'[p][1].err = stack[p][1].err,
         result' = result, failed' = failed
  PROVE  ErrorInv'
<1>1. ErrorsOf(p, stack[p]) BY DEF ErrorInv
<1>2. stack'[p] \in Seq(Calling) /\ Len(stack'[p]) = Len(stack[p]) /\ Len(stack[p]) \in Nat \ {0}
  BY TopFacts DEF Moved
<1>3. stack'[p] # <<>> BY <1>2, EmptySeq
<1>4. ASSUME NEW n \in 1..Len(stack[p])
      PROVE  stack'[p][n].op = stack[p][n].op /\ stack'[p][n].err = stack[p][n].err
  <2>1. CASE n = 1 BY <2>1
  <2>2. CASE n # 1 BY <1>2, <2>2 DEF Moved
  <2>3. QED BY <2>1, <2>2
<1>5. ErrorsOf(p, stack[p])'
  <2>1. stack'[p][1].op = "close" <=> stack[p][1].op = "close" OBVIOUS
  <2>2. (\E n \in 1..Len(stack'[p]) : stack'[p][n].err) <=> (\E n \in 1..Len(stack[p]) : stack[p][n].err)
    BY <1>2, <1>4
  <2>3. \A m, n \in 1..Len(stack'[p]) : stack'[p][m].op = "close" => stack'[p][n].op = "close"
    <3>1. \A m, n \in 1..Len(stack[p]) : stack[p][m].op = "close" => stack[p][n].op = "close"
      BY ONLY <1>1 DEF ErrorsOf
    <3>2. \A n \in 1..Len(stack[p]) : stack'[p][n].op = stack[p][n].op BY ONLY <1>4
    <3>3. Len(stack'[p]) = Len(stack[p]) BY ONLY <1>2
    <3>4. QED BY ONLY <3>1, <3>2, <3>3
  <2>4. QED BY <1>1, <1>3, <2>1, <2>2, <2>3 DEF ErrorsOf
<1>6. QED BY <1>5, ErrorsKept

LEMMA ErrorsPop ==
  ASSUME CloserTypes, ErrorInv, NEW p \in Procs, Moved(p, 1, 1), stack[p] # <<>>,
         stack[p][1].op # "close", result' = result, failed' = failed
  PROVE  ErrorInv'
<1>1. ErrorsOf(p, stack[p]) BY DEF ErrorInv
<1>2. stack'[p] \in Seq(Calling) /\ Len(stack'[p]) = Len(stack[p]) - 1 /\ Len(stack[p]) \in Nat \ {0}
  BY TopFacts DEF Moved
<1>3. ASSUME NEW n \in 1..Len(stack'[p])
      PROVE  n + 1 \in 1..Len(stack[p]) /\ stack'[p][n] = stack[p][n + 1]
  <2>1. n + 1 \in 1..Len(stack[p]) BY ONLY <1>2, n \in 1..Len(stack'[p])
  <2>2. \A m \in 1..Len(stack'[p]) : stack'[p][m] = stack[p][m + 1] BY DEF Moved
  <2>3. QED BY ONLY <2>1, <2>2, n \in 1..Len(stack'[p])
<1>4. \A n \in 1..Len(stack[p]) : stack[p][n].op # "close" /\ ~stack[p][n].err BY <1>1, <1>2 DEF ErrorsOf
<1>5. \A n \in 1..Len(stack'[p]) : stack'[p][n].op # "close" /\ ~stack'[p][n].err BY <1>3, <1>4
<1>6. result[p] = failed[p] BY <1>1 DEF ErrorsOf
<1>7. stack'[p] # <<>> => 1 \in 1..Len(stack'[p]) BY <1>2, EmptySeq
<1>8. ErrorsOf(p, stack[p])' BY <1>5, <1>6, <1>7 DEF ErrorsOf
<1>9. QED BY <1>8, ErrorsKept

-----------------------------------------------------------------------------
\* The steps that lock a mutex and go on.
LEMMA Below ==
  ASSUME CloserTypes, LockInv, NEW p \in Procs
  PROVE  /\ \A n \in 2..Len(stack[p]) : stack[p][n].op \in {"do", "close"} /\ stack[p][n].at \in {"fn", "call"}
                                        /\ (InDo(stack[p][n]) \/ InClose(stack[p][n]))
         /\ \A n \in 1..Len(stack[p]) : stack[p][n].op = "append" => stack[p][n].arg \in Closers
         /\ \A n \in 1..Len(stack[p]) : Holds(stack[p][n]) => mc[stack[p][n].on] = p
BY DEF LockInv, StackOf, InDo, InClose

LEMMA RelabelInv ==
  ASSUME CloserIInv, NEW p \in Procs, stack[p] # <<>>, NEW a \in {"funcs", "second", "fn"},
         Becomes(p, [Top(p) EXCEPT !.at = a]), Top(p).at = "start",
         mc' \in [Closers -> Procs \cup {NoOne}], mf' \in [Closers -> Procs \cup {NoOne}],
         \A c \in Closers : mc'[c] = mc[c] \/ mc[c] = NoOne, \A c \in Closers : mf'[c] = mf[c] \/ mf[c] = NoOne,
         Holds([Top(p) EXCEPT !.at = a]) => HeldNow(p, [Top(p) EXCEPT !.at = a]),
         \A c \in Closers : Keeps([Top(p) EXCEPT !.at = a], c) => mf'[c] = p,
         UNCHANGED <<fs, closed, calls, made, result, failed, added, called, raced, callback, told>>
  PROVE  CloserIInv'
<1> DEFINE g == [Top(p) EXCEPT !.at = a]
<1>1. CloserTypes /\ LockInv /\ ErrorInv /\ CountInv BY DEF CloserIInv
<1>2. Top(p) = stack[p][1] /\ Top(p) \in Calling /\ Len(stack[p]) \in Nat \ {0} BY <1>1, TopFacts
<1>3. /\ g \in Calling /\ g.at = a /\ g.op = Top(p).op /\ g.on = Top(p).on /\ g.arg = Top(p).arg
      /\ g.err = Top(p).err
  BY <1>2 DEF Calling
<1>4. Moved(p, 2, 0) /\ stack'[p][1] = g BY <1>1, <1>3, BecomesMoves
<1> HIDE DEF g
<1>5. Len(stack'[p]) = Len(stack[p]) /\ \A n \in 2..Len(stack[p]) : stack'[p][n] = stack[p][n]
  BY <1>2, <1>4 DEF Moved
<1>6. CloserTypes' BY <1>1, <1>4 DEF CloserTypes, Moved
<1>7. ~InClose(Top(p)) /\ ~InAppend(Top(p)) /\ ~InAdd(Top(p)) /\ ~InClose(g) /\ ~InAppend(g) /\ ~InAdd(g)
  BY <1>3 DEF InClose, InAppend, InAdd
<1>8. LockInv'
  <2>1. OnlyMine(p) BY DEF OnlyMine
  <2>2. p # NoOne BY CloserAssumption
  <2>3. ASSUME NEW n \in 1..Len(stack'[p]), Holds(stack'[p][n])
        PROVE  HeldBefore(p, 0, stack'[p][n], n) \/ (n = 1 /\ HeldNow(p, stack'[p][n]))
    <3>1. CASE n = 1 BY <1>4, <2>3, <3>1 DEF g
    <3>2. CASE n # 1
      <4>1. n \in 2..Len(stack[p]) /\ n + 0 = n BY <1>2, <1>5, <3>2
      <4>2. stack'[p][n] = stack[p][n] BY <1>5, <4>1
      <4>3. mc[stack[p][n].on] = p /\ stack[p][n].on \in Closers
        <5>1. Holds(stack[p][n]) /\ n \in 1..Len(stack[p]) BY <2>3, <4>1, <4>2
        <5>2. QED BY <1>1, <5>1, Below, StackFacts DEF Calling
      <4>4. mc'[stack[p][n].on] = mc[stack[p][n].on] BY <2>2, <4>3
      <4>5. QED BY <1>5, <2>3, <4>1, <4>2, <4>4 DEF HeldBefore
    <3>3. QED BY <3>1, <3>2
  <2>4. \A n \in 2..Len(stack'[p]) : InDo(stack'[p][n]) \/ InClose(stack'[p][n]) BY <1>1, <1>5, Below
  <2>5. \A n \in 1..Len(stack'[p]) : stack'[p][n].op = "append" => stack'[p][n].arg \in Closers
    <3>1. g.op = "append" => g.arg \in Closers
      <4>1. 1 \in 1..Len(stack[p]) BY <1>2
      <4>2. stack[p][1].op = "append" => stack[p][1].arg \in Closers BY <1>1, <4>1, Below
      <4>3. QED BY <1>2, <1>3, <4>2
    <3>2. QED BY <1>1, <1>2, <1>4, <1>5, <3>1, Below
  <2>6. stack'[p] # <<>> => \A c \in Closers : Keeps(stack'[p][1], c) => mf'[c] = p BY <1>4 DEF g
  <2>7. QED BY <1>1, <1>4, <2>1, <2>3, <2>4, <2>5, <2>6, LocksKept
<1>9. ErrorInv' BY <1>1, <1>2, <1>3, <1>4, ErrorsSame
<1>10. CountInv'
  <2> SUFFICES ASSUME NEW c \in Closers, c \notin raced PROVE CountOf(c)' BY DEF CountInv
  <2>1. CopiesStay(p, 0, c) BY <1>2, <1>4, <1>5, <1>7 DEF CopiesStay
  <2>2. WritesStay(p, c) BY <1>2, <1>4, <1>7 DEF WritesStay, Appending, Adding
  <2>3. QED BY <1>1, <1>4, <2>1, <2>2, CountKept
<1>11. QED BY <1>6, <1>8, <1>9, <1>10 DEF CloserIInv

LEMMA CloseLockInv == CloserIInv /\ (\E p \in Procs : CloseLock(p)) => CloserIInv'
<1> SUFFICES ASSUME CloserIInv, NEW p \in Procs, CloseLock(p) PROVE CloserIInv' OBVIOUS
<1>1. CloserTypes BY DEF CloserIInv
<1>2. stack[p] # <<>> /\ Top(p).op = "close" /\ Top(p).at = "start" BY DEF CloseLock, Runs
<1>3. Top(p) \in Calling BY <1>1, <1>2, TopFacts
<1>4. /\ Top(p).on \in Closers /\ mc[Top(p).on] = NoOne
      /\ mc' = [mc EXCEPT ![Top(p).on] = p] /\ mf' = mf /\ closed' = closed
  BY <1>3 DEF CloseLock, Lock, Calling
<1> DEFINE g == [Top(p) EXCEPT !.at = "funcs"]
<1>5. g.on = Top(p).on /\ g.op = "close" BY <1>2, <1>3 DEF Calling
<1>6. QED
  <2>1. Holds(g) => HeldNow(p, g) BY <1>1, <1>4, <1>5 DEF HeldNow, InDo, CloserTypes
  <2>2. \A c \in Closers : ~Keeps(g, c) BY <1>5 DEF Keeps, InAppend, InAdd
  <2>3. mc' \in [Closers -> Procs \cup {NoOne}] /\ mf' \in [Closers -> Procs \cup {NoOne}]
    BY <1>1, <1>4 DEF CloserTypes
  <2>4. \A c \in Closers : mc'[c] = mc[c] \/ mc[c] = NoOne BY <1>1, <1>4 DEF CloserTypes
  <2>5. QED BY <1>2, <1>4, <2>1, <2>2, <2>3, <2>4, RelabelInv DEF CloseLock

LEMMA DoLockInv == CloserIInv /\ (\E p \in Procs : DoLock(p)) => CloserIInv'
<1> SUFFICES ASSUME CloserIInv, NEW p \in Procs, DoLock(p) PROVE CloserIInv' OBVIOUS
<1>1. CloserTypes BY DEF CloserIInv
<1>2. stack[p] # <<>> /\ Top(p).op = "do" /\ Top(p).at = "start" BY DEF DoLock, Runs
<1>3. Top(p) \in Calling BY <1>1, <1>2, TopFacts
<1>4. /\ Top(p).on \in Closers /\ mc[Top(p).on] = NoOne /\ ~closed[Top(p).on]
      /\ mc' = [mc EXCEPT ![Top(p).on] = p] /\ mf' = mf /\ closed' = closed
  BY <1>3 DEF DoLock, Lock, Calling
<1> DEFINE g == [Top(p) EXCEPT !.at = "fn"]
<1>5. g.on = Top(p).on /\ g.op = "do" BY <1>2, <1>3 DEF Calling
<1>6. QED
  <2>1. Holds(g) => HeldNow(p, g) BY <1>1, <1>4, <1>5 DEF HeldNow, CloserTypes
  <2>2. \A c \in Closers : ~Keeps(g, c) BY <1>5 DEF Keeps, InAppend, InAdd
  <2>3. mc' \in [Closers -> Procs \cup {NoOne}] /\ mf' \in [Closers -> Procs \cup {NoOne}]
    BY <1>1, <1>4 DEF CloserTypes
  <2>4. \A c \in Closers : mc'[c] = mc[c] \/ mc[c] = NoOne BY <1>1, <1>4 DEF CloserTypes
  <2>5. QED BY <1>2, <1>4, <2>1, <2>2, <2>3, <2>4, RelabelInv DEF DoLock

LEMMA AppendLockInv == CloserIInv /\ (\E p \in Procs : AppendLock(p)) => CloserIInv'
<1> SUFFICES ASSUME CloserIInv, NEW p \in Procs, AppendLock(p) PROVE CloserIInv' OBVIOUS
<1>1. CloserTypes BY DEF CloserIInv
<1>2. stack[p] # <<>> /\ Top(p).op = "append" /\ Top(p).at = "start" BY DEF AppendLock, Runs
<1>3. Top(p) \in Calling BY <1>1, <1>2, TopFacts
<1>4. /\ Top(p).on \in Closers /\ mf[Top(p).on] = NoOne
      /\ mf' = [mf EXCEPT ![Top(p).on] = p] /\ mc' = mc
  BY <1>3 DEF AppendLock, Lock, Calling
<1> DEFINE g == [Top(p) EXCEPT !.at = "second"]
<1>5. g.on = Top(p).on /\ g.op = "append" /\ g.at = "second" BY <1>2, <1>3 DEF Calling
<1>6. QED
  <2>1. ~Holds(g) BY <1>5 DEF Holds, InDo, InClose
  <2>2. ASSUME NEW c \in Closers, Keeps(g, c) PROVE mf'[c] = p
    <3>1. c = Top(p).on BY <1>5, <2>2 DEF Keeps, InAppend, InAdd
    <3>2. QED BY <1>1, <1>4, <3>1 DEF CloserTypes
  <2>3. mc' \in [Closers -> Procs \cup {NoOne}] /\ mf' \in [Closers -> Procs \cup {NoOne}]
    BY <1>1, <1>4 DEF CloserTypes
  <2>4. \A c \in Closers : mf'[c] = mf[c] \/ mf[c] = NoOne BY <1>1, <1>4 DEF CloserTypes
  <2>5. QED BY <1>2, <1>4, <2>1, <2>2, <2>3, <2>4, RelabelInv DEF AppendLock

-----------------------------------------------------------------------------
\* The steps that end a call other than Close.
LEMMA PopKeeps ==
  ASSUME CloserIInv, NEW p \in Procs, stack[p] # <<>>, Pop(p), Top(p).op # "close",
         \A c \in Closers : mc'[c] = mc[c] \/ (mc[c] = p /\ Holds(Top(p)) /\ c = Top(p).on),
         \A c \in Closers : mf'[c] = mf[c] \/ mf[c] = p,
         UNCHANGED <<closed, result, failed>>
  PROVE  /\ Moved(p, 1, 1) /\ LockInv' /\ ErrorInv'
         /\ \A c \in Closers : CopiesStay(p, 1, c) /\ \A l \in Seq(Things) : ~Appending(p, c, l)' /\ ~Adding(p, c, l)'
<1>1. CloserTypes /\ LockInv /\ ErrorInv BY DEF CloserIInv
<1>2. Top(p) = stack[p][1] /\ Top(p) \in Calling /\ Len(stack[p]) \in Nat \ {0} BY <1>1, TopFacts
<1>3. Moved(p, 1, 1) BY <1>1, PopMoves
<1>4. /\ Len(stack'[p]) = Len(stack[p]) - 1
      /\ \A n \in 1..Len(stack'[p]) : n + 1 \in 2..Len(stack[p]) /\ stack'[p][n] = stack[p][n + 1]
  BY <1>2, <1>3 DEF Moved
<1>5. stack'[p] # <<>> => 1 \in 1..Len(stack'[p])
  <2>1. stack'[p] \in Seq(Calling) BY <1>3 DEF Moved
  <2>2. QED BY <2>1, EmptySeq
<1>6. ~InClose(Top(p)) BY DEF InClose
<1>7. \A n \in 1..Len(stack'[p]) : stack'[p][n].op \in {"do", "close"} /\ stack'[p][n].at \in {"fn", "call"}
                                   /\ (InDo(stack'[p][n]) \/ InClose(stack'[p][n]))
  BY <1>1, <1>4, Below
<1>8. LockInv'
  <2>1. OnlyMine(p) BY DEF OnlyMine
  <2>2. ASSUME NEW n \in 1..Len(stack'[p]), Holds(stack'[p][n])
        PROVE  HeldBefore(p, 1, stack'[p][n], n)
    <3>1. /\ n + 1 \in 1..Len(stack[p]) /\ n + 1 # 1 /\ stack'[p][n] = stack[p][n + 1]
          /\ Holds(stack[p][n + 1]) /\ 1 \in 1..Len(stack[p])
      BY <1>2, <1>4, <2>2
    <3>2. stack[p][n + 1].on \in Closers BY <1>1, <3>1, StackFacts DEF Calling
    <3>3. mc'[stack[p][n + 1].on] = mc[stack[p][n + 1].on]
      <4>1. SUFFICES ASSUME Holds(Top(p)), stack[p][n + 1].on = Top(p).on PROVE FALSE BY <3>2
      <4>2. StackOf(p, stack[p]) BY <1>1 DEF LockInv
      <4>3. Holds(stack[p][1]) /\ stack[p][n + 1].on = stack[p][1].on BY <1>2, <4>1
      <4>4. n + 1 = 1 BY ONLY <3>1, <4>2, <4>3 DEF StackOf
      <4>5. QED BY <3>1, <4>4
    <3>4. QED BY <3>1, <3>3 DEF HeldBefore
  <2>3. \A n \in 1..Len(stack'[p]) : stack'[p][n].op = "append" => stack'[p][n].arg \in Closers BY <1>7
  <2>4. stack'[p] # <<>> => \A c \in Closers : ~Keeps(stack'[p][1], c)
    BY <1>5, <1>7 DEF Keeps, InAppend, InAdd
  <2>5. \A n \in 2..Len(stack'[p]) : InDo(stack'[p][n]) \/ InClose(stack'[p][n]) BY <1>2, <1>4, <1>7
  <2>6. QED BY <1>1, <1>3, <2>1, <2>2, <2>3, <2>4, <2>5, LocksKept
<1>9. ErrorInv' BY <1>1, <1>2, <1>3, ErrorsPop
<1>10. ASSUME NEW c \in Closers PROVE CopiesStay(p, 1, c)
  <2>1. ASSUME NEW n \in 1..Len(stack[p]), InClose(stack[p][n])
        PROVE  n - 1 \in 1..Len(stack'[p]) /\ stack'[p][n - 1] = stack[p][n]
    <3>1. n # 1 BY <1>2, <1>6, <2>1
    <3>2. n - 1 \in 1..Len(stack'[p]) /\ n - 1 + 1 = n BY <1>2, <1>4, <3>1
    <3>3. QED BY <1>4, <3>2
  <2>2. \A n \in 1..Len(stack'[p]) : n + 1 \in 1..Len(stack[p]) /\ stack'[p][n] = stack[p][n + 1] BY <1>2, <1>4
  <2>3. QED BY <2>1, <2>2 DEF CopiesStay
<1>11. \A c \in Closers, l \in Seq(Things) : ~Appending(p, c, l)' /\ ~Adding(p, c, l)'
  BY <1>5, <1>7 DEF Appending, Adding, InAppend, InAdd
<1>12. QED BY <1>3, <1>8, <1>9, <1>10, <1>11

\* Do that does nothing or has run fn, and OnClosed.
LEMMA PopInv ==
  ASSUME CloserIInv, NEW p \in Procs, DoClosed(p) \/ DoReturn(p) \/ OnClosed(p)
  PROVE  CloserIInv'
<1>1. CloserTypes /\ LockInv /\ ErrorInv /\ CountInv BY DEF CloserIInv
<1>2. /\ stack[p] # <<>> /\ Pop(p) /\ Top(p).op \in {"do", "onclosed"}
      /\ UNCHANGED <<fs, closed, mf, calls, made, result, failed, added, called, raced, told>>
  BY DEF DoClosed, DoReturn, OnClosed, Runs
<1>3. Top(p) = stack[p][1] /\ Top(p) \in Calling /\ Top(p).on \in Closers BY <1>1, <1>2, TopFacts DEF Calling
<1>4. mc' = mc \/ (Holds(Top(p)) /\ mc' = [mc EXCEPT ![Top(p).on] = NoOne])
  BY DEF DoClosed, DoReturn, OnClosed, Unlock, Runs, Holds, InDo
<1>5. Holds(Top(p)) => mc[Top(p).on] = p
  <2>1. 1 \in 1..Len(stack[p]) BY <1>1, <1>2, TopFacts
  <2>2. QED BY <1>1, <1>3, <2>1, Below
<1>6. \A c \in Closers : mc'[c] = mc[c] \/ (mc[c] = p /\ Holds(Top(p)) /\ c = Top(p).on)
  BY <1>1, <1>3, <1>4, <1>5 DEF CloserTypes
<1>7. /\ Moved(p, 1, 1) /\ LockInv' /\ ErrorInv'
      /\ \A c \in Closers : CopiesStay(p, 1, c) /\ \A l \in Seq(Things) : ~Appending(p, c, l)' /\ ~Adding(p, c, l)'
  BY <1>2, <1>6, PopKeeps
<1>8. callback' \subseteq Closers
  BY <1>1, <1>3 DEF CloserTypes, DoClosed, DoReturn, OnClosed
<1>9. mc' \in [Closers -> Procs \cup {NoOne}] BY <1>1, <1>3, <1>4 DEF CloserTypes
<1>10. CloserTypes' BY <1>1, <1>2, <1>7, <1>8, <1>9 DEF CloserTypes, Moved
<1>11. CountInv'
  <2> SUFFICES ASSUME NEW c \in Closers, c \notin raced PROVE CountOf(c)' BY <1>2 DEF CountInv
  <2>1. WritesStay(p, c) BY <1>2, <1>3, <1>7 DEF WritesStay, Appending, Adding, InAppend, InAdd
  <2>2. QED BY <1>1, <1>2, <1>7, <2>1, CountKept
<1>12. QED BY <1>7, <1>10, <1>11 DEF CloserIInv

-----------------------------------------------------------------------------
\* A goroutine calls a method.
LEMMA PushInv ==
  ASSUME CloserIInv, NEW p \in Procs, NEW f \in Calling, f.at = "start", ~f.err,
         f.op = "append" => f.arg \in Closers, Push(p, f),
         stack[p] = <<>> \/ (Runs(p, "do", "fn") /\ f.op # "close"),
         failed' = IF f.op = "close" THEN [failed EXCEPT ![p] = FALSE] ELSE failed,
         calls' \in [Procs -> Nat], made' \subseteq Things,
         UNCHANGED <<fs, closed, mc, mf, result, added, called, raced, callback, told>>
  PROVE  CloserIInv'
<1>1. CloserTypes /\ LockInv /\ ErrorInv /\ CountInv BY DEF CloserIInv
<1>2. Moved(p, 2, -1) /\ stack'[p][1] = f BY <1>1, PushMoves
<1>3. /\ Len(stack[p]) \in Nat /\ Len(stack'[p]) = Len(stack[p]) + 1
      /\ \A n \in 2..Len(stack'[p]) : n + -1 \in 1..Len(stack[p]) /\ stack'[p][n] = stack[p][n + -1]
  BY <1>1, <1>2, StackFacts DEF Moved
<1>4. ~Holds(f) /\ ~InClose(f) /\ ~InDo(f) /\ ~InAppend(f) /\ ~InAdd(f) /\ \A c \in Closers : ~Keeps(f, c)
  BY DEF Holds, InClose, InDo, InAppend, InAdd, Keeps
<1>5. stack[p] # <<>> => /\ Len(stack[p]) \in Nat \ {0} /\ stack[p][1].op = "do" /\ InDo(stack[p][1])
                         /\ f.op # "close"
  BY <1>1, TopFacts DEF Runs, InDo
<1>6. \A n \in 1..Len(stack[p]) : stack[p][n].op # "append" /\ (InDo(stack[p][n]) \/ InClose(stack[p][n]))
  <2> SUFFICES ASSUME NEW n \in 1..Len(stack[p])
               PROVE  stack[p][n].op # "append" /\ (InDo(stack[p][n]) \/ InClose(stack[p][n]))
    OBVIOUS
  <2>1. stack[p] # <<>> BY <1>1, StackFacts
  <2>2. CASE n = 1 BY <1>5, <2>1, <2>2
  <2>3. CASE n # 1 BY <1>1, <1>3, <2>3, Below
  <2>4. QED BY <2>2, <2>3
<1>7. CloserTypes' BY <1>1, <1>2 DEF CloserTypes, Moved
<1>8. stack'[p] # <<>> /\ 1 \in 1..Len(stack'[p])
  <2>1. stack'[p] \in Seq(Calling) BY <1>2 DEF Moved
  <2>2. QED BY <1>3, <2>1, EmptySeq
<1>9. LockInv'
  <2>1. OnlyMine(p) BY DEF OnlyMine
  <2>2. ASSUME NEW n \in 1..Len(stack'[p]), Holds(stack'[p][n])
        PROVE  HeldBefore(p, -1, stack'[p][n], n)
    <3>1. n # 1 BY <1>2, <1>4, <2>2
    <3>2. n \in 2..Len(stack'[p]) BY <1>3, <3>1
    <3>3. QED BY <1>3, <2>2, <3>2 DEF HeldBefore
  <2>3. \A n \in 2..Len(stack'[p]) : InDo(stack'[p][n]) \/ InClose(stack'[p][n]) BY <1>3, <1>6
  <2>4. \A n \in 1..Len(stack'[p]) : stack'[p][n].op = "append" => stack'[p][n].arg \in Closers
    <3> SUFFICES ASSUME NEW n \in 1..Len(stack'[p]), stack'[p][n].op = "append"
                 PROVE  stack'[p][n].arg \in Closers
      OBVIOUS
    <3>1. CASE n = 1 BY <1>2, <3>1
    <3>2. CASE n # 1
      <4>1. n \in 2..Len(stack'[p]) BY <1>3, <3>2
      <4>2. QED BY <1>3, <1>6, <4>1
    <3>3. QED BY <3>1, <3>2
  <2>5. stack'[p] # <<>> => \A c \in Closers : Keeps(stack'[p][1], c) => mf'[c] = p BY <1>2, <1>4
  <2>6. QED BY <1>1, <1>2, <2>1, <2>2, <2>3, <2>4, <2>5, LocksKept
<1>10. ErrorInv'
  <2>1. ErrorsOf(p, stack[p]) BY <1>1 DEF ErrorInv
  <2>2. ErrorsOf(p, stack[p])'
    <3>1. CASE stack[p] = <<>>
      <4>1. Len(stack'[p]) = 1 /\ Len(stack[p]) = 0 BY <1>1, <1>3, <3>1, StackFacts
      <4>2. result[p] = failed[p] BY <2>1, <3>1 DEF ErrorsOf
      <4>3. f.op = "close" => ~failed'[p] BY <1>1 DEF CloserTypes
      <4>4. f.op # "close" => result'[p] = failed'[p] BY <4>2
      <4>5. \A n \in 1..Len(stack'[p]) : n = 1 /\ stack'[p][n] = f BY <1>2, <4>1
      <4>6. stack'[p][1] = f BY <1>2
      <4>7. QED BY <1>8, <4>3, <4>4, <4>5, <4>6 DEF ErrorsOf
    <3>2. CASE stack[p] # <<>>
      <4>1. \A n \in 1..Len(stack[p]) : stack[p][n].op # "close" /\ ~stack[p][n].err
        BY <1>5, <2>1, <3>2 DEF ErrorsOf
      <4>2. \A n \in 1..Len(stack'[p]) : stack'[p][n].op # "close" /\ ~stack'[p][n].err
        <5> SUFFICES ASSUME NEW n \in 1..Len(stack'[p])
                     PROVE  stack'[p][n].op # "close" /\ ~stack'[p][n].err
          OBVIOUS
        <5>1. CASE n = 1 BY <1>2, <1>5, <3>2, <5>1
        <5>2. CASE n # 1
          <6>1. n \in 2..Len(stack'[p]) BY <1>3, <5>2
          <6>2. QED BY <1>3, <4>1, <6>1
        <5>3. QED BY <5>1, <5>2
      <4>3. result[p] = failed[p] BY <1>5, <2>1, <3>2 DEF ErrorsOf
      <4>4. failed' = failed BY <1>5, <3>2
      <4>5. QED BY <1>8, <4>2, <4>3, <4>4 DEF ErrorsOf
    <3>3. QED BY <3>1, <3>2
  <2>3. \A q \in Procs \ {p} : failed'[q] = failed[q] BY <1>1 DEF CloserTypes
  <2>4. QED BY <1>1, <1>2, <2>2, <2>3, ErrorsKept
<1>11. CountInv'
  <2> SUFFICES ASSUME NEW c \in Closers, c \notin raced PROVE CountOf(c)' BY DEF CountInv
  <2>1. CopiesStay(p, -1, c)
    <3>1. ASSUME NEW n \in 1..Len(stack'[p]), InClose(stack'[p][n])
          PROVE  n + -1 \in 1..Len(stack[p]) /\ stack'[p][n] = stack[p][n + -1]
      <4>1. n # 1 BY <1>2, <1>4, <3>1
      <4>2. n \in 2..Len(stack'[p]) BY <1>3, <4>1
      <4>3. QED BY <1>3, <4>2
    <3>2. ASSUME NEW n \in 1..Len(stack[p])
          PROVE  n - -1 \in 1..Len(stack'[p]) /\ stack'[p][n - -1] = stack[p][n]
      <4>1. n - -1 = n + 1 /\ n + 1 \in 2..Len(stack'[p]) /\ (n + 1) + -1 = n BY <1>3
      <4>2. stack'[p][n + 1] = stack[p][(n + 1) + -1] BY <1>3, <4>1
      <4>3. QED BY <1>3, <4>1, <4>2
    <3>3. QED BY <3>1, <3>2 DEF CopiesStay
  <2>2. WritesStay(p, c)
    <3>1. \A l \in Seq(Things) : ~Appending(p, c, l)' /\ ~Adding(p, c, l)'
      BY <1>2, <1>4 DEF Appending, Adding
    <3>2. \A l \in Seq(Things) : ~Appending(p, c, l) /\ ~Adding(p, c, l)
      BY <1>5 DEF Appending, Adding, InAppend, InAdd
    <3>3. QED BY <3>1, <3>2 DEF WritesStay
  <2>3. QED BY <1>1, <1>2, <2>1, <2>2, CountKept
<1>12. QED BY <1>7, <1>9, <1>10, <1>11 DEF CloserIInv

LEMMA NewFrame ==
  ASSUME NEW op \in {"close", "add", "append", "do", "onclosed"}, NEW c \in Closers, NEW x \in Things
  PROVE  LET f == Frame(op, c, x)
         IN  f \in Calling /\ f.at = "start" /\ ~f.err /\ f.op = op /\ f.arg = x /\ f.on = c
<1>1. <<>> \in Seq(Things) BY EmptySeq
<1>2. QED BY <1>1 DEF Frame, Calling

LEMMA CallInv ==
  ASSUME CloserIInv, NEW p \in Procs, NEW c \in Closers,
         NEW op \in {"close", "add", "append", "do", "onclosed"}, NEW x \in Things,
         op = "append" => x \in Closers, Call(p, Frame(op, c, x)), made' \subseteq Things,
         stack[p] = <<>> \/ (Runs(p, "do", "fn") /\ op # "close"),
         failed' = IF op = "close" THEN [failed EXCEPT ![p] = FALSE] ELSE failed
  PROVE  CloserIInv'
<1>1. PICK f \in Calling : f = Frame(op, c, x) /\ f.at = "start" /\ ~f.err /\ f.op = op /\ f.arg = x
  BY NewFrame
<1>2. Push(p, f) /\ UNCHANGED <<fs, closed, mc, mf, result, added, called, raced, callback, told>>
  BY <1>1 DEF Call
<1>3. calls' \in [Procs -> Nat]
  <2>1. calls \in [Procs -> Nat] BY DEF CloserIInv, CloserTypes
  <2>2. calls' = [calls EXCEPT ![p] = @ + 1] BY DEF Call
  <2>3. QED BY ONLY <2>1, <2>2
<1>4. QED BY <1>1, <1>2, <1>3, PushInv

Called(p) == \/ \E c \in Closers : CallClose(p, c) \/ CallDo(p, c) \/ CallOnClosed(p, c)
             \/ \E c \in Closers, x \in Things : CallAdd(p, c, x)
             \/ \E a \in Appends : CallAppend(p, a[1], a[2])

LEMMA CalledInv ==
  ASSUME CloserIInv, NEW p \in Procs, Called(p)
  PROVE  CloserIInv'
<1>1. made \subseteq Things /\ Closers \subseteq Things BY DEF CloserIInv, CloserTypes, Things
<1>2. CASE \E c \in Closers : CallClose(p, c)
  <2>1. PICK c \in Closers : CallClose(p, c) BY <1>2
  <2>2. /\ Call(p, Frame("close", c, c)) /\ made' = made /\ stack[p] = <<>> /\ c \in Things
        /\ failed' = [failed EXCEPT ![p] = FALSE]
    BY <1>1, <2>1 DEF CallClose
  <2>3. QED BY <1>1, <2>2, CallInv
<1>3. CASE \E c \in Closers : CallDo(p, c)
  <2>1. PICK c \in Closers : CallDo(p, c) BY <1>3
  <2>2. Call(p, Frame("do", c, c)) /\ made' = made /\ stack[p] = <<>> /\ c \in Things /\ failed' = failed
    BY <1>1, <2>1 DEF CallDo
  <2>3. QED BY <1>1, <2>2, CallInv
<1>4. CASE \E c \in Closers : CallOnClosed(p, c)
  <2>1. PICK c \in Closers : CallOnClosed(p, c) BY <1>4
  <2>2. Call(p, Frame("onclosed", c, c)) /\ made' = made /\ stack[p] = <<>> /\ c \in Things /\ failed' = failed
    BY <1>1, <2>1 DEF CallOnClosed
  <2>3. QED BY <1>1, <2>2, CallInv
<1>5. CASE \E c \in Closers, x \in Things : CallAdd(p, c, x)
  <2>1. PICK c \in Closers, x \in Things : CallAdd(p, c, x) BY <1>5
  <2>2. /\ Call(p, Frame("add", c, x)) /\ made' \subseteq Things /\ failed' = failed
        /\ stack[p] = <<>> \/ Runs(p, "do", "fn")
    BY <1>1, <2>1 DEF CallAdd
  <2>3. QED BY <2>2, CallInv
<1>6. CASE \E a \in Appends : CallAppend(p, a[1], a[2])
  <2>1. PICK a \in Appends : CallAppend(p, a[1], a[2]) BY <1>6
  <2>2. a[1] \in Closers /\ a[2] \in Closers /\ a[2] \in Things BY <1>1, CloserAssumption
  <2>3. Call(p, Frame("append", a[1], a[2])) /\ made' = made /\ failed' = failed /\ stack[p] = <<>>
    BY <2>1 DEF CallAppend
  <2>4. QED BY <1>1, <2>2, <2>3, CallInv
<1>7. QED BY <1>2, <1>3, <1>4, <1>5, <1>6 DEF Called

-----------------------------------------------------------------------------
\* What the mutexes say about the other goroutines.
LEMMA ClosingIs ==
  ASSUME CloserTypes, NEW c \in Closers
  PROVE  Closing(c) = {} <=> NoCall(c)
<1>1. ASSUME NEW p \in Closing(c) PROVE ~NoCall(c)
  <2>1. PICK f \in Frames(p) : f.op = "close" /\ f.on = c /\ f.at = "call" BY <1>1 DEF Closing
  <2>2. p \in Procs BY DEF Closing
  <2>3. stack[p] \in Seq(Calling) BY <2>2, StackFacts
  <2>4. PICK n \in 1..Len(stack[p]) : stack[p][n] = f BY <2>1, <2>3 DEF Frames, ToSet
  <2>5. f.left \in Seq(Things) BY <2>2, <2>4, StackFacts DEF Calling
  <2>6. InCall(p, c, f.left) BY <2>1, <2>4 DEF InCall, InClose
  <2>7. QED BY <2>2, <2>5, <2>6 DEF NoCall
<1>2. ASSUME NEW p \in Procs, NEW l \in Seq(Things), InCall(p, c, l) PROVE p \in Closing(c)
  <2>1. PICK n \in 1..Len(stack[p]) : InClose(stack[p][n]) /\ stack[p][n].on = c BY <1>2 DEF InCall
  <2>2. stack[p] \in Seq(Calling) BY StackFacts
  <2>3. stack[p][n] \in Frames(p) BY <2>1, <2>2 DEF Frames, ToSet
  <2>4. QED BY <2>1, <2>3 DEF Closing, InClose
<1>3. QED BY <1>1, <1>2 DEF NoCall

\* Who has one of the mutexes mf of c is alone to change its funcs.
LEMMA WritersKeep ==
  ASSUME CloserTypes, LockInv, NEW q \in Procs, NEW c \in Closers, NEW l \in Seq(Things),
         Appending(q, c, l) \/ Adding(q, c, l)
  PROVE  mf[c] = q
BY DEF LockInv, StackOf, Appending, Adding, Keeps

\* Who has mc of c is alone to call its funcs.
LEMMA OneClose ==
  ASSUME CloserTypes, LockInv, NEW p \in Procs, NEW n \in 1..Len(stack[p]), Holds(stack[p][n]),
         NEW q \in Procs, NEW c \in Closers, c = stack[p][n].on, NEW l \in Seq(Things), InCall(q, c, l)
  PROVE  q = p /\ InClose(stack[p][n]) /\ stack[p][n].left = l
<1>1. PICK m \in 1..Len(stack[q]) : InClose(stack[q][m]) /\ stack[q][m].on = c /\ stack[q][m].left = l
  BY DEF InCall
<1>2. Holds(stack[q][m]) BY <1>1 DEF Holds
<1>3. mc[c] = p /\ mc[c] = q BY <1>1, <1>2 DEF LockInv, StackOf
<1>4. m = n BY <1>1, <1>2, <1>3 DEF LockInv, StackOf
<1>5. QED BY <1>1, <1>3, <1>4

\* The innermost call goes on, on the same closer.
LEMMA ReplaceKeeps ==
  ASSUME CloserIInv, NEW p \in Procs, stack[p] # <<>>, NEW g \in Calling, Becomes(p, g),
         g.op = Top(p).op, g.on = Top(p).on, g.arg = Top(p).arg, ~InDo(g), Holds(g) => Holds(Top(p)),
         \A c \in Closers : mf'[c] = mf[c] \/ mf[c] = NoOne, \A c \in Closers : Keeps(g, c) => mf'[c] = p,
         UNCHANGED <<mc, closed>>
  PROVE  /\ Moved(p, 2, 0) /\ stack'[p][1] = g /\ LockInv'
         /\ \A c \in Closers : c # g.on \/ (~InClose(Top(p)) /\ ~InClose(g)) => CopiesStay(p, 0, c)
<1>1. CloserTypes /\ LockInv BY DEF CloserIInv
<1>2. Top(p) = stack[p][1] /\ Top(p) \in Calling /\ Len(stack[p]) \in Nat \ {0} BY <1>1, TopFacts
<1>3. Moved(p, 2, 0) /\ stack'[p][1] = g BY <1>1, BecomesMoves
<1>4. Len(stack'[p]) = Len(stack[p]) /\ \A n \in 2..Len(stack[p]) : stack'[p][n] = stack[p][n]
  BY <1>2, <1>3 DEF Moved
<1>5. LockInv'
  <2>1. OnlyMine(p) BY DEF OnlyMine
  <2>2. ASSUME NEW n \in 1..Len(stack'[p]), Holds(stack'[p][n])
        PROVE  HeldBefore(p, 0, stack'[p][n], n)
    <3>1. n + 0 = n /\ n \in 1..Len(stack[p]) BY <1>2, <1>4
    <3>2. CASE n = 1 BY <1>2, <1>3, <2>2, <3>1, <3>2 DEF HeldBefore
    <3>3. CASE n # 1 BY <1>4, <2>2, <3>1, <3>3 DEF HeldBefore
    <3>4. QED BY <3>2, <3>3
  <2>3. \A n \in 2..Len(stack'[p]) : InDo(stack'[p][n]) \/ InClose(stack'[p][n]) BY <1>1, <1>4, Below
  <2>4. \A n \in 1..Len(stack'[p]) : stack'[p][n].op = "append" => stack'[p][n].arg \in Closers
    <3>1. g.op = "append" => g.arg \in Closers
      <4>1. 1 \in 1..Len(stack[p]) BY <1>2
      <4>2. stack[p][1].op = "append" => stack[p][1].arg \in Closers BY <1>1, <4>1, Below
      <4>3. QED BY <1>2, <4>2
    <3>2. QED BY <1>1, <1>2, <1>3, <1>4, <3>1, Below
  <2>5. stack'[p] # <<>> => \A c \in Closers : Keeps(stack'[p][1], c) => mf'[c] = p BY <1>3
  <2>6. QED BY <1>1, <1>3, <2>1, <2>2, <2>3, <2>4, <2>5, LocksKept
<1>6. ASSUME NEW c \in Closers, c # g.on \/ (~InClose(Top(p)) /\ ~InClose(g)) PROVE CopiesStay(p, 0, c)
  <2>1. ASSUME NEW n \in 1..Len(stack[p])
        PROVE n + 0 = n /\ n - 0 = n /\ n \in 1..Len(stack'[p]) /\ (n # 1 => stack'[p][n] = stack[p][n])
    BY <1>2, <1>4
  <2>2. QED BY <1>2, <1>3, <1>4, <1>6, <2>1 DEF CopiesStay
<1>7. QED BY <1>3, <1>5, <1>6

\* What is counted for the other closers stays.
LEMMA OtherCount ==
  ASSUME CloserIInv, NEW p \in Procs, NEW j \in Nat, NEW k \in {-1, 0, 1}, Moved(p, j, k), stack[p] # <<>>,
         NEW c \in Closers, c # Top(p).on, raced \subseteq raced', c \notin raced', CopiesStay(p, k, c),
         fs'[c] = fs[c], added'[c] = added[c], called'[c] = called[c],
         \A l \in Seq(Things) : ~Appending(p, c, l)' /\ ~Adding(p, c, l)'
  PROVE  CountOf(c)'
<1>1. CloserTypes /\ CountInv BY DEF CloserIInv
<1>2. WritesStay(p, c) BY <1>1, TopFacts DEF WritesStay, Appending, Adding
<1>3. QED BY <1>1, <1>2, CountKept

-----------------------------------------------------------------------------
\* Add and Append.
LEMMA RaceIs ==
  ASSUME CloserTypes, NEW c \in Closers, raced' = Race(c)
  PROVE  /\ raced \subseteq raced' /\ raced' \subseteq Closers
         /\ c \notin raced' => NoCall(c)
BY ClosingIs DEF Race, CloserTypes

LEMMA CountAdds ==
  ASSUME CloserTypes, NEW c \in Closers, NEW l \in Seq(Things), added' = Count(added, c, l)
  PROVE  /\ added' \in [Closers -> [Things -> Nat]]
         /\ \A d \in Closers : d # c => added'[d] = added[d]
         /\ \A x \in Things : added'[c][x] = added[c][x] + Copies(l, x)
<1>1. \A x \in Things : Copies(l, x) \in Nat BY CopiesNat
<1>2. added \in [Closers -> [Things -> Nat]] BY DEF CloserTypes
<1>3. added' = [added EXCEPT ![c] = [x \in Things |-> added[c][x] + Copies(l, x)]] BY DEF Count
<1>4. [x \in Things |-> added[c][x] + Copies(l, x)] \in [Things -> Nat] BY <1>1, <1>2
<1>5. QED BY <1>2, <1>3, <1>4

\* When nobody holds a mutex mf of c, or p alone does, the funcs of c are what is owed.
LEMMA OwedFuncs ==
  ASSUME CloserIInv, NEW p \in Procs, NEW c \in Closers, c \notin raced, NoCall(c), mf[c] \in {NoOne, p},
         \A l \in Seq(Things) : ~Appending(p, c, l)
  PROVE  Owed(c, fs[c]) /\ NoAppend(c)
<1>1. CloserTypes /\ LockInv /\ CountInv BY DEF CloserIInv
<1>2. CountOf(c) BY <1>1 DEF CountInv
<1>3. NoAppend(c)
  <2> SUFFICES ASSUME NEW q \in Procs, NEW l \in Seq(Things), Appending(q, c, l) PROVE FALSE BY DEF NoAppend
  <2>1. mf[c] = q BY <1>1, WritersKeep
  <2>2. q # NoOne BY CloserAssumption
  <2>3. QED BY <2>1, <2>2
<1>4. QED BY <1>2, <1>3 DEF CountOf

LEMMA OnlyOwn ==
  ASSUME CloserTypes, LockInv, NEW p \in Procs, NEW j \in Nat, NEW k \in {-1, 0, 1}, Moved(p, j, k),
         NEW c \in Closers, mf[c] \in {NoOne, p}
  PROVE  \A q \in Procs \ {p}, l \in Seq(Things) : ~Appending(q, c, l)' /\ ~Adding(q, c, l)'
<1> SUFFICES ASSUME NEW q \in Procs \ {p}, NEW l \in Seq(Things)
             PROVE  ~Appending(q, c, l)' /\ ~Adding(q, c, l)'
  OBVIOUS
<1>1. q # NoOne BY CloserAssumption
<1>2. ~Appending(q, c, l) /\ ~Adding(q, c, l) BY <1>1, WritersKeep
<1>3. QED BY <1>2, OthersStay

LEMMA AddReadInv == CloserIInv /\ (\E p \in Procs : AddRead(p)) => CloserIInv'
<1> SUFFICES ASSUME CloserIInv, NEW p \in Procs, AddRead(p) PROVE CloserIInv' OBVIOUS
<1>1. CloserTypes /\ LockInv /\ ErrorInv /\ CountInv BY DEF CloserIInv
<1>2. stack[p] # <<>> /\ Top(p).op = "add" /\ Top(p).at = "start" BY DEF AddRead, Runs
<1>3. Top(p) = stack[p][1] /\ Top(p) \in Calling BY <1>1, <1>2, TopFacts
<1>4. PICK c \in Closers : c = Top(p).on BY <1>3 DEF Calling
<1>5. PICK g \in Calling : /\ g = [Top(p) EXCEPT !.at = "write", !.left = fs[c]]
                          /\ g.op = Top(p).op /\ g.at = "write" /\ g.on = Top(p).on /\ g.arg = Top(p).arg
                          /\ g.err = Top(p).err /\ g.left = fs[c]
  <2>1. fs[c] \in Seq(Things) BY <1>1 DEF CloserTypes
  <2> DEFINE h == [Top(p) EXCEPT !.at = "write", !.left = fs[c]]
  <2>2. /\ h \in Calling /\ h.op = Top(p).op /\ h.at = "write" /\ h.on = Top(p).on /\ h.arg = Top(p).arg
        /\ h.err = Top(p).err /\ h.left = fs[c]
    BY <1>3, <2>1 DEF Calling
  <2> HIDE DEF h
  <2>3. QED BY <2>2 DEF h
<1>6. /\ mf[c] = NoOne /\ mf' = [mf EXCEPT ![c] = p] /\ Becomes(p, g) /\ raced' = Race(c)
      /\ UNCHANGED <<fs, closed, mc, calls, made, result, failed, added, called, callback, told>>
  BY <1>4, <1>5 DEF AddRead, Lock
<1>7. ~InDo(g) /\ ~Holds(g) /\ ~InClose(g) /\ ~InClose(Top(p)) /\ InAdd(g) /\ ~InAppend(g)
  BY <1>2, <1>5 DEF InDo, Holds, InClose, InAdd, InAppend
<1>8. \A d \in Closers : Keeps(g, d) => d = c BY <1>2, <1>4, <1>5, <1>7 DEF Keeps
<1>9. mf'[c] = p /\ \A d \in Closers : d # c => mf'[d] = mf[d] BY <1>1, <1>3, <1>6 DEF CloserTypes
<1>10. Moved(p, 2, 0) /\ stack'[p][1] = g /\ LockInv' /\ \A d \in Closers : CopiesStay(p, 0, d)
  <2>1. \A d \in Closers : mf'[d] = mf[d] \/ mf[d] = NoOne BY <1>6, <1>9
  <2>2. \A d \in Closers : Keeps(g, d) => mf'[d] = p BY <1>8, <1>9
  <2>3. g.op = Top(p).op /\ g.on = Top(p).on /\ g.arg = Top(p).arg BY <1>2, <1>4, <1>5
  <2>4. QED BY <1>2, <1>5, <1>6, <1>7, <2>1, <2>2, <2>3, ReplaceKeeps
<1>11. raced \subseteq raced' /\ raced' \subseteq Closers /\ (c \notin raced' => NoCall(c))
  BY <1>1, <1>3, <1>6, RaceIs
<1>12. CloserTypes'
  <2>1. mf' \in [Closers -> Procs \cup {NoOne}] BY <1>1, <1>3, <1>6 DEF CloserTypes
  <2>2. QED BY <1>1, <1>6, <1>10, <1>11, <2>1 DEF CloserTypes, Moved
<1>13. ErrorInv' BY <1>1, <1>2, <1>3, <1>5, <1>6, <1>10, ErrorsSame
<1>14. \A d \in Closers, l \in Seq(Things) : ~Appending(p, d, l)' BY <1>7, <1>10 DEF Appending
<1>15. \A d \in Closers, l \in Seq(Things) : Adding(p, d, l)' => d = c /\ l = fs[c]
  BY <1>4, <1>5, <1>10 DEF Adding
<1>16. CountInv'
  <2> SUFFICES ASSUME NEW d \in Closers, d \notin raced' PROVE CountOf(d)' BY DEF CountInv
  <2>1. CASE d # c
    <3>1. \A l \in Seq(Things) : ~Appending(p, d, l)' /\ ~Adding(p, d, l)' BY <1>14, <1>15, <2>1
    <3>2. d # Top(p).on BY <1>4, <2>1
    <3>3. QED BY <1>2, <1>6, <1>10, <1>11, <3>1, <3>2, OtherCount
  <2>2. CASE d = c
    <3>1. c \notin raced /\ NoCall(c) BY <1>11, <2>2
    <3>2. \A l \in Seq(Things) : ~Appending(p, c, l) BY <1>2, <1>3 DEF Appending, InAppend
    <3>3. Owed(c, fs[c]) BY <1>6, <3>1, <3>2, OwedFuncs
    <3>4. Owed(c, fs[c])' BY <1>6, <3>3 DEF Owed
    <3>5. NoCall(c)' BY <1>1, <1>10, <3>1, CopiesStayed DEF NoCall, CallsStay
    <3>6. \A q \in Procs \ {p}, l \in Seq(Things) : ~Appending(q, c, l)' /\ ~Adding(q, c, l)'
      BY <1>1, <1>6, <1>10, OnlyOwn
    <3>7. \A q \in Procs, l \in Seq(Things) : ~Appending(q, c, l)' BY <1>14, <3>6 DEF Appending
    <3>8. \A q \in Procs, l \in Seq(Things) : Adding(q, c, l)' => l = fs'[c]
      BY <1>6, <1>15, <3>6 DEF Adding
    <3>9. CountOf(c)' BY <3>4, <3>5, <3>7, <3>8 DEF CountOf, NoCall
    <3>10. QED BY ONLY <2>2, <3>9
  <2>3. QED BY <2>1, <2>2
<1>17. QED BY <1>10, <1>12, <1>13, <1>16 DEF CloserIInv

LEMMA AddWriteInv == CloserIInv /\ (\E p \in Procs : AddWrite(p)) => CloserIInv'
<1> SUFFICES ASSUME CloserIInv, NEW p \in Procs, AddWrite(p) PROVE CloserIInv' OBVIOUS
<1>1. CloserTypes /\ LockInv /\ ErrorInv /\ CountInv BY DEF CloserIInv
<1>2. stack[p] # <<>> /\ Top(p).op = "add" /\ Top(p).at = "write" BY DEF AddWrite, Runs
<1>3. Top(p) = stack[p][1] /\ Top(p) \in Calling BY <1>1, <1>2, TopFacts
<1>4. PICK c \in Closers, x \in Things, l \in Seq(Things) : c = Top(p).on /\ x = Top(p).arg /\ l = Top(p).left
  BY <1>3 DEF Calling
<1>5. /\ fs' = [fs EXCEPT ![c] = <<x>> \o l] /\ added' = Count(added, c, <<x>>)
      /\ mf' = [mf EXCEPT ![c] = NoOne] /\ Pop(p) /\ raced' = Race(c)
      /\ UNCHANGED <<closed, mc, calls, made, result, failed, called, callback, told>>
  BY <1>4 DEF AddWrite, Unlock
<1>6. Adding(p, c, l) /\ mf[c] = p
  <2>1. Adding(p, c, l) BY <1>2, <1>3, <1>4 DEF Adding, InAdd
  <2>2. QED BY <1>1, <2>1, WritersKeep
<1>7. <<x>> \in Seq(Things) /\ <<x>> \o l \in Seq(Things) BY Put
<1>8. /\ mf' \in [Closers -> Procs \cup {NoOne}] /\ fs' \in [Closers -> Seq(Things)] /\ fs'[c] = <<x>> \o l
      /\ \A d \in Closers : d # c => mf'[d] = mf[d] /\ fs'[d] = fs[d]
  BY <1>1, <1>5, <1>7 DEF CloserTypes
<1>9. /\ added' \in [Closers -> [Things -> Nat]] /\ \A d \in Closers : d # c => added'[d] = added[d]
      /\ \A y \in Things : added'[c][y] = added[c][y] + Copies(<<x>>, y)
  BY <1>1, <1>5, <1>7, CountAdds
<1>10. /\ Moved(p, 1, 1) /\ LockInv' /\ ErrorInv' /\ \A d \in Closers : CopiesStay(p, 1, d)
       /\ \A d \in Closers, k \in Seq(Things) : ~Appending(p, d, k)' /\ ~Adding(p, d, k)'
  <2>1. \A d \in Closers : mf'[d] = mf[d] \/ mf[d] = p BY <1>6, <1>8
  <2>2. QED BY <1>2, <1>5, <2>1, PopKeeps
<1>11. raced \subseteq raced' /\ raced' \subseteq Closers /\ (c \notin raced' => NoCall(c))
  BY <1>1, <1>5, RaceIs
<1>12. CloserTypes' BY <1>1, <1>5, <1>8, <1>9, <1>10, <1>11 DEF CloserTypes, Moved
<1>13. CountInv'
  <2> SUFFICES ASSUME NEW d \in Closers, d \notin raced' PROVE CountOf(d)' BY DEF CountInv
  <2>1. CASE d # c
    <3>1. fs'[d] = fs[d] /\ added'[d] = added[d] /\ called'[d] = called[d] BY <1>5, <1>8, <1>9, <2>1
    <3>2. QED BY <1>2, <1>4, <1>10, <1>11, <2>1, <3>1, OtherCount
  <2>2. CASE d = c
    <3>1. c \notin raced /\ NoCall(c) BY <1>11, <2>2
    <3>2. \A k \in Seq(Things) : ~Appending(p, c, k) BY <1>2, <1>3 DEF Appending, InAppend
    <3>3. Owed(c, fs[c]) BY <1>6, <3>1, <3>2, OwedFuncs
    <3>4. l = fs[c]
      <4>1. CountOf(c) BY <1>1, <3>1 DEF CountInv
      <4>2. QED BY <1>6, <4>1 DEF CountOf
    <3>5. Owed(c, fs[c])'
      <4> SUFFICES ASSUME NEW y \in Things PROVE added'[c][y] = called'[c][y] + Copies(fs'[c], y) BY DEF Owed
      <4>1. added[c][y] = called[c][y] + Copies(l, y) BY <3>3, <3>4 DEF Owed
      <4>2. Copies(fs'[c], y) = Copies(<<x>>, y) + Copies(l, y)
        <5>1. PICK h \in Seq(Things) : h = <<x>> BY <1>7
        <5>2. Copies(h \o l, y) = Copies(h, y) + Copies(l, y) BY CopiesConcat
        <5>3. QED BY ONLY <1>8, <5>1, <5>2
      <4>3. Copies(<<x>>, y) \in Nat /\ Copies(l, y) \in Nat BY <1>7, CopiesNat
      <4>4. called[c][y] \in Nat /\ called'[c][y] = called[c][y] BY <1>1, <1>5 DEF CloserTypes
      <4>5. added'[c][y] = added[c][y] + Copies(<<x>>, y) BY <1>9
      <4>6. QED BY ONLY <4>1, <4>2, <4>3, <4>4, <4>5
    <3>6. NoCall(c)' BY <1>1, <1>10, <3>1, CopiesStayed DEF NoCall, CallsStay
    <3>7. \A q \in Procs \ {p}, k \in Seq(Things) : ~Appending(q, c, k)' /\ ~Adding(q, c, k)'
      BY <1>1, <1>6, <1>10, OnlyOwn
    <3>8. \A q \in Procs, k \in Seq(Things) : ~Appending(q, c, k)' /\ ~Adding(q, c, k)'
      BY <1>10, <3>7 DEF Appending, Adding
    <3>9. CountOf(c)' BY <3>5, <3>6, <3>8 DEF CountOf, NoCall
    <3>10. QED BY ONLY <2>2, <3>9
  <2>3. QED BY <2>1, <2>2
<1>14. QED BY <1>10, <1>12, <1>13 DEF CloserIInv

LEMMA AppendWriteInv == CloserIInv /\ (\E p \in Procs : AppendWrite(p)) => CloserIInv'
<1> SUFFICES ASSUME CloserIInv, NEW p \in Procs, AppendWrite(p) PROVE CloserIInv' OBVIOUS
<1>1. CloserTypes /\ LockInv /\ ErrorInv /\ CountInv BY DEF CloserIInv
<1>2. stack[p] # <<>> /\ Top(p).op = "append" /\ Top(p).at = "write" BY DEF AppendWrite, Runs
<1>3. Top(p) = stack[p][1] /\ Top(p) \in Calling /\ 1 \in 1..Len(stack[p]) BY <1>1, <1>2, TopFacts
<1>4. PICK c \in Closers, x \in Closers, l \in Seq(Things) : c = Top(p).on /\ x = Top(p).arg /\ l = Top(p).left
  <2>1. Top(p).arg \in Closers BY <1>1, <1>2, <1>3, Below
  <2>2. QED BY <1>3, <2>1 DEF Calling
<1>5. /\ fs' = [fs EXCEPT ![c] = l] /\ mf' = [mf EXCEPT ![c] = NoOne, ![x] = NoOne] /\ Pop(p) /\ raced' = Race(c)
      /\ UNCHANGED <<closed, mc, calls, made, result, failed, added, called, callback, told>>
  BY <1>4 DEF AppendWrite
<1>6. Appending(p, c, l) /\ mf[c] = p /\ mf[x] = p
  <2>1. Appending(p, c, l) BY <1>2, <1>3, <1>4 DEF Appending, InAppend
  <2>2. mf[x] = p BY <1>1, <1>2, <1>3, <1>4 DEF LockInv, StackOf, Keeps, InAppend
  <2>3. QED BY <1>1, <2>1, <2>2, WritersKeep
<1>7. /\ mf' \in [Closers -> Procs \cup {NoOne}] /\ fs' \in [Closers -> Seq(Things)] /\ fs'[c] = l
      /\ \A d \in Closers : (d # c => fs'[d] = fs[d]) /\ (d \notin {c, x} => mf'[d] = mf[d])
  BY <1>1, <1>5 DEF CloserTypes
<1>8. /\ Moved(p, 1, 1) /\ LockInv' /\ ErrorInv' /\ \A d \in Closers : CopiesStay(p, 1, d)
      /\ \A d \in Closers, k \in Seq(Things) : ~Appending(p, d, k)' /\ ~Adding(p, d, k)'
  <2>1. \A d \in Closers : mf'[d] = mf[d] \/ mf[d] = p BY <1>6, <1>7
  <2>2. QED BY <1>2, <1>5, <2>1, PopKeeps
<1>9. raced \subseteq raced' /\ raced' \subseteq Closers /\ (c \notin raced' => NoCall(c))
  BY <1>1, <1>5, RaceIs
<1>10. CloserTypes' BY <1>1, <1>5, <1>7, <1>8, <1>9 DEF CloserTypes, Moved
<1>11. CountInv'
  <2> SUFFICES ASSUME NEW d \in Closers, d \notin raced' PROVE CountOf(d)' BY DEF CountInv
  <2>1. CASE d # c
    <3>1. fs'[d] = fs[d] /\ added'[d] = added[d] /\ called'[d] = called[d] BY <1>5, <1>7, <2>1
    <3>2. QED BY <1>2, <1>4, <1>8, <1>9, <2>1, <3>1, OtherCount
  <2>2. CASE d = c
    <3>1. c \notin raced /\ NoCall(c) BY <1>9, <2>2
    <3>2. Owed(c, l)
      <4>1. CountOf(c) BY <1>1, <3>1 DEF CountInv
      <4>2. QED BY <1>6, <4>1 DEF CountOf
    <3>3. Owed(c, fs[c])' BY <1>5, <1>7, <3>2 DEF Owed
    <3>4. NoCall(c)' BY <1>1, <1>8, <3>1, CopiesStayed DEF NoCall, CallsStay
    <3>5. \A q \in Procs \ {p}, k \in Seq(Things) : ~Appending(q, c, k)' /\ ~Adding(q, c, k)'
      BY <1>1, <1>6, <1>8, OnlyOwn
    <3>6. \A q \in Procs, k \in Seq(Things) : ~Appending(q, c, k)' /\ ~Adding(q, c, k)'
      BY <1>8, <3>5 DEF Appending, Adding
    <3>7. CountOf(c)' BY <3>3, <3>4, <3>6 DEF CountOf, NoCall
    <3>8. QED BY ONLY <2>2, <3>7
  <2>3. QED BY <2>1, <2>2
<1>12. QED BY <1>8, <1>10, <1>11 DEF CloserIInv

LEMMA AppendReadInv == CloserIInv /\ (\E p \in Procs : AppendRead(p)) => CloserIInv'
<1> SUFFICES ASSUME CloserIInv, NEW p \in Procs, AppendRead(p) PROVE CloserIInv' OBVIOUS
<1>1. CloserTypes /\ LockInv /\ ErrorInv /\ CountInv BY DEF CloserIInv
<1>2. stack[p] # <<>> /\ Top(p).op = "append" /\ Top(p).at = "second" BY DEF AppendRead, Runs
<1>3. Top(p) = stack[p][1] /\ Top(p) \in Calling /\ 1 \in 1..Len(stack[p]) BY <1>1, <1>2, TopFacts
<1>4. PICK c \in Closers, x \in Closers : c = Top(p).on /\ x = Top(p).arg
  <2>1. Top(p).arg \in Closers BY <1>1, <1>2, <1>3, Below
  <2>2. QED BY <1>3, <2>1 DEF Calling
<1>5. fs[c] \in Seq(Things) /\ fs[x] \in Seq(Things) /\ fs[c] \o fs[x] \in Seq(Things)
  <2>1. fs[c] \in Seq(Things) /\ fs[x] \in Seq(Things) BY <1>1 DEF CloserTypes
  <2>2. QED BY <2>1, ConcatProperties
<1>6. PICK l \in Seq(Things), m \in Seq(Things) : l = fs[c] \o fs[x] /\ m = fs[x] BY <1>5
<1>7. PICK g \in Calling : /\ g = [Top(p) EXCEPT !.at = "write", !.left = l]
                          /\ g.op = Top(p).op /\ g.at = "write" /\ g.on = Top(p).on /\ g.arg = Top(p).arg
                          /\ g.err = Top(p).err /\ g.left = l
  <2> DEFINE h == [Top(p) EXCEPT !.at = "write", !.left = l]
  <2>1. /\ h \in Calling /\ h.op = Top(p).op /\ h.at = "write" /\ h.on = Top(p).on /\ h.arg = Top(p).arg
        /\ h.err = Top(p).err /\ h.left = l
    BY <1>3 DEF Calling
  <2> HIDE DEF h
  <2>2. QED BY <2>1 DEF h
<1>8. /\ mf[x] = NoOne /\ mf' = [mf EXCEPT ![x] = p] /\ Becomes(p, g) /\ raced' = Race(c)
      /\ added' = Count(added, c, m)
      /\ UNCHANGED <<fs, closed, mc, calls, made, result, failed, called, callback, told>>
  BY <1>4, <1>6, <1>7 DEF AppendRead, Lock
<1>9. mf[c] = p BY <1>1, <1>2, <1>3, <1>4 DEF LockInv, StackOf, Keeps
<1>10. ~InDo(g) /\ ~Holds(g) /\ ~InClose(g) /\ ~InClose(Top(p)) /\ ~InAdd(g) /\ InAppend(g)
  BY <1>2, <1>7 DEF InDo, Holds, InClose, InAdd, InAppend
<1>11. \A d \in Closers : Keeps(g, d) => d \in {c, x} BY <1>4, <1>7, <1>10 DEF Keeps
<1>12. /\ mf' \in [Closers -> Procs \cup {NoOne}] /\ mf'[x] = p /\ mf'[c] = p
       /\ \A d \in Closers : d # x => mf'[d] = mf[d]
  BY <1>1, <1>8, <1>9 DEF CloserTypes
<1>13. Moved(p, 2, 0) /\ stack'[p][1] = g /\ LockInv' /\ \A d \in Closers : CopiesStay(p, 0, d)
  <2>1. \A d \in Closers : mf'[d] = mf[d] \/ mf[d] = NoOne BY <1>8, <1>12
  <2>2. \A d \in Closers : Keeps(g, d) => mf'[d] = p BY <1>11, <1>12
  <2>3. g.op = Top(p).op /\ g.on = Top(p).on /\ g.arg = Top(p).arg BY <1>7
  <2>4. QED BY <1>2, <1>8, <1>10, <2>1, <2>2, <2>3, ReplaceKeeps
<1>14. raced \subseteq raced' /\ raced' \subseteq Closers /\ (c \notin raced' => NoCall(c))
  BY <1>1, <1>8, RaceIs
<1>15. /\ added' \in [Closers -> [Things -> Nat]] /\ \A d \in Closers : d # c => added'[d] = added[d]
       /\ \A y \in Things : added'[c][y] = added[c][y] + Copies(m, y)
  BY <1>1, <1>8, CountAdds
<1>16. CloserTypes' BY <1>1, <1>8, <1>12, <1>13, <1>14, <1>15 DEF CloserTypes, Moved
<1>17. ErrorInv' BY <1>1, <1>2, <1>3, <1>7, <1>8, <1>13, ErrorsSame
<1>18. \A d \in Closers, k \in Seq(Things) : ~Adding(p, d, k)' BY <1>10, <1>13 DEF Adding
<1>19. \A d \in Closers, k \in Seq(Things) : Appending(p, d, k)' => d = c /\ k = l
  BY <1>4, <1>7, <1>13 DEF Appending
<1>20. CountInv'
  <2> SUFFICES ASSUME NEW d \in Closers, d \notin raced' PROVE CountOf(d)' BY DEF CountInv
  <2>1. CASE d # c
    <3>1. \A k \in Seq(Things) : ~Appending(p, d, k)' /\ ~Adding(p, d, k)' BY <1>18, <1>19, <2>1
    <3>2. d # Top(p).on /\ added'[d] = added[d] BY <1>4, <1>15, <2>1
    <3>3. QED BY <1>2, <1>8, <1>13, <1>14, <3>1, <3>2, OtherCount
  <2>2. CASE d = c
    <3>1. c \notin raced /\ NoCall(c) BY <1>14, <2>2
    <3>2. \A k \in Seq(Things) : ~Appending(p, c, k) BY <1>2, <1>3 DEF Appending, InAppend
    <3>3. Owed(c, fs[c]) BY <1>9, <3>1, <3>2, OwedFuncs
    <3>4. Owed(c, l)'
      <4> SUFFICES ASSUME NEW y \in Things PROVE added'[c][y] = called'[c][y] + Copies(l, y) BY DEF Owed
      <4>1. added[c][y] = called[c][y] + Copies(fs[c], y) BY <3>3 DEF Owed
      <4>2. Copies(l, y) = Copies(fs[c], y) + Copies(m, y) BY <1>5, <1>6, CopiesConcat
      <4>3. Copies(fs[c], y) \in Nat /\ Copies(m, y) \in Nat BY <1>5, <1>6, CopiesNat
      <4>4. called[c][y] \in Nat /\ called'[c][y] = called[c][y] BY <1>1, <1>8 DEF CloserTypes
      <4>5. added'[c][y] = added[c][y] + Copies(m, y) BY <1>15
      <4>6. QED BY ONLY <4>1, <4>2, <4>3, <4>4, <4>5
    <3>5. NoCall(c)' BY <1>1, <1>13, <3>1, CopiesStayed DEF NoCall, CallsStay
    <3>6. \A q \in Procs \ {p}, k \in Seq(Things) : ~Appending(q, c, k)' /\ ~Adding(q, c, k)'
      BY <1>1, <1>9, <1>13, OnlyOwn
    <3>7. \A q \in Procs, k \in Seq(Things) : ~Adding(q, c, k)' BY <1>18, <3>6 DEF Adding
    <3>8. \A q \in Procs, k \in Seq(Things) : Appending(q, c, k)' => k = l BY <1>19, <3>6 DEF Appending
    <3>9. ~NoAppend(c)'
      <4>1. stack'[p] # <<>>
        <5>1. Len(stack'[p]) = Len(stack[p]) /\ stack'[p] \in Seq(Calling) BY <1>1, <1>13, StackFacts DEF Moved
        <5>2. QED BY <1>1, <1>2, <5>1, StackFacts, EmptySeq
      <4>2. Appending(p, c, l)' BY <1>4, <1>7, <1>10, <1>13, <4>1 DEF Appending
      <4>3. QED BY <4>2 DEF NoAppend
    <3>10. \A q \in Procs, k \in Seq(Things) : Appending(q, c, k)' => Owed(c, k)' BY <3>4, <3>8 DEF Owed
    <3>11. CountOf(c)' BY <3>5, <3>7, <3>9, <3>10 DEF CountOf, NoCall
    <3>12. QED BY ONLY <2>2, <3>11
  <2>3. QED BY <2>1, <2>2
<1>21. QED BY <1>13, <1>16, <1>17, <1>20 DEF CloserIInv

-----------------------------------------------------------------------------
\* Close.
LEMMA TopAlone ==
  ASSUME CloserTypes, LockInv, NEW p \in Procs, stack[p] # <<>>, Holds(Top(p)), NEW c \in Closers, c = Top(p).on
  PROVE  /\ mc[c] = p
         /\ \A q \in Procs \ {p}, l \in Seq(Things) : ~InCall(q, c, l)
         /\ \A n \in 2..Len(stack[p]) : Holds(stack[p][n]) => stack[p][n].on # c
<1>1. Top(p) = stack[p][1] /\ 1 \in 1..Len(stack[p]) /\ Len(stack[p]) \in Nat BY TopFacts
<1>2. mc[c] = p BY <1>1, Below
<1>3. \A q \in Procs \ {p}, l \in Seq(Things) : ~InCall(q, c, l) BY <1>1, OneClose
<1>4. ASSUME NEW n \in 2..Len(stack[p]), Holds(stack[p][n]), stack[p][n].on = c PROVE FALSE
  <2>1. n \in 1..Len(stack[p]) /\ n # 1 BY <1>1
  <2>2. n = 1 BY <1>1, <1>4, <2>1 DEF LockInv, StackOf
  <2>3. QED BY <2>1, <2>2
<1>5. QED BY <1>2, <1>3, <1>4

\* While p calls the funcs of c nobody is about to change them, or c has raced.
LEMMA NoWrites ==
  ASSUME CloserIInv, NEW p \in Procs, stack[p] # <<>>, InClose(Top(p)), NEW c \in Closers, c = Top(p).on,
         c \notin raced, NEW j \in Nat, NEW k \in {-1, 0, 1}, Moved(p, j, k)
  PROVE  /\ Owed(c, Top(p).left)
         /\ \A q \in Procs \ {p}, l \in Seq(Things) : ~Appending(q, c, l)' /\ ~Adding(q, c, l)'
         /\ \A q \in Procs \ {p}, l \in Seq(Things) : ~InCall(q, c, l)'
<1>1. CloserTypes /\ LockInv /\ CountOf(c) BY DEF CloserIInv, CountInv
<1>2. Top(p) = stack[p][1] /\ 1 \in 1..Len(stack[p]) /\ Top(p) \in Calling BY <1>1, TopFacts
<1>3. PICK l \in Seq(Things) : l = Top(p).left BY <1>2 DEF Calling
<1>4. InCall(p, c, l) BY <1>2, <1>3 DEF InCall
<1>5. Owed(c, l) /\ ~NoCall(c) BY <1>1, <1>4 DEF CountOf, NoCall
<1>6. \A q \in Procs, m \in Seq(Things) : ~Appending(q, c, m) /\ ~Adding(q, c, m) BY <1>1, <1>5 DEF CountOf
<1>7. Holds(Top(p)) BY DEF Holds
<1>8. \A q \in Procs \ {p}, m \in Seq(Things) : ~InCall(q, c, m) BY <1>1, <1>7, TopAlone
<1>9. ASSUME NEW q \in Procs \ {p}, NEW m \in Seq(Things)
      PROVE  ~Appending(q, c, m)' /\ ~Adding(q, c, m)' /\ ~InCall(q, c, m)'
  BY <1>6, <1>8, OthersStay
<1>10. Owed(c, Top(p).left) BY <1>3, <1>5
<1>11. QED BY <1>9, <1>10

LEMMA CloseGetInv == CloserIInv /\ (\E p \in Procs : CloseGet(p)) => CloserIInv'
<1> SUFFICES ASSUME CloserIInv, NEW p \in Procs, CloseGet(p) PROVE CloserIInv' OBVIOUS
<1>1. CloserTypes /\ LockInv /\ ErrorInv /\ CountInv BY DEF CloserIInv
<1>2. stack[p] # <<>> /\ Top(p).op = "close" /\ Top(p).at = "funcs" BY DEF CloseGet, Runs
<1>3. Top(p) = stack[p][1] /\ Top(p) \in Calling /\ Len(stack[p]) \in Nat \ {0} BY <1>1, <1>2, TopFacts
<1>4. PICK c \in Closers, l \in Seq(Things) : c = Top(p).on /\ l = fs[c]
  <2>1. Top(p).on \in Closers BY <1>3 DEF Calling
  <2>2. QED BY <1>1, <2>1 DEF CloserTypes
<1>5. PICK g \in Calling : /\ g = [Top(p) EXCEPT !.at = "call", !.left = l]
                          /\ g.op = Top(p).op /\ g.at = "call" /\ g.on = Top(p).on /\ g.arg = Top(p).arg
                          /\ g.err = Top(p).err /\ g.left = l
  <2> DEFINE h == [Top(p) EXCEPT !.at = "call", !.left = l]
  <2>1. /\ h \in Calling /\ h.op = Top(p).op /\ h.at = "call" /\ h.on = Top(p).on /\ h.arg = Top(p).arg
        /\ h.err = Top(p).err /\ h.left = l
    BY <1>3 DEF Calling
  <2> HIDE DEF h
  <2>2. QED BY <2>1 DEF h
<1>6. /\ mf[c] = NoOne /\ Becomes(p, g)
      /\ UNCHANGED <<fs, closed, mc, mf, calls, made, result, failed, added, called, raced, callback, told>>
  BY <1>4, <1>5 DEF CloseGet
<1>7. ~InDo(g) /\ InClose(g) /\ Holds(Top(p)) /\ ~InClose(Top(p)) /\ ~InAppend(g) /\ ~InAdd(g)
  BY <1>2, <1>5 DEF InDo, Holds, InClose, InAdd, InAppend
<1>8. \A d \in Closers : ~Keeps(g, d) BY <1>2, <1>5, <1>7 DEF Keeps
<1>9. /\ Moved(p, 2, 0) /\ stack'[p][1] = g /\ LockInv'
      /\ \A d \in Closers : d # c => CopiesStay(p, 0, d)
  BY <1>4, <1>5, <1>6, <1>7, <1>8, <1>2, ReplaceKeeps
<1>10. Len(stack'[p]) = Len(stack[p]) /\ \A n \in 2..Len(stack[p]) : stack'[p][n] = stack[p][n]
  BY <1>3, <1>9 DEF Moved
<1>11. CloserTypes' BY <1>1, <1>6, <1>9 DEF CloserTypes, Moved
<1>12. ErrorInv' BY <1>1, <1>2, <1>3, <1>5, <1>6, <1>9, ErrorsSame
<1>13. \A d \in Closers, k \in Seq(Things) : ~Adding(p, d, k)' /\ ~Appending(p, d, k)'
  BY <1>7, <1>9 DEF Adding, Appending
<1>14. CountInv'
  <2> SUFFICES ASSUME NEW d \in Closers, d \notin raced PROVE CountOf(d)' BY <1>6 DEF CountInv
  <2>1. CASE d # c BY <1>2, <1>4, <1>6, <1>9, <1>13, <2>1, OtherCount
  <2>2. CASE d = c
    <3>1. /\ \A q \in Procs \ {p}, k \in Seq(Things) : ~InCall(q, c, k)
          /\ \A n \in 2..Len(stack[p]) : Holds(stack[p][n]) => stack[p][n].on # c
      BY <1>1, <1>2, <1>4, <1>7, TopAlone
    <3>2. ASSUME NEW n \in 1..Len(stack[p]) PROVE ~(InClose(stack[p][n]) /\ stack[p][n].on = c)
      BY <1>3, <1>7, <3>1 DEF Holds
    <3>3. NoCall(c)
      <4>1. \A k \in Seq(Things) : ~InCall(p, c, k) BY <3>2 DEF InCall
      <4>2. QED BY <3>1, <4>1 DEF NoCall
    <3>4. \A k \in Seq(Things) : ~Appending(p, c, k) BY <1>2, <1>3 DEF Appending, InAppend
    <3>5. Owed(c, l) BY <1>4, <1>6, <2>2, <3>3, <3>4, OwedFuncs
    <3>6. \A k \in Seq(Things) : InCall(p, c, k)' => k = l
      <4> SUFFICES ASSUME NEW k \in Seq(Things), NEW n \in 1..Len(stack'[p]), InClose(stack'[p][n]),
                          stack'[p][n].on = c, stack'[p][n].left = k
                   PROVE  k = l
        BY DEF InCall
      <4>1. CASE n = 1 BY <1>5, <1>9, <4>1
      <4>2. CASE n # 1
        <5>1. n \in 2..Len(stack[p]) /\ n \in 1..Len(stack[p]) BY <1>3, <1>10, <4>2
        <5>2. QED BY <1>10, <3>2, <5>1
      <4>3. QED BY <4>1, <4>2
    <3>7. \A q \in Procs \ {p}, k \in Seq(Things) : ~InCall(q, c, k)' BY <1>9, <3>1, OthersStay
    <3>8. InCall(p, c, l)'
      <4>1. 1 \in 1..Len(stack'[p]) BY <1>3, <1>10
      <4>2. QED BY <1>4, <1>5, <1>7, <1>9, <4>1 DEF InCall
    <3>9. \A q \in Procs \ {p}, k \in Seq(Things) : ~Appending(q, c, k)' /\ ~Adding(q, c, k)'
      BY <1>1, <1>6, <1>9, OnlyOwn
    <3>10. \A q \in Procs, k \in Seq(Things) : ~Appending(q, c, k)' /\ ~Adding(q, c, k)'
      BY <1>13, <3>9 DEF Appending, Adding
    <3>11. Owed(c, l)' BY <1>6, <3>5 DEF Owed
    <3>12. \A q \in Procs, k \in Seq(Things) : InCall(q, c, k)' => k = l BY <3>6, <3>7 DEF InCall
    <3>13. \A q \in Procs, k \in Seq(Things) : InCall(q, c, k)' => Owed(c, k)' BY <3>11, <3>12 DEF Owed
    <3>14. ~NoCall(c)' BY <3>8 DEF NoCall
    <3>15. CountOf(c)' BY <3>10, <3>13, <3>14 DEF CountOf
    <3>16. QED BY ONLY <2>2, <3>15
  <2>3. QED BY <2>1, <2>2
<1>15. QED BY <1>9, <1>11, <1>12, <1>14 DEF CloserIInv

LEMMA CountCalls ==
  ASSUME CloserTypes, NEW c \in Closers, NEW l \in Seq(Things), called' = Count(called, c, l)
  PROVE  /\ called' \in [Closers -> [Things -> Nat]]
         /\ \A d \in Closers : d # c => called'[d] = called[d]
         /\ \A x \in Things : called'[c][x] = called[c][x] + Copies(l, x)
<1>1. \A x \in Things : Copies(l, x) \in Nat BY CopiesNat
<1>2. called \in [Closers -> [Things -> Nat]] BY DEF CloserTypes
<1>3. called' = [called EXCEPT ![c] = [x \in Things |-> called[c][x] + Copies(l, x)]] BY DEF Count
<1>4. [x \in Things |-> called[c][x] + Copies(l, x)] \in [Things -> Nat] BY <1>1, <1>2
<1>5. QED BY <1>2, <1>3, <1>4

\* One of the funcs that are left is called.
LEMMA CallCount ==
  ASSUME CloserIInv, NEW p \in Procs, stack[p] # <<>>, InClose(Top(p)), NEW c \in Closers, c = Top(p).on,
         c \notin raced, NEW l \in Seq(Things), l = Top(p).left, l # <<>>, NEW x \in Things, x = Head(l),
         called' = Count(called, c, <<x>>), added' = added,
         NEW j \in Nat, NEW k \in {-1, 0, 1}, Moved(p, j, k),
         \A m \in Seq(Things) : InCall(p, c, m)' => m = Tail(l), InCall(p, c, Tail(l))',
         \A m \in Seq(Things) : ~Appending(p, c, m)' /\ ~Adding(p, c, m)'
  PROVE  CountOf(c)'
<1>1. CloserTypes BY DEF CloserIInv
<1>2. /\ Owed(c, l)
      /\ \A q \in Procs \ {p}, m \in Seq(Things) : ~Appending(q, c, m)' /\ ~Adding(q, c, m)'
      /\ \A q \in Procs \ {p}, m \in Seq(Things) : ~InCall(q, c, m)'
  BY NoWrites
<1>3. PICK h \in Seq(Things), t \in Seq(Things) : h = <<x>> /\ t = Tail(l) BY First, Put
<1>4. \A y \in Things : added'[c][y] = called'[c][y] + Copies(t, y)
  <2> SUFFICES ASSUME NEW y \in Things PROVE added'[c][y] = called'[c][y] + Copies(t, y) OBVIOUS
  <2>1. added[c][y] = called[c][y] + Copies(l, y) BY <1>2 DEF Owed
  <2>2. Copies(l, y) = Copies(<<Head(l)>>, y) + Copies(Tail(l), y) BY CopiesTail
  <2>3. Copies(l, y) = Copies(h, y) + Copies(t, y) BY ONLY <1>3, <2>2, x = Head(l)
  <2>4. Copies(h, y) \in Nat /\ Copies(t, y) \in Nat BY CopiesNat
  <2>5. called' = Count(called, c, h) BY <1>3
  <2>6. called'[c][y] = called[c][y] + Copies(h, y) BY <1>1, <2>5, CountCalls
  <2>7. called[c][y] \in Nat BY <1>1 DEF CloserTypes
  <2>8. added'[c][y] = added[c][y] OBVIOUS
  <2>9. QED BY ONLY <2>1, <2>3, <2>4, <2>6, <2>7, <2>8
<1>5. Owed(c, t)' BY <1>4 DEF Owed
<1>6. \A m \in Seq(Things) : InCall(p, c, m)' => m = t BY <1>3
<1>7. \A q \in Procs, m \in Seq(Things) : InCall(q, c, m)' => m = t BY <1>2, <1>6 DEF InCall
<1>8. \A q \in Procs, m \in Seq(Things) : InCall(q, c, m)' => Owed(c, m)' BY <1>5, <1>7 DEF Owed
<1>9. \A q \in Procs, m \in Seq(Things) : ~Appending(q, c, m)' /\ ~Adding(q, c, m)'
  BY <1>2 DEF Appending, Adding
<1>10. InCall(p, c, t)' BY <1>3 DEF InCall
<1>11. ~NoCall(c)' BY <1>10 DEF NoCall
<1>12. QED BY <1>8, <1>9, <1>11 DEF CountOf

LEMMA CallFuncInv == CloserIInv /\ (\E p \in Procs, f \in Funcs : CallFunc(p, f)) => CloserIInv'
<1> SUFFICES ASSUME CloserIInv, NEW p \in Procs, NEW f \in Funcs, CallFunc(p, f) PROVE CloserIInv' OBVIOUS
<1>1. CloserTypes /\ LockInv /\ ErrorInv /\ CountInv BY DEF CloserIInv
<1>2. stack[p] # <<>> /\ Top(p).op = "close" /\ Top(p).at = "call" BY DEF CallFunc, Calls, Runs
<1>3. Top(p) = stack[p][1] /\ Top(p) \in Calling /\ Len(stack[p]) \in Nat \ {0} BY <1>1, <1>2, TopFacts
<1>4. PICK c \in Closers, l \in Seq(Things) : c = Top(p).on /\ l = Top(p).left BY <1>3 DEF Calling
<1>5. l # <<>> /\ f = Head(l) /\ f \in Things BY <1>4 DEF CallFunc, Calls, Things
<1>6. PICK bad \in BOOLEAN : /\ Becomes(p, [Top(p) EXCEPT !.left = Tail(Top(p).left), !.err = Top(p).err \/ bad])
                             /\ failed' = [failed EXCEPT ![p] = @ \/ bad]
  BY DEF CallFunc
<1>7. PICK t \in Seq(Things) : t = Tail(l) BY <1>5, First
<1>8. PICK g \in Calling : /\ g = [Top(p) EXCEPT !.left = t, !.err = Top(p).err \/ bad]
                          /\ g.op = "close" /\ g.at = "call" /\ g.on = c /\ g.arg = Top(p).arg
                          /\ g.err = (Top(p).err \/ bad) /\ g.left = t
  <2> DEFINE h == [Top(p) EXCEPT !.left = t, !.err = Top(p).err \/ bad]
  <2>1. /\ h.op = Top(p).op /\ h.at = Top(p).at /\ h.on = Top(p).on /\ h.arg = Top(p).arg
        /\ h.err = (Top(p).err \/ bad) /\ h.left = t
    BY <1>3 DEF Calling
  <2>2. (Top(p).err \/ bad) \in BOOLEAN OBVIOUS
  <2>3. h \in Calling BY <1>3, <2>2 DEF Calling
  <2> HIDE DEF h
  <2>4. QED BY <1>2, <1>4, <2>1, <2>3 DEF h
<1>9. /\ Becomes(p, g) /\ called' = Count(called, c, <<f>>)
      /\ UNCHANGED <<fs, closed, mc, mf, calls, made, result, added, raced, callback, told>>
  BY <1>4, <1>6, <1>7, <1>8 DEF CallFunc, Calls
<1>10. ~InDo(g) /\ InClose(g) /\ Holds(Top(p)) /\ InClose(Top(p)) /\ ~InAppend(g) /\ ~InAdd(g)
  BY <1>2, <1>8 DEF InDo, Holds, InClose, InAdd, InAppend
<1>11. \A d \in Closers : ~Keeps(g, d) BY <1>8, <1>10 DEF Keeps
<1>12. /\ Moved(p, 2, 0) /\ stack'[p][1] = g /\ LockInv'
       /\ \A d \in Closers : d # c => CopiesStay(p, 0, d)
  <2>1. g.op = Top(p).op /\ g.on = Top(p).on /\ g.arg = Top(p).arg /\ g.on = c BY <1>2, <1>4, <1>8
  <2>2. Becomes(p, g) /\ mf' = mf /\ UNCHANGED <<mc, closed>> BY <1>9
  <2>3. QED BY <1>2, <1>10, <1>11, <2>1, <2>2, ReplaceKeeps
<1>13. Len(stack'[p]) = Len(stack[p]) /\ \A n \in 2..Len(stack[p]) : stack'[p][n] = stack[p][n]
  BY <1>3, <1>12 DEF Moved
<1>14. /\ called' \in [Closers -> [Things -> Nat]] /\ \A d \in Closers : d # c => called'[d] = called[d]
  <2>1. PICK h \in Seq(Things) : h = <<f>> BY <1>5, Put
  <2>2. QED BY <1>1, <1>9, <2>1, CountCalls
<1>15. failed' \in [Procs -> BOOLEAN] /\ \A q \in Procs \ {p} : failed'[q] = failed[q]
  BY <1>1, <1>6 DEF CloserTypes
<1>16. CloserTypes' BY <1>1, <1>9, <1>12, <1>14, <1>15 DEF CloserTypes, Moved
<1>17. ErrorInv'
  <2>1. ErrorsOf(p, stack[p]) BY <1>1 DEF ErrorInv
  <2>2. \A n \in 1..Len(stack[p]) : stack[p][n].op = "close" BY <1>2, <1>3, <2>1 DEF ErrorsOf
  <2>3. ASSUME NEW n \in 1..Len(stack'[p]) PROVE stack'[p][n].op = "close"
    <3>1. CASE n = 1 BY <1>8, <1>12, <3>1
    <3>2. CASE n # 1
      <4>1. n \in 2..Len(stack[p]) /\ n \in 1..Len(stack[p]) BY <1>3, <1>13, <3>2
      <4>2. QED BY <1>13, <2>2, <4>1
    <3>3. QED BY <3>1, <3>2
  <2>4. failed'[p] <=> (failed[p] \/ bad) BY <1>1, <1>6 DEF CloserTypes
  <2>5. failed[p] <=> \E n \in 1..Len(stack[p]) : stack[p][n].err BY <1>2, <1>3, <2>1 DEF ErrorsOf
  <2>6. stack'[p][1].err <=> (stack[p][1].err \/ bad) BY <1>3, <1>8, <1>12
  <2>7. \A n \in 2..Len(stack[p]) : stack'[p][n].err <=> stack[p][n].err BY <1>13
  <2>8. 1 \in 1..Len(stack[p]) /\ \A n \in 1..Len(stack[p]) : n = 1 \/ n \in 2..Len(stack[p]) BY <1>3
  <2>9. failed'[p] <=> \E n \in 1..Len(stack'[p]) : stack'[p][n].err
    BY <1>13, <2>4, <2>5, <2>6, <2>7, <2>8
  <2>10. stack'[p] # <<>> /\ stack'[p][1].op = "close"
    <3>1. stack'[p] \in Seq(Calling) BY <1>12 DEF Moved
    <3>2. QED BY <1>3, <1>13, <2>3, <3>1, EmptySeq
  <2>11. ErrorsOf(p, stack[p])' BY <2>3, <2>9, <2>10 DEF ErrorsOf
  <2>12. QED BY <1>1, <1>9, <1>12, <1>15, <2>11, ErrorsKept
<1>18. \A d \in Closers, k \in Seq(Things) : ~Adding(p, d, k)' /\ ~Appending(p, d, k)'
  BY <1>10, <1>12 DEF Adding, Appending
<1>19. CountInv'
  <2> SUFFICES ASSUME NEW d \in Closers, d \notin raced PROVE CountOf(d)' BY <1>9 DEF CountInv
  <2>1. CASE d # c BY <1>2, <1>4, <1>9, <1>12, <1>14, <1>18, <2>1, OtherCount
  <2>2. CASE d = c
    <3>1. \A n \in 2..Len(stack[p]) : Holds(stack[p][n]) => stack[p][n].on # c
      BY <1>1, <1>2, <1>4, <1>10, TopAlone
    <3>2. \A m \in Seq(Things) : InCall(p, c, m)' => m = Tail(l)
      <4> SUFFICES ASSUME NEW m \in Seq(Things), NEW n \in 1..Len(stack'[p]), InClose(stack'[p][n]),
                          stack'[p][n].on = c, stack'[p][n].left = m
                   PROVE  m = Tail(l)
        BY DEF InCall
      <4>1. CASE n = 1 BY <1>7, <1>8, <1>12, <4>1
      <4>2. CASE n # 1
        <5>1. n \in 2..Len(stack[p]) BY <1>3, <1>13, <4>2
        <5>2. QED BY <1>13, <3>1, <5>1 DEF Holds
      <4>3. QED BY <4>1, <4>2
    <3>3. InCall(p, c, t)'
      <4>1. 1 \in 1..Len(stack'[p]) BY <1>3, <1>13
      <4>2. QED BY <1>8, <1>10, <1>12, <4>1 DEF InCall
    <3>4. InCall(p, c, Tail(l))' BY <1>7, <3>3 DEF InCall
    <3>5. CountOf(c)' BY <1>2, <1>4, <1>5, <1>9, <1>10, <1>12, <1>18, <2>2, <3>2, <3>4, CallCount
    <3>6. QED BY ONLY <2>2, <3>5
  <2>3. QED BY <2>1, <2>2
<1>20. QED BY <1>12, <1>16, <1>17, <1>19 DEF CloserIInv

LEMMA CallChildInv == CloserIInv /\ (\E p \in Procs, k \in Closers : CallChild(p, k)) => CloserIInv'
<1> SUFFICES ASSUME CloserIInv, NEW p \in Procs, NEW b \in Closers, CallChild(p, b) PROVE CloserIInv' OBVIOUS
<1>1. CloserTypes /\ LockInv /\ ErrorInv /\ CountInv BY DEF CloserIInv
<1>2. stack[p] # <<>> /\ Top(p).op = "close" /\ Top(p).at = "call" BY DEF CallChild, Calls, Runs
<1>3. Top(p) = stack[p][1] /\ Top(p) \in Calling /\ Len(stack[p]) \in Nat \ {0} BY <1>1, <1>2, TopFacts
<1>4. PICK c \in Closers, l \in Seq(Things) : c = Top(p).on /\ l = Top(p).left BY <1>3 DEF Calling
<1>5. l # <<>> /\ b = Head(l) /\ b \in Things BY <1>4 DEF CallChild, Calls, Things
<1>6. PICK t \in Seq(Things) : t = Tail(l) BY <1>5, First
<1>7. PICK f \in Calling : f = Frame("close", b, b) /\ f.at = "start" /\ ~f.err /\ f.op = "close"
  BY <1>5, NewFrame
<1>8. PICK g \in Calling : /\ g = [Top(p) EXCEPT !.left = t]
                          /\ g.op = "close" /\ g.at = "call" /\ g.on = c /\ g.arg = Top(p).arg
                          /\ g.err = Top(p).err /\ g.left = t
  <2> DEFINE h == [Top(p) EXCEPT !.left = t]
  <2>1. /\ h \in Calling /\ h.op = Top(p).op /\ h.at = Top(p).at /\ h.on = Top(p).on /\ h.arg = Top(p).arg
        /\ h.err = Top(p).err /\ h.left = t
    BY <1>3 DEF Calling
  <2> HIDE DEF h
  <2>2. QED BY <1>2, <1>4, <2>1 DEF h
<1>9. /\ stack' = [stack EXCEPT ![p] = <<f, g>> \o Tail(@)] /\ called' = Count(called, c, <<b>>)
      /\ UNCHANGED <<fs, closed, mc, mf, calls, made, result, failed, added, raced, callback, told>>
  BY <1>4, <1>6, <1>7, <1>8 DEF CallChild, Calls
<1>10. /\ InClose(g) /\ ~InDo(g) /\ Holds(Top(p)) /\ InClose(Top(p)) /\ ~InClose(f) /\ ~Holds(f)
       /\ ~InAppend(f) /\ ~InAdd(f) /\ ~InAppend(Top(p)) /\ ~InAdd(Top(p))
  BY <1>2, <1>7, <1>8 DEF InDo, Holds, InClose, InAdd, InAppend
<1>11. Moved(p, 3, -1) /\ stack'[p][1] = f /\ stack'[p][2] = g BY <1>1, <1>2, <1>9, ChildMoves
<1>12. /\ Len(stack'[p]) = Len(stack[p]) + 1
       /\ \A n \in 1..Len(stack'[p]) : n = 1 \/ n = 2 \/ n \in 3..Len(stack'[p])
       /\ \A n \in 3..Len(stack'[p]) : /\ n + -1 \in 1..Len(stack[p]) /\ n + -1 \in 2..Len(stack[p])
                                       /\ stack'[p][n] = stack[p][n + -1]
  BY <1>3, <1>11 DEF Moved
<1>13. LockInv'
  <2>1. OnlyMine(p) BY <1>9 DEF OnlyMine
  <2>2. ASSUME NEW n \in 1..Len(stack'[p]), Holds(stack'[p][n])
        PROVE  HeldBefore(p, -1, stack'[p][n], n)
    <3>1. CASE n = 1 BY <1>10, <1>11, <2>2, <3>1
    <3>2. CASE n = 2
      <4>1. n + -1 = 1 /\ 1 \in 1..Len(stack[p]) BY <1>3, <3>2
      <4>2. stack'[p][n] = g /\ g.on = stack[p][1].on /\ Holds(stack[p][1]) BY <1>3, <1>4, <1>8, <1>10, <1>11, <3>2
      <4>3. QED BY <1>9, <1>10, <4>1, <4>2 DEF HeldBefore
    <3>3. CASE n \in 3..Len(stack'[p])
      <4>1. n + -1 \in 1..Len(stack[p]) BY <1>3, <1>12, <3>3
      <4>2. QED BY <1>9, <1>12, <2>2, <3>3, <4>1 DEF HeldBefore
    <3>4. QED BY <1>12, <3>1, <3>2, <3>3
  <2>3. ASSUME NEW n \in 2..Len(stack'[p]) PROVE InDo(stack'[p][n]) \/ InClose(stack'[p][n])
    <3>1. n = 2 \/ n \in 3..Len(stack'[p]) BY <1>12
    <3>2. QED BY <1>1, <1>10, <1>11, <1>12, <3>1, Below
  <2>4. ASSUME NEW n \in 1..Len(stack'[p]) PROVE stack'[p][n].op # "append"
    <3>1. CASE n = 1 BY <1>7, <1>11, <3>1
    <3>2. CASE n = 2 BY <1>8, <1>11, <3>2
    <3>3. CASE n \in 3..Len(stack'[p])
      <4>1. n + -1 \in 2..Len(stack[p]) /\ stack'[p][n] = stack[p][n + -1] BY ONLY <1>12, <3>3
      <4>2. \A m \in 2..Len(stack[p]) : InDo(stack[p][m]) \/ InClose(stack[p][m]) BY <1>1, Below
      <4>3. QED BY ONLY <4>1, <4>2 DEF InDo, InClose
    <3>4. QED BY <1>12, <3>1, <3>2, <3>3
  <2>5. stack'[p] # <<>> => \A d \in Closers : Keeps(stack'[p][1], d) => mf'[d] = p
    BY <1>7, <1>10, <1>11 DEF Keeps
  <2>6. QED BY <1>1, <1>11, <2>1, <2>2, <2>3, <2>4, <2>5, LocksKept
<1>14. called' \in [Closers -> [Things -> Nat]] /\ \A d \in Closers : d # c => called'[d] = called[d]
  <2>1. PICK h \in Seq(Things) : h = <<b>> BY <1>5, Put
  <2>2. QED BY <1>1, <1>9, <2>1, CountCalls
<1>15. CloserTypes' BY <1>1, <1>9, <1>11, <1>14 DEF CloserTypes, Moved
<1>16. ErrorInv'
  <2>1. ErrorsOf(p, stack[p]) BY <1>1 DEF ErrorInv
  <2>2. \A n \in 1..Len(stack[p]) : stack[p][n].op = "close" BY <1>2, <1>3, <2>1 DEF ErrorsOf
  <2>3. \A n \in 1..Len(stack'[p]) : stack'[p][n].op = "close"
    <3>1. \A n \in 3..Len(stack'[p]) : stack'[p][n].op = "close" BY <1>12, <2>2
    <3>2. QED BY <1>7, <1>8, <1>11, <1>12, <3>1
  <2>4. failed[p] <=> \E n \in 1..Len(stack[p]) : stack[p][n].err BY <1>2, <1>3, <2>1 DEF ErrorsOf
  <2>5. ASSUME NEW n \in 1..Len(stack[p])
        PROVE  n + 1 \in 1..Len(stack'[p]) /\ (stack'[p][n + 1].err <=> stack[p][n].err)
    <3>1. CASE n = 1
      <4>1. n + 1 = 2 /\ 2 \in 1..Len(stack'[p]) BY <1>3, <1>12, <3>1
      <4>2. stack'[p][2].err = stack[p][1].err BY <1>3, <1>8, <1>11
      <4>3. QED BY <3>1, <4>1, <4>2
    <3>2. CASE n # 1
      <4>1. n + 1 \in 3..Len(stack'[p]) /\ (n + 1) + -1 = n BY <1>3, <1>12, <3>2
      <4>2. stack'[p][n + 1] = stack[p][n] BY <1>12, <4>1
      <4>3. QED BY <1>3, <1>12, <4>1, <4>2
    <3>3. QED BY <3>1, <3>2
  <2>6. ASSUME NEW n \in 1..Len(stack'[p]), n # 1 PROVE n - 1 \in 1..Len(stack[p]) /\ (n - 1) + 1 = n
    BY <1>3, <1>12, <2>6
  <2>7. ~stack'[p][1].err BY <1>7, <1>11
  <2>8. (\E n \in 1..Len(stack[p]) : stack[p][n].err) => \E n \in 1..Len(stack'[p]) : stack'[p][n].err
    BY <2>5
  <2>9. (\E n \in 1..Len(stack'[p]) : stack'[p][n].err) => \E n \in 1..Len(stack[p]) : stack[p][n].err
    <3> SUFFICES ASSUME NEW n \in 1..Len(stack'[p]), stack'[p][n].err
                 PROVE  \E i \in 1..Len(stack[p]) : stack[p][i].err
      OBVIOUS
    <3>1. n # 1 BY <2>7
    <3>2. PICK i \in 1..Len(stack[p]) : i + 1 = n BY <2>6, <3>1
    <3>3. stack[p][i].err BY <2>5, <3>2
    <3>4. QED BY <3>3
  <2>10. failed'[p] <=> \E n \in 1..Len(stack'[p]) : stack'[p][n].err BY <1>9, <2>4, <2>8, <2>9
  <2>11. stack'[p] # <<>> /\ stack'[p][1].op = "close"
    <3>1. stack'[p] \in Seq(Calling) BY <1>11 DEF Moved
    <3>2. QED BY <1>3, <1>7, <1>11, <1>12, <3>1, EmptySeq
  <2>12. ErrorsOf(p, stack[p])' BY <2>3, <2>10, <2>11 DEF ErrorsOf
  <2>13. QED BY <1>1, <1>9, <1>11, <2>12, ErrorsKept
<1>17. \A d \in Closers, k \in Seq(Things) : ~Adding(p, d, k)' /\ ~Appending(p, d, k)'
  BY <1>10, <1>11 DEF Adding, Appending
<1>18. CountInv'
  <2> SUFFICES ASSUME NEW d \in Closers, d \notin raced PROVE CountOf(d)' BY <1>9 DEF CountInv
  <2>1. CASE d # c
    <3>1. ASSUME NEW n \in 1..Len(stack'[p]), InClose(stack'[p][n]), stack'[p][n].on = d
          PROVE  n + -1 \in 1..Len(stack[p]) /\ stack'[p][n] = stack[p][n + -1]
      <4>1. n # 1 /\ n # 2 BY <1>8, <1>10, <1>11, <2>1, <3>1
      <4>2. n \in 3..Len(stack'[p]) BY <1>12, <4>1
      <4>3. QED BY <1>12, <4>2
    <3>2. ASSUME NEW n \in 1..Len(stack[p]), stack[p][n].on = d
          PROVE  n - -1 \in 1..Len(stack'[p]) /\ stack'[p][n - -1] = stack[p][n]
      <4>1. n # 1 BY <1>3, <1>4, <2>1, <3>2
      <4>2. n - -1 = n + 1 /\ n + 1 \in 3..Len(stack'[p]) /\ (n + 1) + -1 = n BY <1>3, <1>12, <4>1
      <4>3. stack'[p][n + 1] = stack[p][n] BY <1>12, <4>2
      <4>4. QED BY <1>3, <1>12, <4>2, <4>3
    <3>3. CopiesStay(p, -1, d) BY <3>1, <3>2 DEF CopiesStay
    <3>4. d # Top(p).on BY <1>4, <2>1
    <3>5. QED BY <1>2, <1>9, <1>11, <1>14, <1>17, <2>1, <3>3, <3>4, OtherCount
  <2>2. CASE d = c
    <3>1. \A n \in 2..Len(stack[p]) : Holds(stack[p][n]) => stack[p][n].on # c
      BY <1>1, <1>2, <1>4, <1>10, TopAlone
    <3>2. \A m \in Seq(Things) : InCall(p, c, m)' => m = Tail(l)
      <4> SUFFICES ASSUME NEW m \in Seq(Things), NEW n \in 1..Len(stack'[p]), InClose(stack'[p][n]),
                          stack'[p][n].on = c, stack'[p][n].left = m
                   PROVE  m = Tail(l)
        BY DEF InCall
      <4>1. CASE n = 1 BY <1>10, <1>11, <4>1
      <4>2. CASE n = 2 BY <1>6, <1>8, <1>11, <4>2
      <4>3. CASE n \in 3..Len(stack'[p]) BY <1>12, <3>1, <4>3 DEF Holds
      <4>4. QED BY <1>12, <4>1, <4>2, <4>3
    <3>3. InCall(p, c, t)'
      <4>1. 2 \in 1..Len(stack'[p]) BY <1>3, <1>12
      <4>2. QED BY <1>8, <1>10, <1>11, <4>1 DEF InCall
    <3>4. InCall(p, c, Tail(l))' BY <1>6, <3>3 DEF InCall
    <3>5. CountOf(c)' BY <1>2, <1>4, <1>5, <1>9, <1>10, <1>11, <1>17, <2>2, <3>2, <3>4, CallCount
    <3>6. QED BY ONLY <2>2, <3>5
  <2>3. QED BY <2>1, <2>2
<1>19. QED BY <1>13, <1>15, <1>16, <1>18 DEF CloserIInv

LEMMA CloseFinishInv == CloserIInv /\ (\E p \in Procs : CloseFinish(p)) => CloserIInv'
<1> SUFFICES ASSUME CloserIInv, NEW p \in Procs, CloseFinish(p) PROVE CloserIInv' OBVIOUS
<1>1. CloserTypes /\ LockInv /\ ErrorInv /\ CountInv BY DEF CloserIInv
<1>2. stack[p] # <<>> /\ Top(p).op = "close" /\ Top(p).at = "call" /\ Top(p).left = <<>>
  BY DEF CloseFinish, Runs
<1>3. Top(p) = stack[p][1] /\ Top(p) \in Calling /\ Len(stack[p]) \in Nat \ {0} BY <1>1, <1>2, TopFacts
<1>4. PICK c \in Closers : c = Top(p).on BY <1>3 DEF Calling
<1>5. PICK e \in BOOLEAN : e = Top(p).err BY <1>3 DEF Calling
<1>6. /\ fs' = [fs EXCEPT ![c] = <<>>] /\ closed' = [closed EXCEPT ![c] = TRUE]
      /\ mc' = [mc EXCEPT ![c] = NoOne] /\ Return(p) /\ result' = [result EXCEPT ![p] = e]
      /\ told' = [told EXCEPT ![c] = IF c \in callback THEN e ELSE @]
      /\ UNCHANGED <<mf, calls, made, failed, added, called, raced, callback>>
  BY <1>4, <1>5 DEF CloseFinish, Unlock
<1>7. /\ InClose(Top(p)) /\ Holds(Top(p)) /\ ~InAppend(Top(p)) /\ ~InAdd(Top(p))
  BY <1>2 DEF Holds, InClose, InAdd, InAppend
<1>8. /\ Moved(p, 2, 1)
      /\ Len(stack[p]) > 1 => stack'[p][1] = [stack[p][2] EXCEPT !.err = stack[p][2].err \/ Top(p).err]
  BY <1>1, <1>2, <1>6, ReturnMoves
<1>9. Len(stack'[p]) = Len(stack[p]) - 1 /\ stack'[p] \in Seq(Calling) BY <1>8 DEF Moved
<1>10. ASSUME NEW n \in 1..Len(stack'[p])
       PROVE  /\ n + 1 \in 1..Len(stack[p]) /\ n + 1 \in 2..Len(stack[p])
              /\ stack'[p][n].op = stack[p][n + 1].op /\ stack'[p][n].at = stack[p][n + 1].at
              /\ stack'[p][n].on = stack[p][n + 1].on /\ stack'[p][n].left = stack[p][n + 1].left
              /\ stack'[p][n].err <=> stack[p][n + 1].err \/ (n = 1 /\ e)
  <2>1. n + 1 \in 1..Len(stack[p]) /\ n + 1 \in 2..Len(stack[p]) /\ Len(stack[p]) > 1 BY <1>3, <1>9
  <2>2. CASE n = 1
    <3>1. stack[p][2] \in Calling /\ 1 + 1 = 2 BY <1>1, <2>1, <2>2, StackFacts
    <3>2. stack'[p][1] = [stack[p][2] EXCEPT !.err = stack[p][2].err \/ e] BY <1>5, <1>8, <2>1
    <3>3. QED BY <2>1, <2>2, <3>1, <3>2 DEF Calling
  <2>3. CASE n # 1
    <3>1. stack'[p][n] = stack[p][n + 1] BY <1>3, <1>8, <1>9, <2>3 DEF Moved
    <3>2. QED BY <2>1, <2>3, <3>1
  <2>4. QED BY <2>2, <2>3
<1>11. /\ mc[c] = p /\ \A q \in Procs \ {p}, l \in Seq(Things) : ~InCall(q, c, l)
       /\ \A n \in 2..Len(stack[p]) : Holds(stack[p][n]) => stack[p][n].on # c
  BY <1>1, <1>2, <1>4, <1>7, TopAlone
<1>12. /\ mc' \in [Closers -> Procs \cup {NoOne}] /\ closed' \in [Closers -> BOOLEAN]
       /\ fs' \in [Closers -> Seq(Things)] /\ fs'[c] = <<>>
       /\ \A d \in Closers : d # c => mc'[d] = mc[d] /\ closed'[d] = closed[d] /\ fs'[d] = fs[d]
  <2>1. <<>> \in Seq(Things) BY EmptySeq
  <2>2. QED BY <1>1, <1>6, <2>1 DEF CloserTypes
<1>13. ASSUME NEW n \in 1..Len(stack'[p])
       PROVE  InDo(stack'[p][n]) \/ InClose(stack'[p][n])
  BY <1>1, <1>10, Below DEF InDo, InClose
<1>14. stack'[p] # <<>> => 1 \in 1..Len(stack'[p]) BY <1>9, EmptySeq
<1>15. LockInv'
  <2>1. OnlyMine(p) BY <1>6, <1>11, <1>12 DEF OnlyMine
  <2>2. ASSUME NEW n \in 1..Len(stack'[p]), Holds(stack'[p][n])
        PROVE  HeldBefore(p, 1, stack'[p][n], n)
    <3>1. Holds(stack[p][n + 1]) /\ (InDo(stack'[p][n]) => InDo(stack[p][n + 1]))
      BY <1>10, <2>2 DEF Holds, InDo, InClose
    <3>2. stack[p][n + 1].on \in Closers \ {c} BY <1>1, <1>10, <1>11, <3>1, StackFacts DEF Calling
    <3>3. QED BY <1>10, <1>12, <3>1, <3>2 DEF HeldBefore
  <2>3. \A n \in 1..Len(stack'[p]) : stack'[p][n].op # "append" BY <1>13 DEF InDo, InClose
  <2>4. stack'[p] # <<>> => \A d \in Closers : ~Keeps(stack'[p][1], d)
    BY <1>13, <1>14 DEF Keeps, InDo, InClose, InAppend, InAdd
  <2>5. \A n \in 2..Len(stack'[p]) : InDo(stack'[p][n]) \/ InClose(stack'[p][n]) BY <1>3, <1>9, <1>13
  <2>6. QED BY <1>1, <1>8, <2>1, <2>2, <2>3, <2>4, <2>5, LocksKept
<1>16. CloserTypes'
  <2>1. result' \in [Procs -> BOOLEAN] BY <1>1, <1>6 DEF CloserTypes
  <2>2. told' \in [Closers -> BOOLEAN] BY <1>1, <1>6 DEF CloserTypes
  <2>3. QED BY <1>1, <1>6, <1>8, <1>12, <2>1, <2>2 DEF CloserTypes, Moved
<1>17. ErrorInv'
  <2>1. ErrorsOf(p, stack[p]) BY <1>1 DEF ErrorInv
  <2>2. \A n \in 1..Len(stack[p]) : stack[p][n].op = "close" BY <1>2, <1>3, <2>1 DEF ErrorsOf
  <2>3. failed[p] <=> \E n \in 1..Len(stack[p]) : stack[p][n].err BY <1>2, <1>3, <2>1 DEF ErrorsOf
  <2>4. CASE stack'[p] = <<>>
    <3>1. Len(stack[p]) = 1 BY <1>3, <1>9, <2>4, EmptySeq
    <3>2. failed[p] <=> e BY <1>3, <1>5, <2>3, <3>1
    <3>3. result'[p] = e /\ failed'[p] = failed[p] /\ failed[p] \in BOOLEAN BY <1>1, <1>6 DEF CloserTypes
    <3>4. result'[p] = failed'[p] BY <3>2, <3>3
    <3>5. Len(stack'[p]) = 0 BY <2>4, EmptySeq
    <3>6. ErrorsOf(p, stack[p])' BY <2>4, <3>4, <3>5 DEF ErrorsOf
    <3>7. QED BY <1>1, <1>6, <1>8, <3>6, ErrorsKept DEF CloserTypes
  <2>5. CASE stack'[p] # <<>>
    <3>1. \A n \in 1..Len(stack'[p]) : stack'[p][n].op = "close" BY <1>10, <2>2
    <3>2. (\E n \in 1..Len(stack[p]) : stack[p][n].err) => \E n \in 1..Len(stack'[p]) : stack'[p][n].err
      <4> SUFFICES ASSUME NEW n \in 1..Len(stack[p]), stack[p][n].err
                   PROVE  \E i \in 1..Len(stack'[p]) : stack'[p][i].err
        OBVIOUS
      <4>1. CASE n = 1
        <5>1. e BY <1>3, <1>5, <4>1
        <5>2. stack'[p][1].err BY <1>10, <1>14, <2>5, <5>1
        <5>3. QED BY <1>14, <2>5, <5>2
      <4>2. CASE n # 1
        <5>1. n - 1 \in 1..Len(stack'[p]) /\ (n - 1) + 1 = n BY <1>3, <1>9, <4>2
        <5>2. stack'[p][n - 1].err BY <1>10, <5>1
        <5>3. QED BY <5>1, <5>2
      <4>3. QED BY <4>1, <4>2
    <3>3. (\E n \in 1..Len(stack'[p]) : stack'[p][n].err) => \E n \in 1..Len(stack[p]) : stack[p][n].err
      <4> SUFFICES ASSUME NEW n \in 1..Len(stack'[p]), stack'[p][n].err
                   PROVE  \E i \in 1..Len(stack[p]) : stack[p][i].err
        OBVIOUS
      <4>1. stack[p][n + 1].err \/ e BY <1>10
      <4>2. 1 \in 1..Len(stack[p]) /\ (e => stack[p][1].err) BY <1>3, <1>5
      <4>3. QED BY <1>10, <4>1, <4>2
    <3>4. failed'[p] <=> \E n \in 1..Len(stack'[p]) : stack'[p][n].err BY <1>6, <2>3, <3>2, <3>3
    <3>5. ErrorsOf(p, stack[p])' BY <1>14, <2>5, <3>1, <3>4 DEF ErrorsOf
    <3>6. QED BY <1>1, <1>6, <1>8, <3>5, ErrorsKept DEF CloserTypes
  <2>6. QED BY <2>4, <2>5
<1>18. \A d \in Closers, k \in Seq(Things) : ~Adding(p, d, k)' /\ ~Appending(p, d, k)'
  BY <1>13, <1>14 DEF Adding, Appending, InDo, InClose, InAdd, InAppend
<1>19. CountInv'
  <2> SUFFICES ASSUME NEW d \in Closers, d \notin raced PROVE CountOf(d)' BY <1>6 DEF CountInv
  <2>1. CASE d # c
    <3>1. ASSUME NEW n \in 1..Len(stack[p]), stack[p][n].on = d
          PROVE  n - 1 \in 1..Len(stack'[p]) /\ (n - 1) + 1 = n
      <4>1. n # 1 BY <1>3, <1>4, <2>1, <3>1
      <4>2. QED BY <1>3, <1>9, <4>1
    <3>2. CopiesStay(p, 1, d)
      <4>1. \A n \in 1..Len(stack'[p]) : InClose(stack'[p][n]) <=> InClose(stack[p][n + 1]) BY ONLY <1>10 DEF InClose
      <4>2. \A n \in 1..Len(stack'[p]) : InClose(stack'[p][n]) /\ stack'[p][n].on = d =>
              /\ n + 1 \in 1..Len(stack[p]) /\ InClose(stack[p][n + 1]) /\ stack[p][n + 1].on = d
              /\ stack[p][n + 1].left = stack'[p][n].left
        BY ONLY <1>10, <4>1
      <4>3. ASSUME NEW n \in 1..Len(stack[p]), InClose(stack[p][n]), stack[p][n].on = d
            PROVE  /\ n - 1 \in 1..Len(stack'[p]) /\ InClose(stack'[p][n - 1]) /\ stack'[p][n - 1].on = d
                   /\ stack'[p][n - 1].left = stack[p][n].left
        <5>1. PICK m \in 1..Len(stack'[p]) : m = n - 1 /\ m + 1 = n BY ONLY <3>1, <4>3
        <5>2. InClose(stack'[p][m]) /\ stack'[p][m].on = d /\ stack'[p][m].left = stack[p][n].left
          BY ONLY <1>10, <4>1, <4>3, <5>1
        <5>3. QED BY ONLY <5>1, <5>2
      <4>4. QED BY ONLY <4>2, <4>3 DEF CopiesStay
    <3>3. d # Top(p).on BY <1>4, <2>1
    <3>4. fs'[d] = fs[d] BY <1>12, <2>1
    <3>5. QED BY <1>2, <1>6, <1>8, <1>18, <2>1, <3>2, <3>3, <3>4, OtherCount
  <2>2. CASE d = c
    <3>1. /\ Owed(c, Top(p).left)
          /\ \A q \in Procs \ {p}, l \in Seq(Things) : ~Appending(q, c, l)' /\ ~Adding(q, c, l)'
          /\ \A q \in Procs \ {p}, l \in Seq(Things) : ~InCall(q, c, l)'
      BY <1>2, <1>4, <1>7, <1>8, <2>2, NoWrites
    <3>2. \A n \in 1..Len(stack'[p]) : ~(InClose(stack'[p][n]) /\ stack'[p][n].on = c)
      <4> SUFFICES ASSUME NEW n \in 1..Len(stack'[p]), InClose(stack'[p][n]) PROVE stack'[p][n].on # c OBVIOUS
      <4>1. n + 1 \in 2..Len(stack[p]) /\ Holds(stack[p][n + 1]) BY <1>10 DEF InClose, Holds
      <4>2. stack[p][n + 1].on # c BY <1>11, <4>1
      <4>3. QED BY <1>10, <4>2
    <3>3. \A q \in Procs, l \in Seq(Things) : ~InCall(q, c, l)' BY <3>1, <3>2 DEF InCall
    <3>4. \A q \in Procs, l \in Seq(Things) : ~Appending(q, c, l)' /\ ~Adding(q, c, l)'
      BY <1>18, <3>1 DEF Appending, Adding
    <3>5. Owed(c, fs[c])' BY <1>2, <1>6, <1>12, <3>1 DEF Owed
    <3>6. CountOf(c)' BY <3>3, <3>4, <3>5 DEF CountOf
    <3>7. QED BY ONLY <2>2, <3>6
  <2>3. QED BY <2>1, <2>2
<1>20. QED BY <1>15, <1>16, <1>17, <1>19 DEF CloserIInv

-----------------------------------------------------------------------------
LEMMA CloserInitInv == CloserInit => CloserIInv
<1> SUFFICES ASSUME CloserInit PROVE CloserIInv OBVIOUS
<1> USE DEF CloserInit
<1>1. \A S : <<>> \in Seq(S) /\ Len(<<>>) = 0 BY EmptySeq
<1>2. \A p \in Procs : stack[p] = <<>> /\ Len(stack[p]) = 0 BY <1>1
<1>3. CloserTypes
  <2>1. stack \in [Procs -> Seq(Calling)]
    <3>1. <<>> \in Seq(Calling) BY <1>1
    <3>2. QED BY <3>1
  <2>2. fs \in [Closers -> Seq(Things)]
    <3>1. <<>> \in Seq(Things) BY <1>1
    <3>2. QED BY <3>1
  <2>3. added \in [Closers -> [Things -> Nat]] /\ called \in [Closers -> [Things -> Nat]] OBVIOUS
  <2>4. closed \in [Closers -> BOOLEAN] /\ told \in [Closers -> BOOLEAN] OBVIOUS
  <2>5. result \in [Procs -> BOOLEAN] /\ failed \in [Procs -> BOOLEAN] OBVIOUS
  <2>6. mc \in [Closers -> Procs \cup {NoOne}] /\ mf \in [Closers -> Procs \cup {NoOne}] OBVIOUS
  <2>7. calls \in [Procs -> Nat] OBVIOUS
  <2>8. made \subseteq Things /\ raced \subseteq Closers /\ callback \subseteq Closers
    BY CloserAssumption DEF Things
  <2>9. QED BY <2>1, <2>2, <2>3, <2>4, <2>5, <2>6, <2>7, <2>8 DEF CloserTypes
<1>4. LockInv BY <1>2 DEF LockInv, StackOf
<1>5. ErrorInv
  <2>1. \A p \in Procs : result[p] = failed[p] OBVIOUS
  <2>2. QED BY <1>2, <2>1 DEF ErrorInv, ErrorsOf
<1>6. CountInv
  <2> SUFFICES ASSUME NEW c \in Closers PROVE CountOf(c) BY DEF CountInv
  <2>1. Owed(c, fs[c])
    <3> SUFFICES ASSUME NEW x \in Things PROVE added[c][x] = called[c][x] + Copies(fs[c], x) BY DEF Owed
    <3>1. added[c][x] = 0 /\ called[c][x] = 0 /\ fs[c] = <<>> OBVIOUS
    <3>2. Copies(fs[c], x) = 0 BY <3>1, CopiesEmpty
    <3>3. QED BY ONLY <3>1, <3>2
  <2>2. \A p \in Procs, l \in Seq(Things) : ~InCall(p, c, l) /\ ~Appending(p, c, l) /\ ~Adding(p, c, l)
    BY ONLY <1>2 DEF InCall, Appending, Adding
  <2>3. QED BY ONLY <2>1, <2>2 DEF CountOf
<1>7. QED BY <1>3, <1>4, <1>5, <1>6 DEF CloserIInv

LEMMA CloserInductive == CloserIInv /\ [CloserNext]_closerVars => CloserIInv'
<1> SUFFICES ASSUME CloserIInv, [CloserNext]_closerVars PROVE CloserIInv' OBVIOUS
<1>1. CASE UNCHANGED closerVars
  <2>1. fs' = fs /\ closed' = closed /\ callback' = callback /\ mc' = mc /\ mf' = mf /\ stack' = stack
        /\ calls' = calls /\ made' = made /\ result' = result /\ told' = told /\ failed' = failed
        /\ added' = added /\ called' = called /\ raced' = raced
    BY ONLY <1>1 DEF closerVars
  <2>2. CloserTypes /\ LockInv /\ ErrorInv /\ CountInv BY DEF CloserIInv
  <2>3. CloserTypes' BY ONLY <2>1, <2>2 DEF CloserTypes
  <2>4. LockInv' BY ONLY <2>1, <2>2 DEF LockInv, StackOf
  <2>5. ErrorInv' BY ONLY <2>1, <2>2 DEF ErrorInv, ErrorsOf
  <2>6. CountInv'
    <3>1. \A c, l : Owed(c, l)' <=> Owed(c, l) BY ONLY <2>1 DEF Owed
    <3>2. \A q, c, l : InCall(q, c, l)' <=> InCall(q, c, l) BY ONLY <2>1 DEF InCall
    <3>3. \A q, c, l : Appending(q, c, l)' <=> Appending(q, c, l) BY ONLY <2>1 DEF Appending
    <3>4. \A q, c, l : Adding(q, c, l)' <=> Adding(q, c, l) BY ONLY <2>1 DEF Adding
    <3>5. \A c : (NoCall(c)' <=> NoCall(c)) /\ (NoAppend(c)' <=> NoAppend(c))
      BY ONLY <3>2, <3>3 DEF NoCall, NoAppend
    <3>6. SUFFICES ASSUME NEW c \in Closers \ raced PROVE CountOf(c)' BY <2>1 DEF CountInv
    <3>7. CountOf(c) BY <2>2 DEF CountInv
    <3>8. (\A q \in Procs, l \in Seq(Things) : InCall(q, c, l) => Owed(c, l))'
      BY ONLY <3>1, <3>2, <3>7 DEF CountOf
    <3>9. (\A q \in Procs, l \in Seq(Things) : Appending(q, c, l) => Owed(c, l) /\ NoCall(c))'
      BY ONLY <3>1, <3>3, <3>5, <3>7 DEF CountOf
    <3>10. (\A q \in Procs, l \in Seq(Things) : Adding(q, c, l) => l = fs[c] /\ NoCall(c))'
      BY ONLY <2>1, <3>4, <3>5, <3>7 DEF CountOf
    <3>11. (NoCall(c) /\ NoAppend(c) => Owed(c, fs[c]))' BY ONLY <2>1, <3>1, <3>5, <3>7 DEF CountOf
    <3>12. QED BY ONLY <3>8, <3>9, <3>10, <3>11 DEF CountOf
  <2>7. QED BY ONLY <2>3, <2>4, <2>5, <2>6 DEF CloserIInv
<1>2. CASE CloserNext
  <2>1. PICK p \in Procs : Step(p) \/ Called(p) BY <1>2 DEF CloserNext, Called
  <2>2. CASE Called(p) BY <2>2, CalledInv
  <2>3. CASE CloseLock(p) \/ CloseGet(p) \/ CloseFinish(p) BY <2>3, CloseLockInv, CloseGetInv, CloseFinishInv
  <2>4. CASE \E f \in Funcs : CallFunc(p, f) BY <2>4, CallFuncInv
  <2>5. CASE \E k \in Closers : CallChild(p, k) BY <2>5, CallChildInv
  <2>6. CASE AddRead(p) \/ AddWrite(p) BY <2>6, AddReadInv, AddWriteInv
  <2>7. CASE AppendLock(p) \/ AppendRead(p) \/ AppendWrite(p)
    BY <2>7, AppendLockInv, AppendReadInv, AppendWriteInv
  <2>8. CASE DoLock(p) BY <2>8, DoLockInv
  <2>9. CASE DoClosed(p) \/ DoReturn(p) \/ OnClosed(p) BY <2>9, PopInv
  <2>10. QED BY <2>1, <2>2, <2>3, <2>4, <2>5, <2>6, <2>7, <2>8, <2>9 DEF Step
<1>3. QED BY <1>1, <1>2

\* A frame is at a position of the stack.
LEMMA FrameIs ==
  ASSUME CloserTypes, NEW p \in Procs, NEW f \in Frames(p)
  PROVE  f \in Calling /\ \E n \in 1..Len(stack[p]) : stack[p][n] = f
<1>1. stack[p] \in Seq(Calling) /\ DOMAIN stack[p] = 1..Len(stack[p])
  BY StackFacts, LenProperties
<1>2. PICK n \in 1..Len(stack[p]) : stack[p][n] = f BY <1>1 DEF Frames, ToSet
<1>3. QED BY <1>2, StackFacts

\* While the fn of Do runs, at whatever depth of calls, its closer is neither closed nor
\* about to call a func, for any number of goroutines, closers and children.
THEOREM DoIsProtected == CloserSpec => []DoProtects
<1>1. CloserIInv => DoProtects
  <2> SUFFICES ASSUME CloserIInv, NEW p \in Procs, NEW f \in Frames(p), f.op = "do", f.at = "fn"
               PROVE  ~closed[f.on] /\ Closing(f.on) = {}
    BY DEF DoProtects
  <2>1. CloserTypes /\ LockInv BY DEF CloserIInv
  <2>2. PICK n \in 1..Len(stack[p]) : stack[p][n] = f BY <2>1, FrameIs
  <2>3. InDo(f) /\ Holds(f) /\ ~InClose(f) BY DEF InDo, Holds, InClose
  <2>4. PICK c \in Closers : c = f.on BY <2>1, FrameIs DEF Calling
  <2>5. ~closed[c] BY <2>1, <2>2, <2>3, <2>4 DEF LockInv, StackOf
  <2>6. NoCall(c) BY <2>1, <2>2, <2>3, <2>4, OneClose DEF NoCall
  <2>7. QED BY <2>1, <2>4, <2>5, <2>6, ClosingIs
<1>2. QED BY <1>1, CloserInitInv, CloserInductive, PTL DEF CloserSpec

\* What is owed is what is pending when nobody appends.
LEMMA PendingIs ==
  ASSUME CloserIInv, NEW c \in Closers, c \notin raced, mf[c] = NoOne
  PROVE  Owed(c, Pending(c))
<1>1. CloserTypes /\ LockInv /\ CountOf(c) BY DEF CloserIInv, CountInv
<1>2. CASE Closing(c) = {}
  <2>1. NoCall(c) BY <1>1, <1>2, ClosingIs
  <2>2. NoAppend(c)
    <3> SUFFICES ASSUME NEW q \in Procs, NEW l \in Seq(Things), Appending(q, c, l) PROVE FALSE BY DEF NoAppend
    <3>1. mf[c] = q BY <1>1, WritersKeep
    <3>2. QED BY <3>1, CloserAssumption
  <2>3. Owed(c, fs[c]) BY <1>1, <2>1, <2>2 DEF CountOf
  <2>4. Pending(c) = fs[c] BY <1>2 DEF Pending
  <2>5. QED BY <2>3, <2>4
<1>3. CASE Closing(c) # {}
  <2> DEFINE p == CHOOSE p \in Closing(c) : TRUE
             f == CHOOSE f \in Frames(p) : f.op = "close" /\ f.on = c /\ f.at = "call"
  <2>1. p \in Closing(c) BY <1>3
  <2>2. p \in Procs /\ \E g \in Frames(p) : g.op = "close" /\ g.on = c /\ g.at = "call" BY <2>1 DEF Closing
  <2>3. f \in Frames(p) /\ f.op = "close" /\ f.on = c /\ f.at = "call" BY <2>2
  <2>4. Pending(c) = f.left BY <1>3 DEF Pending
  <2> HIDE DEF p, f
  <2>5. f \in Calling /\ \E n \in 1..Len(stack[p]) : stack[p][n] = f BY <1>1, <2>2, <2>3, FrameIs
  <2>6. f.left \in Seq(Things) BY <2>5 DEF Calling
  <2>7. InCall(p, c, f.left) BY <2>3, <2>5 DEF InCall, InClose
  <2>8. Owed(c, f.left) BY <1>1, <2>2, <2>6, <2>7 DEF CountOf
  <2>9. QED BY <2>4, <2>8
<1>4. QED BY <1>2, <1>3

\* Nothing is called that was not added.
LEMMA AddedFirst ==
  ASSUME CloserIInv, NEW c \in Closers, c \notin raced, NEW x \in Things
  PROVE  called[c][x] <= added[c][x]
<1>1. CloserTypes /\ CountOf(c) BY DEF CloserIInv, CountInv
<1>2. \E l \in Seq(Things) : Owed(c, l)
  <2>1. fs[c] \in Seq(Things) BY <1>1 DEF CloserTypes
  <2>2. QED BY <1>1, <2>1 DEF CountOf, NoCall, NoAppend
<1>3. PICK l \in Seq(Things) : Owed(c, l) BY <1>2
<1>4. added[c][x] = called[c][x] + Copies(l, x) BY <1>3 DEF Owed
<1>5. Copies(l, x) \in Nat BY CopiesNat
<1>6. called[c][x] \in Nat BY <1>1 DEF CloserTypes
<1>7. QED BY ONLY <1>4, <1>5, <1>6

\* Close calls what was added once for each time it was added, and returns an error
\* exactly if one of the funcs that were called failed, for any number of goroutines,
\* any tree of children and any sequence of Append, unless an Add overlaps its calls.
THEOREM EachIsCalled == CloserSpec => []CallsEach
<1>1. CloserIInv => CallsEach
  <2> SUFFICES ASSUME CloserIInv PROVE CallsEach OBVIOUS
  <2>1. CloserTypes /\ ErrorInv BY DEF CloserIInv
  <2>2. CloserTypeOK
    <3>1. \A p \in Procs : \A f \in Frames(p) : f \in Calling BY <2>1, FrameIs
    <3>2. \A p \in Procs : \A f \in Frames(p) :
            /\ f.op \in {"close", "add", "append", "do", "onclosed"} /\ f.on \in Closers /\ f.arg \in Things
            /\ f.left \in Seq(Things) /\ f.err \in BOOLEAN
      BY <3>1 DEF Calling
    <3>3. QED BY <2>1, <3>2 DEF CloserTypeOK, CloserTypes
  <2>3. ErrorsReported BY <2>1 DEF ErrorsReported, ErrorInv, ErrorsOf
  <2>4. ASSUME NEW c \in Closers \ raced, NEW x \in Things
        PROVE  /\ mf[c] = NoOne => added[c][x] = called[c][x] + Copies(Pending(c), x)
               /\ called[c][x] <= added[c][x]
    BY PendingIs, AddedFirst DEF Owed
  <2>5. QED BY <2>2, <2>3, <2>4 DEF CallsEach
<1>2. QED BY <1>1, CloserInitInv, CloserInductive, PTL DEF CloserSpec

-----------------------------------------------------------------------------
\* Calls do not wait in a circle. Who holds a mutex is in a call that keeps it ...
HeldInv == \A c \in Closers, q \in Procs :
  /\ mc[c] = q => \E n \in 1..Len(stack[q]) : Holds(stack[q][n]) /\ stack[q][n].on = c
  /\ mf[c] = q => stack[q] # <<>> /\ Keeps(stack[q][1], c)

\* ... and the closers have a depth d: what is made (m) and added to one is deeper than it,
Deeper(d, m, c, l) == \A i \in 1..Len(l) : l[i] \in m /\ (l[i] \in Closers => d[l[i]] > d[c])
FrameFor(d, m, f) == /\ f.on \in m /\ f.arg \in m /\ Deeper(d, m, f.on, f.left)
                     /\ f.op = "add" /\ f.arg \in Closers => d[f.arg] > d[f.on]
                     /\ f.op = "append" => <<f.on, f.arg>> \in Appends

\* so that in a stack a Do is below an Add only, and a Close below the Close of what is deeper.
Above(d, f, g) == \/ InDo(g) /\ f.op = "add"
                  \/ InClose(g) /\ f.op = "close" /\ d[f.on] > d[g.on]
StackFor(d, m, s) == /\ \A i \in 1..Len(s) : FrameFor(d, m, s[i])
                     /\ \A i, j \in 1..Len(s) : i < j => Above(d, s[i], s[j])

\* Roots are at depth 0, and nothing was added to what is not made.
DepthOf(d, top, m) ==
  /\ top \in Nat /\ d \in [Closers -> 0..top] /\ \A c \in Roots : c \in m /\ d[c] = 0
  /\ \A c \in Closers : Deeper(d, m, c, fs[c]) /\ (c \notin m => fs[c] = <<>>)
  /\ \A p \in Procs : StackFor(d, m, stack[p])
DepthInv == \E d, top : DepthOf(d, top, made)

WaitInv == CloserIInv /\ HeldInv /\ DepthInv

\* If all calls in progress waited, none would be an Append with one mutex, so that nobody
\* held a mutex mf; and the deepest mc that is waited for would be held by a Close that
\* is waiting for a deeper one.
LEMMA SomebodyGoesOn == AppendsOneWay /\ WaitInv => NobodyStuck
<1> SUFFICES ASSUME AppendsOneWay, WaitInv, NEW p0 \in Procs, stack[p0] # <<>>,
                    \A p \in Procs : stack[p] # <<>> => Waits(p)
             PROVE  FALSE
  BY DEF NobodyStuck
<1>1. CloserTypes /\ HeldInv BY DEF WaitInv, CloserIInv
<1>2. PICK d, top : DepthOf(d, top, made) BY DEF WaitInv, DepthInv
<1>3. ASSUME NEW p \in Procs, stack[p] # <<>>
      PROVE  /\ Top(p) = stack[p][1] /\ Top(p) \in Calling /\ Top(p).on \in Closers
             /\ Len(stack[p]) \in Nat /\ 1 \in 1..Len(stack[p]) /\ FrameFor(d, made, Top(p)) /\ Waits(p)
  <2>1. Top(p) = stack[p][1] /\ Top(p) \in Calling /\ Len(stack[p]) \in Nat \ {0} BY <1>1, <1>3, TopFacts
  <2>2. 1 \in 1..Len(stack[p]) /\ FrameFor(d, made, stack[p][1]) BY <1>2, <2>1 DEF DepthOf, StackFor
  <2>3. QED BY <1>3, <2>1, <2>2 DEF Calling
<1>4. ASSUME NEW c \in Closers, mf[c] # NoOne
      PROVE  /\ mf[c] \in Procs /\ stack[mf[c]] # <<>>
             /\ Top(mf[c]).op = "append" /\ Top(mf[c]).at = "second" /\ Top(mf[c]).on = c
  <2>1. mf[c] \in Procs BY <1>1, <1>4 DEF CloserTypes
  <2>2. stack[mf[c]] # <<>> /\ Keeps(stack[mf[c]][1], c) BY <1>1, <2>1 DEF HeldInv
  <2>3. Top(mf[c]) = stack[mf[c]][1] /\ Waits(mf[c]) BY <1>3, <2>1, <2>2
  <2>4. Top(mf[c]).at # "write" BY <2>3 DEF Waits
  <2>5. QED BY <2>1, <2>2, <2>3, <2>4 DEF Keeps, InAppend, InAdd
<1>5. \A c \in Closers : mf[c] = NoOne
  <2> DEFINE W == {a \in Appends : \E q \in Procs : /\ stack[q] # <<>>
                                                   /\ Top(q).op = "append" /\ Top(q).at = "second"
                                                   /\ Top(q).on = a[1] /\ Top(q).arg = a[2]}
  <2>1. ASSUME NEW c \in Closers, mf[c] # NoOne PROVE \E b \in W : b[1] = c
    <3>1. FrameFor(d, made, Top(mf[c])) BY <1>3, <1>4, <2>1
    <3>2. <<Top(mf[c]).on, Top(mf[c]).arg>> \in Appends BY <1>4, <2>1, <3>1 DEF FrameFor
    <3>3. <<Top(mf[c]).on, Top(mf[c]).arg>> \in W BY <1>4, <2>1, <3>2
    <3>4. QED BY <1>4, <2>1, <3>3
  <2>2. W = {}
    <3> SUFFICES ASSUME W # {} PROVE FALSE OBVIOUS
    <3>0. W \subseteq Appends OBVIOUS
    <3> HIDE DEF W
    <3>1. PICK a \in W : \A b \in W : b[1] # a[2] BY <3>0, W \in SUBSET Appends \ {{}} DEF AppendsOneWay
    <3> USE DEF W
    <3>2. a[2] \in Closers BY CloserAssumption
    <3>3. PICK q \in Procs : /\ stack[q] # <<>> /\ Top(q).op = "append" /\ Top(q).at = "second"
                             /\ Top(q).arg = a[2]
      OBVIOUS
    <3>4. Waits(q) BY <1>3, <3>3
    <3>5. mf[a[2]] # NoOne BY <3>3, <3>4 DEF Waits
    <3>6. QED BY <2>1, <3>1, <3>2, <3>5
  <2>3. QED BY <2>1, <2>2
<1>6. ASSUME NEW p \in Procs, stack[p] # <<>>
      PROVE  Top(p).op \in {"close", "do", "onclosed"} /\ Top(p).at = "start" /\ mc[Top(p).on] # NoOne
  <2>1. Waits(p) /\ Top(p).on \in Closers BY <1>3, <1>6
  <2>2. CASE Top(p).op = "append" /\ Top(p).at = "second"
    <3>1. <<Top(p).on, Top(p).arg>> \in Appends BY <1>3, <1>6, <2>2 DEF FrameFor
    <3>2. Top(p).arg \in Closers BY <3>1, CloserAssumption
    <3>3. QED BY <1>5, <2>1, <2>2, <3>2 DEF Waits
  <2>3. CASE ~(Top(p).op = "append" /\ Top(p).at = "second") BY <1>5, <2>1, <2>3 DEF Waits
  <2>4. QED BY <2>2, <2>3
<1> DEFINE Left(p) == top - d[Top(p).on]
           L == {Left(p) : p \in {q \in Procs : stack[q] # <<>>}}
<1>7. \A p \in Procs : stack[p] # <<>> => d[Top(p).on] \in 0..top /\ Left(p) \in Nat
  <2>1. top \in Nat /\ d \in [Closers -> 0..top] BY <1>2 DEF DepthOf
  <2>2. QED BY <1>3, <2>1
<1>8. L \in SUBSET Nat /\ L # {} BY <1>7
<1>9. PICK p \in Procs : stack[p] # <<>> /\ \A q \in Procs : stack[q] # <<>> => Left(p) <= Left(q)
  <2>1. PICK l \in L : \A k \in L : ~(<<k, l>> \in OpToRel(<, Nat))
    BY <1>8, NatLessThanWellFounded, WFMin
  <2>2. \A k \in L : k \in Nat /\ ~(k < l) BY <1>8, <2>1 DEF OpToRel
  <2>3. PICK p \in Procs : stack[p] # <<>> /\ l = Left(p) OBVIOUS
  <2>4. \A q \in Procs : stack[q] # <<>> => ~(Left(q) < Left(p)) BY <2>2, <2>3
  <2>5. QED BY <1>7, <2>3, <2>4
<1>10. PICK c \in Closers : c = Top(p).on /\ mc[c] # NoOne BY <1>3, <1>6, <1>9
<1>11. PICK h \in Procs : h = mc[c] BY <1>1, <1>10 DEF CloserTypes
<1>12. PICK n \in 1..Len(stack[h]) : Holds(stack[h][n]) /\ stack[h][n].on = c
  BY <1>1, <1>10, <1>11 DEF HeldInv
<1>13. stack[h] # <<>> BY <1>1, <1>12, StackFacts
<1>14. Top(h) = stack[h][1] /\ 1 \in 1..Len(stack[h]) /\ Top(h).at = "start" /\ Top(h).op # "add"
  BY <1>3, <1>6, <1>13
<1>15. n # 1 BY <1>12, <1>14 DEF Holds, InDo, InClose
<1>16. Above(d, stack[h][1], stack[h][n])
  <2>1. 1 < n BY <1>3, <1>12, <1>13, <1>15
  <2>2. QED BY <1>2, <1>12, <1>14, <2>1 DEF DepthOf, StackFor
<1>17. d[Top(h).on] > d[c] BY <1>12, <1>14, <1>16 DEF Above
<1>18. Left(h) < Left(p)
  <2>1. top \in Nat BY <1>2 DEF DepthOf
  <2>2. \A i, j \in 0..top : i > j => top - i < top - j BY <2>1
  <2>3. QED BY <1>7, <1>9, <1>10, <1>13, <1>17, <2>2
<1>19. QED BY <1>7, <1>9, <1>13, <1>18

-----------------------------------------------------------------------------
\* The steps of a call move the frames of one stack by k, and keep their depth.
Shifted(d, m, k, s, t) ==
  /\ Len(t) = Len(s) - k
  /\ \A i \in 1..Len(t) : /\ FrameFor(d, m, t[i])
                          /\ i + k >= 1 => t[i].op = s[i + k].op /\ t[i].on = s[i + k].on
  /\ \A i \in 2..Len(t) : t[i].at = s[i + k].at
  /\ k = -1 /\ Len(s) > 0 => Above(d, t[1], s[1])

LEMMA StackMoves ==
  ASSUME NEW top \in Nat, NEW d \in [Closers -> 0..top], NEW m, NEW k \in {-1, 0, 1},
         NEW s \in Seq(Calling), NEW t \in Seq(Calling), StackFor(d, m, s), Shifted(d, m, k, s, t)
  PROVE  StackFor(d, m, t)
<1>1. /\ Len(t) = Len(s) - k
      /\ \A i \in 1..Len(t) : FrameFor(d, m, t[i])
      /\ \A i \in 1..Len(t) : i + k >= 1 => t[i].op = s[i + k].op /\ t[i].on = s[i + k].on
      /\ \A i \in 2..Len(t) : t[i].at = s[i + k].at
      /\ k = -1 /\ Len(s) > 0 => Above(d, t[1], s[1])
  BY DEF Shifted
<1>2. \A f \in Calling : f.on \in Closers BY DEF Calling
<1>3. Len(s) \in Nat /\ Len(t) \in Nat /\ \A i \in 1..Len(s) : s[i].on \in Closers
  <2>1. \A i \in 1..Len(s) : s[i] \in Calling BY ElementOfSeq
  <2>2. QED BY <1>2, <2>1, LenProperties
<1>4. \A i \in 1..Len(t) : t[i].on \in Closers
  <2>1. \A i \in 1..Len(t) : t[i] \in Calling BY ElementOfSeq
  <2>2. QED BY <1>2, <2>1
<1>5. \A c \in Closers : d[c] \in Int OBVIOUS
<1>6. ASSUME NEW i \in 1..Len(t), NEW j \in 1..Len(t), i < j PROVE Above(d, t[i], t[j])
  <2>1. j + k \in 1..Len(s) /\ j \in 2..Len(t) /\ j + k >= 1 BY <1>1, <1>3, <1>6
  <2>2. t[j].op = s[j + k].op /\ t[j].on = s[j + k].on /\ t[j].at = s[j + k].at BY <1>1, <2>1
  <2>3. CASE i + k >= 1
    <3>1. i + k \in 1..Len(s) /\ i + k < j + k BY <1>3, <1>6, <2>1, <2>3
    <3>2. Above(d, s[i + k], s[j + k]) BY <2>1, <3>1 DEF StackFor
    <3>3. t[i].op = s[i + k].op /\ t[i].on = s[i + k].on BY <1>1, <2>3
    <3>4. QED BY <2>2, <3>2, <3>3 DEF Above, InDo, InClose
  <2>4. CASE ~(i + k >= 1)
    <3>1. i = 1 /\ k = -1 /\ Len(s) > 0 /\ 1 \in 1..Len(s) BY <1>3, <1>6, <2>1, <2>4
    <3>2. Above(d, t[1], s[1]) BY <1>1, <3>1
    <3>3. CASE j + k = 1 BY <2>2, <3>1, <3>2, <3>3 DEF Above, InDo, InClose
    <3>4. CASE j + k # 1
      <4>1. 1 < j + k BY <2>1, <3>4
      <4>2. Above(d, s[1], s[j + k]) BY <2>1, <3>1, <4>1 DEF StackFor
      <4>3. InClose(s[j + k]) /\ InClose(s[1]) BY <3>2, <4>2 DEF Above, InDo, InClose
      <4>4. t[1].op = "close" /\ d[t[1].on] > d[s[1].on] /\ d[s[1].on] > d[s[j + k].on]
        BY <3>2, <4>2, <4>3 DEF Above, InDo, InClose
      <4>5. d[t[1].on] > d[s[j + k].on]
        <5>1. t[1].on \in Closers /\ s[1].on \in Closers /\ s[j + k].on \in Closers
          BY <1>3, <1>4, <2>1, <3>1
        <5>2. d[t[1].on] \in Int /\ d[s[1].on] \in Int /\ d[s[j + k].on] \in Int BY <1>5, <5>1
        <5>3. QED BY <4>4, <5>2
      <4>6. QED BY <2>2, <3>1, <4>3, <4>4, <4>5 DEF Above, InDo, InClose
    <3>5. QED BY <3>3, <3>4
  <2>5. QED BY <2>3, <2>4
<1>7. QED BY <1>1, <1>6 DEF StackFor

\* The depth stays when one stack changes and what is added to a closer is deeper.
LEMMA DepthKept ==
  ASSUME CloserTypes, NEW d, NEW top, DepthOf(d, top, made'), NEW p \in Procs,
         \A q \in Procs \ {p} : stack'[q] = stack[q], StackFor(d, made', stack'[p]),
         \A c \in Closers : fs'[c] = fs[c] \/ (c \in made' /\ Deeper(d, made', c, fs'[c]))
  PROVE  DepthInv'
<1>1. \A c \in Closers : Deeper(d, made', c, fs'[c]) /\ (c \notin made' => fs'[c] = <<>>) BY DEF DepthOf
<1>2. \A q \in Procs : StackFor(d, made', stack'[q]) BY DEF DepthOf
<1>3. DepthOf(d, top, made)' BY ONLY <1>1, <1>2, DepthOf(d, top, made') DEF DepthOf
<1>4. QED BY <1>3 DEF DepthInv

\* A mutex stays with the frame that keeps it, is unlocked, or is locked by the innermost frame.
LEMMA MutexesKept ==
  ASSUME CloserTypes, HeldInv, NEW p \in Procs, NEW j \in Nat, NEW k \in {-1, 0, 1}, Moved(p, j, k),
         \A c \in Closers : \/ mc'[c] = mc[c] \/ mc'[c] = NoOne
                            \/ mc'[c] = p /\ stack'[p] # <<>> /\ Holds(stack'[p][1]) /\ stack'[p][1].on = c,
         \A i \in 1..Len(stack[p]) : Holds(stack[p][i]) =>
           \/ mc'[stack[p][i].on] = NoOne
           \/ /\ i - k \in 1..Len(stack'[p]) /\ Holds(stack'[p][i - k])
              /\ stack'[p][i - k].on = stack[p][i].on,
         \A c \in Closers : \/ mf'[c] = NoOne \/ (mf'[c] = mf[c] /\ mf[c] # p)
                            \/ mf'[c] = p /\ stack'[p] # <<>> /\ Keeps(stack'[p][1], c)
  PROVE  HeldInv'
<1>1. \A q \in Procs \ {p} : stack'[q] = stack[q] BY DEF Moved
<1>2. stack'[p] # <<>> => 1 \in 1..Len(stack'[p])
  <2>1. stack'[p] \in Seq(Calling) BY DEF Moved
  <2>2. QED BY <2>1, EmptySeq
<1>3. p # NoOne BY CloserAssumption
<1>4. ASSUME NEW c \in Closers, NEW q \in Procs, mc'[c] = q
      PROVE  \E n \in 1..Len(stack'[q]) : Holds(stack'[q][n]) /\ stack'[q][n].on = c
  <2>1. CASE mc'[c] = mc[c]
    <3>1. PICK n \in 1..Len(stack[q]) : Holds(stack[q][n]) /\ stack[q][n].on = c BY <1>4, <2>1 DEF HeldInv
    <3>2. CASE q = p
      <4>1. n - k \in 1..Len(stack'[p]) /\ Holds(stack'[p][n - k]) /\ stack'[p][n - k].on = c
        BY <1>3, <1>4, <3>1, <3>2
      <4>2. QED BY <3>2, <4>1
    <3>3. CASE q # p BY <1>1, <3>1, <3>3
    <3>4. QED BY <3>2, <3>3
  <2>2. CASE mc'[c] = p /\ stack'[p] # <<>> /\ Holds(stack'[p][1]) /\ stack'[p][1].on = c BY <1>2, <1>4, <2>2
  <2>3. mc'[c] # NoOne BY <1>4, CloserAssumption
  <2>4. QED BY <2>1, <2>2, <2>3
<1>5. ASSUME NEW c \in Closers, NEW q \in Procs, mf'[c] = q
      PROVE  stack'[q] # <<>> /\ Keeps(stack'[q][1], c)
  <2>1. mf'[c] # NoOne BY <1>4, <1>5, CloserAssumption
  <2>2. CASE mf'[c] = mf[c] /\ mf[c] # p
    <3>1. stack[q] # <<>> /\ Keeps(stack[q][1], c) BY <1>5, <2>2 DEF HeldInv
    <3>2. stack'[q] = stack[q] BY <1>1, <1>5, <2>2
    <3>3. QED BY <3>1, <3>2
  <2>3. QED BY <1>5, <2>1, <2>2
<1>6. QED BY <1>4, <1>5 DEF HeldInv

\* A step that changes the innermost frame only, and locks or hands on its mutexes.
LEMMA RelabelWaits ==
  ASSUME WaitInv, CloserIInv', NEW p \in Procs, stack[p] # <<>>, NEW g \in Calling, Becomes(p, g),
         g.op = Top(p).op, g.on = Top(p).on, g.arg = Top(p).arg,
         \A d, top : DepthOf(d, top, made) => Deeper(d, made, g.on, g.left),
         fs' = fs, made' = made, Holds(Top(p)) => Holds(g),
         \A c \in Closers : mc'[c] = mc[c] \/ (mc'[c] = p /\ Holds(g) /\ g.on = c),
         \A c \in Closers : \/ mf'[c] = NoOne \/ (mf'[c] = mf[c] /\ mf[c] # p)
                            \/ mf'[c] = p /\ Keeps(g, c)
  PROVE  WaitInv'
<1>1. CloserTypes /\ HeldInv /\ LockInv BY DEF WaitInv, CloserIInv
<1>2. Top(p) = stack[p][1] /\ Len(stack[p]) \in Nat \ {0} /\ stack[p] \in Seq(Calling)
  BY <1>1, TopFacts
<1>3. Moved(p, 2, 0) /\ stack'[p][1] = g BY <1>1, BecomesMoves
<1>4. /\ Len(stack'[p]) = Len(stack[p]) /\ \A i \in 2..Len(stack[p]) : stack'[p][i] = stack[p][i]
      /\ stack'[p] \in Seq(Calling) /\ stack'[p] # <<>> /\ \A q \in Procs \ {p} : stack'[q] = stack[q]
  <2>1. stack'[p] \in Seq(Calling) /\ Len(stack'[p]) = Len(stack[p]) BY <1>2, <1>3 DEF Moved
  <2>2. stack'[p] # <<>> BY <1>2, <2>1, EmptySeq
  <2>3. \A i \in 2..Len(stack[p]) : stack'[p][i] = stack[p][i] BY <1>2, <1>3, <2>1 DEF Moved
  <2>4. QED BY <1>3, <2>1, <2>2, <2>3 DEF Moved
<1>5. HeldInv'
  <2>1. ASSUME NEW i \in 1..Len(stack[p]), Holds(stack[p][i])
        PROVE  i - 0 \in 1..Len(stack'[p]) /\ Holds(stack'[p][i - 0]) /\ stack'[p][i - 0].on = stack[p][i].on
    <3>1. CASE i = 1 BY <1>2, <1>3, <1>4, <2>1, <3>1
    <3>2. CASE i # 1
      <4>1. i \in 2..Len(stack[p]) /\ i - 0 = i BY <1>2, <3>2
      <4>2. QED BY <1>4, <2>1, <4>1
    <3>3. QED BY <3>1, <3>2
  <2>2. \A c \in Closers : \/ mf'[c] = NoOne \/ (mf'[c] = mf[c] /\ mf[c] # p)
                           \/ mf'[c] = p /\ stack'[p] # <<>> /\ Keeps(stack'[p][1], c)
    BY <1>3, <1>4
  <2>3. \A c \in Closers : \/ mc'[c] = mc[c] \/ mc'[c] = NoOne
                           \/ mc'[c] = p /\ stack'[p] # <<>> /\ Holds(stack'[p][1]) /\ stack'[p][1].on = c
    BY <1>3, <1>4
  <2>4. QED BY <1>1, <1>3, <2>1, <2>2, <2>3, MutexesKept
<1>6. DepthInv'
  <2>1. PICK d, top : DepthOf(d, top, made) BY DEF WaitInv, DepthInv
  <2>2. top \in Nat /\ d \in [Closers -> 0..top] /\ StackFor(d, made, stack[p]) /\ Deeper(d, made, g.on, g.left)
    BY <2>1 DEF DepthOf
  <2>3. \A i \in 1..Len(stack[p]) : FrameFor(d, made, stack[p][i]) BY <2>2 DEF StackFor
  <2>4. FrameFor(d, made, g)
    <3>1. FrameFor(d, made, Top(p)) BY <1>2, <2>3
    <3>2. QED BY <2>2, <3>1 DEF FrameFor
  <2>5. \A i \in 1..Len(stack'[p]) : FrameFor(d, made, stack'[p][i]) BY <1>2, <1>3, <1>4, <2>3, <2>4
  <2>6. \A i \in 1..Len(stack'[p]) : i + 0 >= 1 => /\ stack'[p][i].op = stack[p][i + 0].op
                                                   /\ stack'[p][i].on = stack[p][i + 0].on
    BY <1>2, <1>3, <1>4
  <2>7. \A i \in 2..Len(stack'[p]) : stack'[p][i].at = stack[p][i + 0].at BY <1>2, <1>4
  <2>8. StackFor(d, made, stack'[p])
    <3>1. Len(stack'[p]) = Len(stack[p]) - 0 BY <1>2, <1>4
    <3>2. Shifted(d, made, 0, stack[p], stack'[p]) BY <2>5, <2>6, <2>7, <3>1 DEF Shifted
    <3>3. QED BY <1>2, <1>4, <2>2, <3>2, StackMoves
  <2>9. QED BY <1>1, <1>4, <2>1, <2>8, DepthKept
<1>7. QED BY <1>5, <1>6 DEF WaitInv

\* Two frames that differ in their errors at most.
Same(f, g) == f.op = g.op /\ f.on = g.on /\ f.arg = g.arg /\ f.at = g.at /\ f.left = g.left

\* A step that ends a call: the mutexes of its frame are unlocked, and what it has
\* added is deeper.
LEMMA ReturnWaits ==
  ASSUME WaitInv, CloserIInv', NEW p \in Procs, stack[p] # <<>>, Pop(p) \/ Return(p), made' = made,
         \A d, top : \A c \in Closers : DepthOf(d, top, made) /\ fs'[c] # fs[c] => c \in made /\ Deeper(d, made, c, fs'[c]),
         \A c \in Closers : mc'[c] = mc[c] \/ mc'[c] = NoOne,
         Holds(Top(p)) => mc'[Top(p).on] = NoOne,
         \A c \in Closers : mf'[c] = NoOne \/ (mf'[c] = mf[c] /\ (mf[c] = p => ~Keeps(Top(p), c)))
  PROVE  WaitInv'
<1>1. CloserTypes /\ HeldInv /\ LockInv BY DEF WaitInv, CloserIInv
<1>2. Top(p) = stack[p][1] /\ Len(stack[p]) \in Nat \ {0} /\ stack[p] \in Seq(Calling)
  BY <1>1, TopFacts
<1>3. /\ Moved(p, 2, 1) /\ \A i \in 1..Len(stack'[p]) : Same(stack'[p][i], stack[p][i + 1])
  <2>1. CASE Pop(p)
    <3>1. Moved(p, 1, 1) BY <1>1, <2>1, PopMoves
    <3>2. \A i \in 1..Len(stack'[p]) : stack'[p][i] = stack[p][i + 1] BY <3>1 DEF Moved
    <3>3. QED BY <1>2, <3>1, <3>2 DEF Moved, Same
  <2>2. CASE Return(p)
    <3>1. /\ Moved(p, 2, 1)
          /\ Len(stack[p]) > 1 => stack'[p][1] = [stack[p][2] EXCEPT !.err = stack[p][2].err \/ Top(p).err]
      BY <1>1, <2>2, ReturnMoves
    <3>2. ASSUME NEW i \in 1..Len(stack'[p]) PROVE Same(stack'[p][i], stack[p][i + 1])
      <4>1. Len(stack'[p]) = Len(stack[p]) - 1 BY <3>1 DEF Moved
      <4>2. CASE i = 1
        <5>1. Len(stack[p]) > 1 /\ 2 \in 1..Len(stack[p]) /\ i + 1 = 2 BY <1>2, <4>1, <4>2
        <5>2. stack[p][2] \in Calling BY <1>1, <5>1, TopFacts
        <5>3. QED BY <3>1, <4>2, <5>1, <5>2 DEF Same, Calling
      <4>3. CASE i # 1
        <5>1. i \in 2..Len(stack'[p]) BY <1>2, <4>1, <4>3
        <5>2. QED BY <3>1, <5>1 DEF Moved, Same
      <4>4. QED BY <4>2, <4>3
    <3>3. QED BY <3>1, <3>2
  <2>3. QED BY <2>1, <2>2
<1>4. /\ Len(stack'[p]) = Len(stack[p]) - 1 /\ stack'[p] \in Seq(Calling)
      /\ \A q \in Procs \ {p} : stack'[q] = stack[q]
  BY <1>3 DEF Moved
<1>5. HeldInv'
  <2>1. ASSUME NEW i \in 1..Len(stack[p]), Holds(stack[p][i])
        PROVE  \/ mc'[stack[p][i].on] = NoOne
               \/ i - 1 \in 1..Len(stack'[p]) /\ Holds(stack'[p][i - 1]) /\ stack'[p][i - 1].on = stack[p][i].on
    <3>1. CASE i = 1 BY <1>2, <2>1, <3>1
    <3>2. CASE i # 1
      <4>1. i - 1 \in 1..Len(stack'[p]) /\ i - 1 + 1 = i BY <1>2, <1>4, <3>2
      <4>2. Same(stack'[p][i - 1], stack[p][i]) BY <1>3, <4>1
      <4>3. QED BY <2>1, <4>1, <4>2 DEF Same, Holds, InDo, InClose
    <3>3. QED BY <3>1, <3>2
  <2>2. ASSUME NEW c \in Closers PROVE mf'[c] = NoOne \/ (mf'[c] = mf[c] /\ mf[c] # p)
    <3>1. mf[c] = p => Keeps(Top(p), c) BY <1>1, <1>2 DEF HeldInv
    <3>2. QED BY <3>1
  <2>3. QED BY <1>1, <1>3, <2>1, <2>2, MutexesKept
<1>6. DepthInv'
  <2>1. PICK d, top : DepthOf(d, top, made) BY DEF WaitInv, DepthInv
  <2>2. top \in Nat /\ d \in [Closers -> 0..top] /\ StackFor(d, made, stack[p])
    BY <2>1 DEF DepthOf
  <2>3. ASSUME NEW i \in 1..Len(stack'[p])
        PROVE  i + 1 \in 1..Len(stack[p]) /\ Same(stack'[p][i], stack[p][i + 1])
    BY <1>2, <1>3, <1>4
  <2>4. \A i \in 1..Len(stack'[p]) : FrameFor(d, made, stack'[p][i])
    <3> TAKE i \in 1..Len(stack'[p])
    <3>1. FrameFor(d, made, stack[p][i + 1]) BY <2>2, <2>3 DEF StackFor
    <3>2. Same(stack'[p][i], stack[p][i + 1]) BY <2>3
    <3>3. QED BY ONLY <3>1, <3>2 DEF Same, FrameFor
  <2>5. StackFor(d, made, stack'[p])
    <3>1. \A i \in 1..Len(stack'[p]) : i + 1 >= 1 => /\ stack'[p][i].op = stack[p][i + 1].op
                                                     /\ stack'[p][i].on = stack[p][i + 1].on
      BY <2>3 DEF Same
    <3>2. \A i \in 2..Len(stack'[p]) : stack'[p][i].at = stack[p][i + 1].at
      <4>1. \A i \in 2..Len(stack'[p]) : i \in 1..Len(stack'[p]) OBVIOUS
      <4>2. QED BY <2>3, <4>1 DEF Same
    <3>3. Shifted(d, made, 1, stack[p], stack'[p]) BY <1>4, <2>4, <3>1, <3>2 DEF Shifted
    <3>4. QED BY <1>2, <1>4, <2>2, <3>3, StackMoves
  <2>6. \A c \in Closers : fs'[c] = fs[c] \/ (c \in made /\ Deeper(d, made, c, fs'[c])) BY <2>1
  <2>7. QED BY <1>1, <1>4, <2>1, <2>5, <2>6, DepthKept
<1>7. QED BY <1>5, <1>6 DEF WaitInv

\* A call from outside, or of Add from the fn of Do, and the Close of a child.
LEMMA PushWaits ==
  ASSUME WaitInv, CloserIInv', NEW p \in Procs, NEW f \in Calling, Push(p, f),
         stack[p] = <<>> \/ (InDo(stack[p][1]) /\ f.op = "add"), f.at = "start",
         fs' = fs, mc' = mc, mf' = mf, NEW d, NEW top, DepthOf(d, top, made'), FrameFor(d, made', f)
  PROVE  WaitInv'
<1>1. CloserTypes /\ HeldInv /\ LockInv BY DEF WaitInv, CloserIInv
<1>2. /\ stack[p] \in Seq(Calling) /\ Len(stack[p]) \in Nat /\ (stack[p] # <<>> <=> Len(stack[p]) > 0)
      /\ Moved(p, 2, -1) /\ stack'[p][1] = f
  BY <1>1, StackFacts, PushMoves
<1>3. /\ stack'[p] \in Seq(Calling) /\ Len(stack'[p]) = Len(stack[p]) + 1
      /\ \A i \in 1..Len(stack[p]) : i + 1 \in 2..Len(stack'[p]) /\ stack'[p][i + 1] = stack[p][i]
      /\ \A i \in 2..Len(stack'[p]) : i - 1 \in 1..Len(stack[p]) /\ stack'[p][i] = stack[p][i - 1]
      /\ \A q \in Procs \ {p} : stack'[q] = stack[q]
  <2>1. stack'[p] \in Seq(Calling) /\ Len(stack'[p]) = Len(stack[p]) + 1 BY <1>2 DEF Moved
  <2>2. \A i \in 2..Len(stack'[p]) : i - 1 \in 1..Len(stack[p]) /\ stack'[p][i] = stack[p][i - 1]
    BY <1>2, <2>1 DEF Moved
  <2>3. \A i \in 1..Len(stack[p]) : i + 1 \in 2..Len(stack'[p]) /\ i + 1 - 1 = i BY <1>2, <2>1
  <2>4. ASSUME NEW i \in 1..Len(stack[p]) PROVE i + 1 \in 2..Len(stack'[p]) /\ stack'[p][i + 1] = stack[p][i]
    <3>1. i + 1 \in 2..Len(stack'[p]) /\ i + 1 - 1 = i BY ONLY <2>3
    <3>2. stack'[p][i + 1] = stack[p][i + 1 - 1] BY ONLY <2>2, <3>1
    <3>3. QED BY ONLY <3>1, <3>2
  <2>5. \A q \in Procs \ {p} : stack'[q] = stack[q] BY <1>2 DEF Moved
  <2>6. QED BY ONLY <2>1, <2>2, <2>4, <2>5
<1>4. HeldInv'
  <2>1. \A i \in 1..Len(stack[p]) : /\ i - (-1) \in 1..Len(stack'[p]) /\ stack'[p][i - (-1)] = stack[p][i]
    <3>1. \A i \in 1..Len(stack[p]) : i - (-1) = i + 1 /\ i + 1 \in 1..Len(stack'[p]) BY <1>2, <1>3
    <3>2. QED BY <1>3, <3>1
  <2>2. ASSUME NEW c \in Closers PROVE mf[c] # p
    <3>1. mf[c] = p => stack[p] # <<>> /\ Keeps(stack[p][1], c) BY <1>1 DEF HeldInv
    <3>2. QED BY <3>1 DEF Keeps, InAppend, InAdd, InDo
  <2>3. QED BY <1>1, <1>2, <2>1, <2>2, MutexesKept
<1>5. DepthInv'
  <2>1. top \in Nat /\ d \in [Closers -> 0..top] /\ StackFor(d, made', stack[p]) BY DEF DepthOf
  <2>2. Shifted(d, made', -1, stack[p], stack'[p])
    <3>1. \A i \in 1..Len(stack'[p]) : FrameFor(d, made', stack'[p][i])
      <4>1. \A i \in 2..Len(stack'[p]) : FrameFor(d, made', stack'[p][i]) BY <1>3, <2>1 DEF StackFor
      <4>2. QED BY <1>2, <1>3, <4>1
    <3>2. ASSUME NEW i \in 1..Len(stack'[p]), i + (-1) >= 1
          PROVE  /\ stack'[p][i].op = stack[p][i + (-1)].op /\ stack'[p][i].on = stack[p][i + (-1)].on
                 /\ stack'[p][i].at = stack[p][i + (-1)].at
      <4>1. i \in 2..Len(stack'[p]) /\ i + (-1) = i - 1 BY <3>2
      <4>2. QED BY <1>3, <4>1
    <3>3. \A i \in 2..Len(stack'[p]) : i \in 1..Len(stack'[p]) /\ i + (-1) >= 1 BY <1>2, <1>3
    <3>4. Len(stack[p]) > 0 => Above(d, stack'[p][1], stack[p][1]) BY <1>2 DEF Above
    <3>5. Len(stack'[p]) = Len(stack[p]) - (-1) BY <1>2, <1>3
    <3>6. QED BY <3>1, <3>2, <3>3, <3>4, <3>5 DEF Shifted
  <2>3. StackFor(d, made', stack'[p]) BY <1>2, <1>3, <2>1, <2>2, StackMoves
  <2>4. QED BY <1>1, <1>3, <2>3, DepthKept
<1>6. QED BY <1>4, <1>5 DEF WaitInv

\* The child was added to the closer, so that it is deeper.
LEMMA ChildWaits ==
  ASSUME WaitInv, CloserIInv', NEW p \in Procs, NEW k \in Closers, CallChild(p, k)
  PROVE  WaitInv'
<1>1. CloserTypes /\ HeldInv /\ LockInv BY DEF WaitInv, CloserIInv
<1>2. /\ stack[p] # <<>> /\ Top(p).op = "close" /\ Top(p).at = "call" /\ Top(p).left # <<>> /\ Head(Top(p).left) = k
      /\ fs' = fs /\ mc' = mc /\ mf' = mf /\ made' = made
      /\ stack' = [stack EXCEPT ![p] = <<Frame("close", k, k), [Top(p) EXCEPT !.left = Tail(Top(p).left)]>> \o Tail(@)]
  BY DEF CallChild, Calls, Runs
<1>3. Top(p) = stack[p][1] /\ Len(stack[p]) \in Nat \ {0} /\ stack[p] \in Seq(Calling) /\ Top(p) \in Calling
  BY <1>1, <1>2, TopFacts
<1> DEFINE f == Frame("close", k, k)  g == [Top(p) EXCEPT !.left = Tail(Top(p).left)]  l == Top(p).left
<1>4. l \in Seq(Things) /\ l # <<>> BY <1>2, <1>3 DEF Calling
<1>5. /\ Head(l) = l[1] /\ 1 \in 1..Len(l) /\ Tail(l) \in Seq(Things) /\ Len(Tail(l)) = Len(l) - 1
      /\ \A i \in 1..Len(Tail(l)) : i + 1 \in 1..Len(l) /\ Tail(l)[i] = l[i + 1]
  <2>1. Head(l) = l[1] /\ Len(l) \in Nat \ {0} /\ Tail(l) \in Seq(Things) /\ Len(Tail(l)) = Len(l) - 1
        /\ \A i \in 1..Len(Tail(l)) : Tail(l)[i] = l[i + 1]
    BY <1>4, First
  <2>2. \A i \in 1..Len(Tail(l)) : i + 1 \in 1..Len(l) BY <2>1
  <2>3. QED BY <2>1, <2>2
<1>6. /\ f \in Calling /\ f.op = "close" /\ f.on = k /\ f.arg = k /\ f.left = <<>> /\ f.at = "start"
  <2>1. k \in Things BY DEF Things
  <2>2. QED BY <2>1, EmptySeq DEF Frame, Calling
<1>7. /\ g \in Calling /\ g.op = "close" /\ g.at = "call" /\ g.on = Top(p).on /\ g.arg = Top(p).arg
      /\ g.left = Tail(l)
  BY <1>2, <1>3, <1>5 DEF Calling
<1>8. stack' = [stack EXCEPT ![p] = <<f, g>> \o Tail(@)] BY <1>2
<1> HIDE DEF f, g, l
<1>9. Moved(p, 3, -1) /\ stack'[p][1] = f /\ stack'[p][2] = g BY <1>1, <1>2, <1>6, <1>7, <1>8, ChildMoves
<1>10. /\ stack'[p] \in Seq(Calling) /\ Len(stack'[p]) = Len(stack[p]) + 1
       /\ \A i \in 3..Len(stack'[p]) : i - 1 \in 2..Len(stack[p]) /\ stack'[p][i] = stack[p][i - 1]
       /\ \A q \in Procs \ {p} : stack'[q] = stack[q]
  <2>1. stack'[p] \in Seq(Calling) /\ Len(stack'[p]) = Len(stack[p]) + 1 BY <1>3, <1>9 DEF Moved
  <2>2. \A i \in 3..Len(stack'[p]) : i - 1 \in 2..Len(stack[p]) /\ stack'[p][i] = stack[p][i - 1]
    BY <1>3, <1>9, <2>1 DEF Moved
  <2>3. QED BY <1>9, <2>1, <2>2 DEF Moved
<1>11. \A i \in 2..Len(stack'[p]) :
         /\ i - 1 \in 1..Len(stack[p]) /\ stack'[p][i].op = stack[p][i - 1].op
         /\ stack'[p][i].on = stack[p][i - 1].on /\ stack'[p][i].at = stack[p][i - 1].at
  <2> SUFFICES ASSUME NEW i \in 2..Len(stack'[p])
               PROVE  /\ i - 1 \in 1..Len(stack[p]) /\ stack'[p][i].op = stack[p][i - 1].op
                      /\ stack'[p][i].on = stack[p][i - 1].on /\ stack'[p][i].at = stack[p][i - 1].at
    OBVIOUS
  <2>1. CASE i = 2 BY <1>2, <1>3, <1>7, <1>9, <2>1
  <2>2. CASE i # 2
    <3>1. i \in 3..Len(stack'[p]) BY <2>2
    <3>2. QED BY <1>10, <3>1
  <2>3. QED BY <2>1, <2>2
<1>12. HeldInv'
  <2>1. ASSUME NEW i \in 1..Len(stack[p]), Holds(stack[p][i])
        PROVE  /\ i - (-1) \in 1..Len(stack'[p]) /\ Holds(stack'[p][i - (-1)])
               /\ stack'[p][i - (-1)].on = stack[p][i].on
    <3>1. i - (-1) = i + 1 /\ i + 1 \in 2..Len(stack'[p]) /\ i + 1 \in 1..Len(stack'[p]) /\ i + 1 - 1 = i
      BY <1>3, <1>10
    <3>2. /\ stack'[p][i + 1].op = stack[p][i].op /\ stack'[p][i + 1].on = stack[p][i].on
          /\ stack'[p][i + 1].at = stack[p][i].at
      BY <1>11, <3>1
    <3>3. Holds(stack'[p][i + 1]) BY <2>1, <3>2 DEF Holds, InDo, InClose
    <3>4. QED BY <3>1, <3>2, <3>3
  <2>2. ASSUME NEW c \in Closers PROVE mf[c] # p
    <3>1. mf[c] = p => Keeps(Top(p), c) BY <1>1, <1>3 DEF HeldInv
    <3>2. QED BY <1>2, <3>1 DEF Keeps, InAppend, InAdd
  <2>3. QED BY <1>1, <1>2, <1>9, <2>1, <2>2, MutexesKept
<1>13. DepthInv'
  <2>1. PICK d, top : DepthOf(d, top, made) BY DEF WaitInv, DepthInv
  <2>2. top \in Nat /\ d \in [Closers -> 0..top] /\ StackFor(d, made, stack[p]) BY <2>1 DEF DepthOf
  <2>3. FrameFor(d, made, Top(p)) BY <1>3, <2>2 DEF StackFor
  <2>4. k \in made /\ d[k] > d[Top(p).on] BY <1>2, <1>5, <2>3 DEF FrameFor, Deeper, l
  <2>5. FrameFor(d, made, f) BY <1>6, <2>4, EmptySeq DEF FrameFor, Deeper
  <2>6. Deeper(d, made, g.on, g.left) BY <1>5, <1>7, <2>3 DEF FrameFor, Deeper, l
  <2>7. FrameFor(d, made, g) BY <1>7, <2>3, <2>6 DEF FrameFor
  <2>8. Shifted(d, made, -1, stack[p], stack'[p])
    <3>1. \A i \in 1..Len(stack'[p]) : FrameFor(d, made, stack'[p][i])
      <4>1. \A i \in 3..Len(stack'[p]) : FrameFor(d, made, stack'[p][i])
        <5>1. \A i \in 3..Len(stack'[p]) : i - 1 \in 1..Len(stack[p]) BY <1>10
        <5>2. QED BY <1>10, <2>2, <5>1 DEF StackFor
      <4>2. \A i \in 1..Len(stack'[p]) : i = 1 \/ i = 2 \/ i \in 3..Len(stack'[p]) BY <1>3, <1>10
      <4>3. QED BY <1>9, <2>5, <2>7, <4>1, <4>2
    <3>2. ASSUME NEW i \in 1..Len(stack'[p]), i + (-1) >= 1
          PROVE  /\ stack'[p][i].op = stack[p][i + (-1)].op /\ stack'[p][i].on = stack[p][i + (-1)].on
                 /\ stack'[p][i].at = stack[p][i + (-1)].at
      <4>1. i \in 2..Len(stack'[p]) /\ i + (-1) = i - 1 BY <3>2
      <4>2. QED BY <1>11, <4>1
    <3>3. \A i \in 2..Len(stack'[p]) : i \in 1..Len(stack'[p]) /\ i + (-1) >= 1 BY <1>3, <1>10
    <3>4. Above(d, stack'[p][1], stack[p][1]) BY <1>2, <1>3, <1>6, <1>9, <2>4 DEF Above, InClose
    <3>5. Len(stack'[p]) = Len(stack[p]) - (-1) BY <1>3, <1>10
    <3>6. QED BY <3>1, <3>2, <3>3, <3>4, <3>5 DEF Shifted
  <2>9. StackFor(d, made, stack'[p]) BY <1>3, <1>10, <2>2, <2>8, StackMoves
  <2>10. \A q \in Procs \ {p} : stack'[q] = stack[q] BY <1>10
  <2>11. QED BY <1>1, <1>2, <2>1, <2>9, <2>10, DepthKept
<1>14. QED BY <1>12, <1>13 DEF WaitInv

\* What is created next can be deeper than everything else.
LEMMA FreshDepth ==
  ASSUME CloserTypes, NEW d, NEW top, DepthOf(d, top, made), NEW x \in Things, x \notin made,
         NEW e, e = [c \in Closers |-> IF c = x THEN top + 1 ELSE d[c]]
  PROVE  /\ DepthOf(e, top + 1, made \cup {x})
         /\ x \in Closers => \A c \in Closers : c \in made => e[x] > e[c]
<1> DEFINE m == made \cup {x}
<1>1. top \in Nat /\ d \in [Closers -> 0..top] BY DEF DepthOf
<1>2. e \in [Closers -> 0..top + 1] /\ \A c \in Closers : c \in made => e[c] = d[c] /\ e[c] <= top
  <2>1. \A c \in Closers : d[c] \in 0..top /\ 0..top \subseteq 0..top + 1 BY <1>1
  <2>2. \A c \in Closers : e[c] \in 0..top + 1 BY <1>1, <2>1
  <2>3. QED BY <1>1, <2>1, <2>2
<1>3. x \in Closers => e[x] = top + 1 OBVIOUS
<1>4. ASSUME NEW c \in Closers, c \in made, NEW l, Deeper(d, made, c, l) PROVE Deeper(e, m, c, l)
  BY <1>2, <1>4 DEF Deeper
<1>5. ASSUME NEW f \in Calling, FrameFor(d, made, f) PROVE FrameFor(e, m, f)
  <2>1. f.on \in Closers BY DEF Calling
  <2>2. f.on \in made /\ f.arg \in made /\ Deeper(d, made, f.on, f.left) BY <1>5 DEF FrameFor
  <2>3. Deeper(e, m, f.on, f.left) BY <1>4, <2>1, <2>2
  <2>4. f.arg \in Closers => e[f.arg] = d[f.arg] BY <1>2, <2>2
  <2>5. e[f.on] = d[f.on] BY <1>2, <2>1, <2>2
  <2>6. QED BY <1>5, <2>2, <2>3, <2>4, <2>5 DEF FrameFor
<1>6. \A c \in Roots : c \in m /\ e[c] = 0
  <2>1. \A c \in Roots : c \in Closers /\ c \in made /\ d[c] = 0 BY CloserAssumption DEF DepthOf
  <2>2. QED BY <1>2, <2>1
<1>7. \A c \in Closers : Deeper(e, m, c, fs[c]) /\ (c \notin m => fs[c] = <<>>)
  <2> SUFFICES ASSUME NEW c \in Closers PROVE Deeper(e, m, c, fs[c]) /\ (c \notin m => fs[c] = <<>>) OBVIOUS
  <2>1. Deeper(d, made, c, fs[c]) /\ (c \notin made => fs[c] = <<>>) BY DEF DepthOf
  <2>2. CASE c \in made BY <1>4, <2>1, <2>2
  <2>3. CASE c \notin made
    <3>1. Len(fs[c]) = 0 BY <2>1, <2>3, EmptySeq
    <3>2. QED BY <2>1, <2>3, <3>1 DEF Deeper
  <2>4. QED BY <2>2, <2>3
<1>8. ASSUME NEW q \in Procs PROVE StackFor(e, m, stack[q])
  <2>1. \A i \in 1..Len(stack[q]) : stack[q][i] \in Calling BY StackFacts
  <2>2. StackFor(d, made, stack[q]) BY DEF DepthOf
  <2>3. \A i \in 1..Len(stack[q]) : FrameFor(d, made, stack[q][i]) BY <2>2 DEF StackFor
  <2>4. \A i \in 1..Len(stack[q]) : e[stack[q][i].on] = d[stack[q][i].on]
    BY <1>2, <2>1, <2>3 DEF FrameFor, Calling
  <2>5. ASSUME NEW i \in 1..Len(stack[q]), NEW j \in 1..Len(stack[q]), i < j
        PROVE  Above(e, stack[q][i], stack[q][j])
    <3>1. Above(d, stack[q][i], stack[q][j]) BY <2>2, <2>5 DEF StackFor
    <3>2. QED BY <2>4, <3>1 DEF Above
  <2>6. \A i \in 1..Len(stack[q]) : FrameFor(e, m, stack[q][i]) BY <1>5, <2>1, <2>3
  <2>7. QED BY <2>5, <2>6 DEF StackFor
<1>9. DepthOf(e, top + 1, m)
  <2>1. top + 1 \in Nat BY <1>1
  <2> HIDE DEF m
  <2>2. QED BY ONLY <1>2, <1>6, <1>7, <1>8, <2>1 DEF DepthOf
<1>10. QED
  <2>1. x \in Closers => \A c \in Closers : c \in made => e[x] > e[c] BY <1>1, <1>2, <1>3
  <2>2. QED BY <1>9, <2>1

\* What the innermost frame of a goroutine knows.
LEMMA TopWaits ==
  ASSUME CloserTypes, HeldInv, NEW p \in Procs, stack[p] # <<>>
  PROVE  /\ Top(p) \in Calling /\ Top(p).on \in Closers
         /\ \A c \in Closers : mf[c] = p => Keeps(Top(p), c)
         /\ \A d, top : DepthOf(d, top, made) => FrameFor(d, made, Top(p))
<1>1. Top(p) = stack[p][1] /\ Top(p) \in Calling /\ 1 \in 1..Len(stack[p]) BY TopFacts
<1>2. \A c \in Closers : mf[c] = p => Keeps(Top(p), c) BY <1>1 DEF HeldInv
<1>3. \A d, top : DepthOf(d, top, made) => FrameFor(d, made, Top(p)) BY <1>1 DEF DepthOf, StackFor
<1>4. QED BY <1>1, <1>2, <1>3 DEF Calling

\* Close and Do wait for mc, and then hold it ...
LEMMA LockWaits ==
  ASSUME WaitInv, CloserIInv', NEW p \in Procs, CloseLock(p) \/ DoLock(p)
  PROVE  WaitInv'
<1>1. CloserTypes /\ HeldInv BY DEF WaitInv, CloserIInv
<1>2. stack[p] # <<>> /\ Top(p).op \in {"close", "do"} /\ Top(p).at = "start" BY DEF CloseLock, DoLock, Runs
<1>3. /\ Top(p) \in Calling /\ Top(p).on \in Closers /\ \A c \in Closers : mf[c] = p => Keeps(Top(p), c)
      /\ \A d, top : DepthOf(d, top, made) => FrameFor(d, made, Top(p))
  BY <1>1, <1>2, TopWaits
<1>4. PICK a \in {"funcs", "fn"} : /\ Becomes(p, [Top(p) EXCEPT !.at = a])
                                   /\ a = IF Top(p).op = "close" THEN "funcs" ELSE "fn"
  BY DEF CloseLock, DoLock, Runs
<1>5. PICK g \in Calling : /\ g = [Top(p) EXCEPT !.at = a] /\ g.op = Top(p).op /\ g.on = Top(p).on
                           /\ g.arg = Top(p).arg /\ g.left = Top(p).left /\ g.at = a
  <2> DEFINE h == [Top(p) EXCEPT !.at = a]
  <2>1. /\ h \in Calling /\ h.op = Top(p).op /\ h.on = Top(p).on
        /\ h.arg = Top(p).arg /\ h.left = Top(p).left /\ h.at = a
    BY <1>3 DEF Calling
  <2> HIDE DEF h
  <2>2. QED BY <2>1 DEF h
<1>6. Holds(g) BY <1>2, <1>4, <1>5 DEF Holds, InDo
<1>7. fs' = fs /\ made' = made /\ mf' = mf /\ mc' = [mc EXCEPT ![Top(p).on] = p]
  BY DEF CloseLock, DoLock, Lock
<1>8. \A c \in Closers : mc'[c] = mc[c] \/ (mc'[c] = p /\ Holds(g) /\ g.on = c)
  <2>1. mc \in [Closers -> Procs \cup {NoOne}] BY <1>1 DEF CloserTypes
  <2>2. QED BY <1>5, <1>6, <1>7, <2>1
<1>9. \A c \in Closers : mf'[c] = mf[c] /\ mf[c] # p
  BY <1>2, <1>3, <1>7 DEF Keeps, InAdd, InAppend
<1>10. \A d, top : DepthOf(d, top, made) => Deeper(d, made, g.on, g.left) BY <1>3, <1>5 DEF FrameFor
<1>11. Becomes(p, g) BY <1>4, <1>5
<1>12. g.op = Top(p).op /\ g.on = Top(p).on /\ g.arg = Top(p).arg /\ fs' = fs /\ made' = made BY <1>5, <1>7
<1>13. QED BY ONLY WaitInv, CloserIInv', g \in Calling, <1>2, <1>6, <1>8, <1>9, <1>10, <1>11, <1>12, RelabelWaits

\* ... and Close copies the funcs and calls them.
LEMMA CloseWaits ==
  ASSUME WaitInv, CloserIInv', NEW p \in Procs, CloseGet(p) \/ \E f \in Funcs : CallFunc(p, f)
  PROVE  WaitInv'
<1>1. CloserTypes /\ HeldInv BY DEF WaitInv, CloserIInv
<1>2. stack[p] # <<>> /\ Top(p).op = "close" BY DEF CloseGet, CallFunc, Calls, Runs
<1>3. /\ Top(p) \in Calling /\ Top(p).on \in Closers /\ \A c \in Closers : mf[c] = p => Keeps(Top(p), c)
      /\ \A d, top : DepthOf(d, top, made) => FrameFor(d, made, Top(p))
  BY <1>1, <1>2, TopWaits
<1>4. fs' = fs /\ made' = made /\ mf' = mf /\ mc' = mc BY DEF CloseGet, CallFunc, Calls
<1>5. \A c \in Closers : mf'[c] = mf[c] /\ mf[c] # p BY <1>2, <1>3, <1>4 DEF Keeps, InAdd, InAppend
<1>6. CASE CloseGet(p)
  <2>1. fs[Top(p).on] \in Seq(Things) BY <1>1, <1>3 DEF CloserTypes
  <2>2. PICK g \in Calling : /\ Becomes(p, g) /\ g.op = Top(p).op /\ g.on = Top(p).on /\ g.arg = Top(p).arg
                             /\ g.left = fs[Top(p).on] /\ g.at = "call"
    <3> DEFINE h == [Top(p) EXCEPT !.at = "call", !.left = fs[Top(p).on]]
    <3>1. /\ h \in Calling /\ h.op = Top(p).op /\ h.on = Top(p).on /\ h.arg = Top(p).arg
          /\ h.left = fs[Top(p).on] /\ h.at = "call"
      BY <1>3, <2>1 DEF Calling
    <3>2. Becomes(p, h) BY <1>6 DEF CloseGet
    <3> HIDE DEF h
    <3>3. QED BY <3>1, <3>2
  <2>3. \A d, top : DepthOf(d, top, made) => Deeper(d, made, g.on, g.left) BY <1>3, <2>2 DEF DepthOf
  <2>4. Holds(g) BY <1>2, <2>2 DEF Holds, InClose
  <2>5. QED BY <1>2, <1>4, <1>5, <2>2, <2>3, <2>4, RelabelWaits
<1>7. CASE \E f \in Funcs : CallFunc(p, f)
  <2>1. Top(p).at = "call" /\ Top(p).left # <<>> BY <1>7 DEF CallFunc, Calls, Runs
  <2>2. PICK l \in Seq(Things) : l = Top(p).left BY <1>3 DEF Calling
  <2>3. /\ Tail(l) \in Seq(Things) /\ Len(l) \in Nat \ {0} /\ Len(Tail(l)) = Len(l) - 1
        /\ \A i \in 1..Len(Tail(l)) : Tail(l)[i] = l[i + 1]
    BY <2>1, <2>2, First
  <2>4. PICK bad \in BOOLEAN : Becomes(p, [Top(p) EXCEPT !.left = Tail(Top(p).left), !.err = Top(p).err \/ bad])
    BY <1>7 DEF CallFunc
  <2>5. PICK g \in Calling : /\ Becomes(p, g) /\ g.op = Top(p).op /\ g.on = Top(p).on /\ g.arg = Top(p).arg
                             /\ g.left = Tail(l) /\ g.at = "call"
    <3> DEFINE h == [Top(p) EXCEPT !.left = Tail(Top(p).left), !.err = Top(p).err \/ bad]
    <3>1. /\ h \in Calling /\ h.op = Top(p).op /\ h.on = Top(p).on /\ h.arg = Top(p).arg
          /\ h.left = Tail(l) /\ h.at = "call"
      BY <1>3, <2>1, <2>2, <2>3 DEF Calling
    <3>2. Becomes(p, h) BY <2>4
    <3> HIDE DEF h
    <3>3. QED BY <3>1, <3>2
  <2>6. \A d, top : DepthOf(d, top, made) => Deeper(d, made, g.on, g.left)
    <3> SUFFICES ASSUME NEW d, NEW top, DepthOf(d, top, made) PROVE Deeper(d, made, g.on, Tail(l)) BY <2>5
    <3>1. Deeper(d, made, g.on, l) BY <1>3, <2>2, <2>5 DEF FrameFor
    <3>2. \A i \in 1..Len(Tail(l)) : i + 1 \in 1..Len(l) BY <2>3
    <3>3. QED BY <2>3, <3>1, <3>2 DEF Deeper
  <2>7. Holds(g) BY <1>2, <2>5 DEF Holds, InClose
  <2>8. QED BY <1>2, <1>4, <1>5, <2>5, <2>6, <2>7, RelabelWaits
<1>8. QED BY <1>6, <1>7

\* Add and Append wait for mf; what Append copies to a root is deeper than the root.
LEMMA FuncsWaits ==
  ASSUME AppendsOneWay, WaitInv, CloserIInv', NEW p \in Procs, AddRead(p) \/ AppendLock(p) \/ AppendRead(p)
  PROVE  WaitInv'
<1>1. CloserTypes /\ HeldInv /\ LockInv BY DEF WaitInv, CloserIInv
<1>2. stack[p] # <<>> /\ Top(p).op \in {"add", "append"} BY DEF AddRead, AppendLock, AppendRead, Runs
<1>3. /\ Top(p) \in Calling /\ Top(p).on \in Closers /\ \A c \in Closers : mf[c] = p => Keeps(Top(p), c)
      /\ \A d, top : DepthOf(d, top, made) => FrameFor(d, made, Top(p))
  BY <1>1, <1>2, TopWaits
<1>4. fs' = fs /\ made' = made /\ mc' = mc BY DEF AddRead, AppendLock, AppendRead
<1>5. mf \in [Closers -> Procs \cup {NoOne}] BY <1>1 DEF CloserTypes
<1>6. ~Holds(Top(p)) BY <1>2 DEF Holds, InDo, InClose
<1>7. CASE AddRead(p)
  <2>1. Top(p).op = "add" /\ Top(p).at = "start" /\ mf' = [mf EXCEPT ![Top(p).on] = p]
    BY <1>7 DEF AddRead, Runs, Lock
  <2>2. fs[Top(p).on] \in Seq(Things) BY <1>1, <1>3 DEF CloserTypes
  <2>3. PICK g \in Calling : /\ Becomes(p, g) /\ g.op = Top(p).op /\ g.on = Top(p).on /\ g.arg = Top(p).arg
                             /\ g.left = fs[Top(p).on] /\ g.at = "write"
    <3> DEFINE h == [Top(p) EXCEPT !.at = "write", !.left = fs[Top(p).on]]
    <3>1. /\ h \in Calling /\ h.op = Top(p).op /\ h.on = Top(p).on /\ h.arg = Top(p).arg
          /\ h.left = fs[Top(p).on] /\ h.at = "write"
      BY <1>3, <2>2 DEF Calling
    <3>2. Becomes(p, h) BY <1>7 DEF AddRead
    <3> HIDE DEF h
    <3>3. QED BY <3>1, <3>2
  <2>4. \A d, top : DepthOf(d, top, made) => Deeper(d, made, g.on, g.left) BY <1>3, <2>3 DEF DepthOf
  <2>5. \A c \in Closers : (mf'[c] = mf[c] /\ mf[c] # p) \/ (mf'[c] = p /\ Keeps(g, c))
    <3>1. \A c \in Closers : mf[c] # p BY <1>3, <2>1 DEF Keeps, InAdd, InAppend
    <3>2. Keeps(g, Top(p).on) BY <2>1, <2>3 DEF Keeps, InAdd
    <3>3. QED BY <1>5, <2>1, <3>1, <3>2
  <2>6. QED BY ONLY WaitInv, CloserIInv', g \in Calling, <1>2, <1>4, <1>6, <2>3, <2>4, <2>5, RelabelWaits
<1>8. CASE AppendLock(p)
  <2>1. Top(p).op = "append" /\ Top(p).at = "start" /\ mf' = [mf EXCEPT ![Top(p).on] = p]
    BY <1>8 DEF AppendLock, Runs, Lock
  <2>2. PICK g \in Calling : /\ Becomes(p, g) /\ g.op = Top(p).op /\ g.on = Top(p).on /\ g.arg = Top(p).arg
                             /\ g.left = Top(p).left /\ g.at = "second"
    <3> DEFINE h == [Top(p) EXCEPT !.at = "second"]
    <3>1. /\ h \in Calling /\ h.op = Top(p).op /\ h.on = Top(p).on /\ h.arg = Top(p).arg
          /\ h.left = Top(p).left /\ h.at = "second"
      BY <1>3 DEF Calling
    <3>2. Becomes(p, h) BY <1>8 DEF AppendLock
    <3> HIDE DEF h
    <3>3. QED BY <3>1, <3>2
  <2>3. \A d, top : DepthOf(d, top, made) => Deeper(d, made, g.on, g.left) BY <1>3, <2>2 DEF FrameFor
  <2>4. \A c \in Closers : (mf'[c] = mf[c] /\ mf[c] # p) \/ (mf'[c] = p /\ Keeps(g, c))
    <3>1. \A c \in Closers : mf[c] # p BY <1>3, <2>1 DEF Keeps, InAdd, InAppend
    <3>2. Keeps(g, Top(p).on) BY <2>1, <2>2 DEF Keeps
    <3>3. QED BY <1>5, <2>1, <3>1, <3>2
  <2>5. QED BY ONLY WaitInv, CloserIInv', g \in Calling, <1>2, <1>4, <1>6, <2>2, <2>3, <2>4, RelabelWaits
<1>9. CASE AppendRead(p)
  <2>1. Top(p).op = "append" /\ Top(p).at = "second" /\ mf' = [mf EXCEPT ![Top(p).arg] = p]
    BY <1>9 DEF AppendRead, Runs, Lock
  <2>2. PICK c \in Closers, x \in Closers : c = Top(p).on /\ x = Top(p).arg
    <3>1. Top(p) = stack[p][1] /\ 1 \in 1..Len(stack[p]) BY <1>1, <1>2, TopFacts
    <3>2. Top(p).arg \in Closers BY <1>1, <2>1, <3>1 DEF LockInv, StackOf
    <3>3. QED BY <1>3, <3>2
  <2>3. fs[c] \in Seq(Things) /\ fs[x] \in Seq(Things) BY <1>1 DEF CloserTypes
  <2>4. PICK l \in Seq(Things) : l = fs[c] \o fs[x] BY <2>3, ConcatProperties
  <2>5. PICK g \in Calling : /\ Becomes(p, g) /\ g.op = Top(p).op /\ g.on = Top(p).on /\ g.arg = Top(p).arg
                             /\ g.left = l /\ g.at = "write"
    <3> DEFINE h == [Top(p) EXCEPT !.at = "write", !.left = l]
    <3>1. /\ h \in Calling /\ h.op = Top(p).op /\ h.on = Top(p).on /\ h.arg = Top(p).arg
          /\ h.left = l /\ h.at = "write"
      BY <1>3 DEF Calling
    <3>2. Becomes(p, h) BY <1>9, <2>2, <2>4 DEF AppendRead
    <3> HIDE DEF h
    <3>3. QED BY <3>1, <3>2
  <2>6. ASSUME NEW d, NEW top, DepthOf(d, top, made) PROVE Deeper(d, made, c, l)
    <3>1. <<c, x>> \in Appends BY <1>3, <2>1, <2>2, <2>6 DEF FrameFor
    <3>2. c \in Roots BY <3>1 DEF AppendsOneWay
    <3>3. /\ d[c] = 0 /\ d[x] \in 0..top /\ top \in Nat
          /\ Deeper(d, made, c, fs[c]) /\ Deeper(d, made, x, fs[x]) /\ d \in [Closers -> 0..top]
      BY <2>6, <3>2 DEF DepthOf
    <3>4. /\ Len(l) = Len(fs[c]) + Len(fs[x]) /\ Len(fs[c]) \in Nat /\ Len(fs[x]) \in Nat
          /\ \A i \in 1..Len(l) : IF i <= Len(fs[c]) THEN i \in 1..Len(fs[c]) /\ l[i] = fs[c][i]
                                 ELSE i - Len(fs[c]) \in 1..Len(fs[x]) /\ l[i] = fs[x][i - Len(fs[c])]
      <4>1. PICK s \in Seq(Things), t \in Seq(Things) : s = fs[c] /\ t = fs[x] BY <2>3
      <4>2. Len(s) \in Nat /\ Len(t) \in Nat BY LenProperties
      <4>3. Len(s \o t) = Len(s) + Len(t) /\ \A i \in 1..Len(s) + Len(t) :
              (s \o t)[i] = IF i <= Len(s) THEN s[i] ELSE t[i - Len(s)]
        BY ConcatProperties
      <4>4. \A i \in 1..Len(s) + Len(t) : IF i <= Len(s) THEN i \in 1..Len(s) ELSE i - Len(s) \in 1..Len(t)
        BY <4>2
      <4>5. l = s \o t BY <2>4, <4>1
      <4>6. QED BY ONLY <4>1, <4>2, <4>3, <4>4, <4>5
    <3>5. ASSUME NEW i \in 1..Len(l) PROVE l[i] \in made /\ (l[i] \in Closers => d[l[i]] > d[c])
      <4>1. CASE i <= Len(fs[c])
        <5>1. i \in 1..Len(fs[c]) /\ l[i] = fs[c][i] BY <3>4, <4>1
        <5>2. QED BY <3>3, <5>1 DEF Deeper
      <4>2. CASE ~(i <= Len(fs[c]))
        <5>1. i - Len(fs[c]) \in 1..Len(fs[x]) /\ l[i] = fs[x][i - Len(fs[c])] BY <3>4, <4>2
        <5>2. l[i] \in made /\ (l[i] \in Closers => d[l[i]] > d[x]) BY <3>3, <5>1 DEF Deeper
        <5>3. l[i] \in Closers => d[l[i]] \in 0..top BY <3>3
        <5>4. QED BY <3>3, <5>2, <5>3
      <4>3. QED BY <4>1, <4>2
    <3>6. QED BY <3>5 DEF Deeper
  <2>7. \A d, top : DepthOf(d, top, made) => Deeper(d, made, g.on, g.left) BY <2>2, <2>5, <2>6
  <2>8. \A b \in Closers : mf'[b] = p => Keeps(g, b)
    <3>1. ASSUME NEW b \in Closers, mf'[b] = p PROVE b = c \/ b = x
      <4>1. b = x \/ mf[b] = p BY <1>5, <2>1, <2>2, <3>1
      <4>2. mf[b] = p => b = c BY <1>3, <2>1, <2>2 DEF Keeps, InAdd, InAppend
      <4>3. QED BY <4>1, <4>2
    <3>2. Keeps(g, c) /\ Keeps(g, x) BY <2>1, <2>2, <2>5 DEF Keeps, InAppend
    <3>3. QED BY <3>1, <3>2
  <2>9. \A b \in Closers : (mf'[b] = mf[b] /\ mf[b] # p) \/ (mf'[b] = p /\ Keeps(g, b))
    <3>1. \A b \in Closers : mf'[b] = mf[b] \/ mf'[b] = p BY <1>5, <2>1, <2>2
    <3>2. QED BY <2>8, <3>1
  <2>10. QED BY ONLY WaitInv, CloserIInv', g \in Calling, <1>2, <1>4, <1>6, <2>5, <2>7, <2>9, RelabelWaits
<1>10. QED BY <1>7, <1>8, <1>9

\* The end of a call unlocks what its frame keeps.
LEMMA EndWaits ==
  ASSUME WaitInv, CloserIInv', NEW p \in Procs,
         \/ AddWrite(p) \/ AppendWrite(p) \/ DoClosed(p) \/ DoReturn(p) \/ OnClosed(p) \/ CloseFinish(p)
  PROVE  WaitInv'
<1>1. CloserTypes /\ HeldInv BY DEF WaitInv, CloserIInv
<1>2. stack[p] # <<>> BY DEF AddWrite, AppendWrite, DoClosed, DoReturn, OnClosed, CloseFinish, Runs
<1>3. /\ Top(p) \in Calling /\ Top(p).on \in Closers
      /\ \A d, top : DepthOf(d, top, made) => FrameFor(d, made, Top(p))
  BY <1>1, <1>2, TopWaits
<1>4. made' = made /\ (Pop(p) \/ Return(p)) BY DEF AddWrite, AppendWrite, DoClosed, DoReturn, OnClosed, CloseFinish
<1>5. /\ mf \in [Closers -> Procs \cup {NoOne}] /\ mc \in [Closers -> Procs \cup {NoOne}]
      /\ fs \in [Closers -> Seq(Things)]
  BY <1>1 DEF CloserTypes
<1>6. CASE AddWrite(p) \/ AppendWrite(p)
  <2>1. mc' = mc /\ ~Holds(Top(p)) BY <1>6 DEF AddWrite, AppendWrite, Runs, Holds, InDo, InClose
  <2>2. \A c \in Closers : mf'[c] = NoOne \/ (mf'[c] = mf[c] /\ ~Keeps(Top(p), c))
    <3>1. CASE AddWrite(p)
      <4>1. mf' = [mf EXCEPT ![Top(p).on] = NoOne] /\ Top(p).op = "add" BY <3>1 DEF AddWrite, Unlock, Runs
      <4>2. \A c \in Closers : Keeps(Top(p), c) => c = Top(p).on BY <4>1 DEF Keeps, InAppend
      <4>3. QED BY <1>3, <1>5, <4>1, <4>2
    <3>2. CASE AppendWrite(p)
      <4>1. mf' = [mf EXCEPT ![Top(p).on] = NoOne, ![Top(p).arg] = NoOne] BY <3>2 DEF AppendWrite
      <4>2. \A c \in Closers : Keeps(Top(p), c) => c = Top(p).on \/ c = Top(p).arg BY DEF Keeps
      <4>3. \A c \in Closers : IF c = Top(p).on \/ c = Top(p).arg THEN mf'[c] = NoOne ELSE mf'[c] = mf[c]
        BY <1>3, <1>5, <4>1
      <4>4. QED BY <4>2, <4>3
    <3>3. QED BY <1>6, <3>1, <3>2
  <2>3. ASSUME NEW d, NEW top, NEW c \in Closers, DepthOf(d, top, made), fs'[c] # fs[c]
        PROVE  c \in made /\ Deeper(d, made, c, fs'[c])
    <3>1. FrameFor(d, made, Top(p)) BY <1>3, <2>3
    <3>2. PICK x \in Things, l \in Seq(Things) : x = Top(p).arg /\ l = Top(p).left BY <1>3 DEF Calling
    <3>3. CASE AddWrite(p)
      <4>1. fs' = [fs EXCEPT ![Top(p).on] = <<x>> \o l] /\ Top(p).op = "add"
        BY <3>2, <3>3 DEF AddWrite, Runs
      <4>2. c = Top(p).on /\ fs'[c] = <<x>> \o l BY <1>3, <1>5, <2>3, <4>1
      <4>3. Len(<<x>> \o l) = Len(l) + 1 /\ Len(l) \in Nat /\ (<<x>> \o l)[1] = x
            /\ \A n \in 1..Len(l) : (<<x>> \o l)[n + 1] = l[n]
        BY <3>2, Put, LenProperties
      <4>4. x \in made /\ (x \in Closers => d[x] > d[c]) /\ Deeper(d, made, c, l) /\ c \in made
        BY <3>1, <3>2, <4>1, <4>2 DEF FrameFor
      <4>5. ASSUME NEW i \in 1..Len(l) + 1
            PROVE  (<<x>> \o l)[i] \in made /\ ((<<x>> \o l)[i] \in Closers => d[(<<x>> \o l)[i]] > d[c])
        <5>1. CASE i = 1 BY <4>3, <4>4, <5>1
        <5>2. CASE i # 1
          <6>1. i - 1 \in 1..Len(l) /\ i - 1 + 1 = i BY <4>3, <5>2
          <6>2. (<<x>> \o l)[i] = l[i - 1] BY <4>3, <6>1
          <6>3. QED BY <4>4, <6>1, <6>2 DEF Deeper
        <5>3. QED BY <5>1, <5>2
      <4>6. QED BY <4>2, <4>3, <4>4, <4>5 DEF Deeper
    <3>4. CASE AppendWrite(p)
      <4>1. fs' = [fs EXCEPT ![Top(p).on] = Top(p).left] BY <3>4 DEF AppendWrite
      <4>2. c = Top(p).on /\ fs'[c] = Top(p).left BY <1>3, <1>5, <2>3, <4>1
      <4>3. QED BY <3>1, <4>2 DEF FrameFor
    <3>5. QED BY <1>6, <3>3, <3>4
  <2>4. QED BY ONLY WaitInv, CloserIInv', p \in Procs, <1>2, <1>4, <2>1, <2>2, <2>3, ReturnWaits
<1>7. CASE DoClosed(p) \/ DoReturn(p) \/ OnClosed(p)
  <2>1. fs' = fs /\ mf' = mf /\ Top(p).op \in {"do", "onclosed"} BY <1>7 DEF DoClosed, DoReturn, OnClosed, Runs
  <2>2. \A c \in Closers : ~Keeps(Top(p), c) BY <2>1 DEF Keeps, InAdd, InAppend
  <2>3. \A c \in Closers : mc'[c] = mc[c] \/ mc'[c] = NoOne
    BY <1>3, <1>5, <1>7 DEF DoClosed, DoReturn, OnClosed, Unlock
  <2>4. Holds(Top(p)) => mc'[Top(p).on] = NoOne
    <3>1. CASE DoReturn(p) BY <1>3, <1>5, <3>1 DEF DoReturn, Unlock
    <3>2. CASE DoClosed(p) \/ OnClosed(p)
      <4>1. Top(p).at = "start" BY <3>2 DEF DoClosed, OnClosed, Runs
      <4>2. QED BY <4>1 DEF Holds, InDo, InClose
    <3>3. QED BY <1>7, <3>1, <3>2
  <2>5. QED BY ONLY WaitInv, CloserIInv', p \in Procs, <1>2, <1>4, <2>1, <2>2, <2>3, <2>4, ReturnWaits
<1>8. CASE CloseFinish(p)
  <2>1. /\ fs' = [fs EXCEPT ![Top(p).on] = <<>>] /\ mf' = mf /\ Top(p).op = "close"
        /\ mc' = [mc EXCEPT ![Top(p).on] = NoOne]
    BY <1>8 DEF CloseFinish, Unlock, Runs
  <2>2. \A c \in Closers : ~Keeps(Top(p), c) BY <2>1 DEF Keeps, InAdd, InAppend
  <2>3. (\A c \in Closers : mc'[c] = mc[c] \/ mc'[c] = NoOne) /\ mc'[Top(p).on] = NoOne
    BY <1>3, <1>5, <2>1
  <2>4. ASSUME NEW d, NEW top, NEW c \in Closers, DepthOf(d, top, made), fs'[c] # fs[c]
        PROVE  c \in made /\ Deeper(d, made, c, fs'[c])
    <3>1. c = Top(p).on /\ fs'[c] = <<>> BY <1>3, <1>5, <2>1, <2>4
    <3>2. c \in made BY <1>3, <2>4, <3>1 DEF FrameFor
    <3>3. Len(fs'[c]) = 0 BY <3>1, EmptySeq
    <3>4. QED BY <3>2, <3>3 DEF Deeper
  <2>5. QED BY ONLY WaitInv, CloserIInv', p \in Procs, <1>2, <1>4, <2>1, <2>2, <2>3, <2>4, ReturnWaits
<1>9. QED BY <1>6, <1>7, <1>8

\* A call waits for nothing yet, and the thing it adds, which is new, is deeper than the closer.
LEMMA CalledWaits ==
  ASSUME WaitInv, CloserIInv', NEW p \in Procs, Called(p)
  PROVE  WaitInv'
<1>1. CloserTypes /\ Closers \subseteq Things BY DEF WaitInv, CloserIInv, Things
<1>2. PICK d, top : DepthOf(d, top, made) BY DEF WaitInv, DepthInv
<1>3. ASSUME NEW op \in {"close", "add", "append", "do", "onclosed"}, NEW c \in Closers, NEW x \in Things,
             Call(p, Frame(op, c, x)), NEW e, NEW t, DepthOf(e, t, made'), c \in made', x \in made',
             op = "add" /\ x \in Closers => e[x] > e[c], op = "append" => <<c, x>> \in Appends,
             stack[p] = <<>> \/ (Runs(p, "do", "fn") /\ op = "add")
      PROVE  WaitInv'
  <2>1. PICK f \in Calling : /\ f = Frame(op, c, x) /\ f.at = "start" /\ f.op = op /\ f.arg = x
                             /\ f.on = c /\ f.left = <<>>
    <3>1. Frame(op, c, x).left = <<>> BY DEF Frame
    <3>2. QED BY <3>1, NewFrame
  <2>2. FrameFor(e, made', f) BY <1>3, <2>1, EmptySeq DEF FrameFor, Deeper
  <2>3. fs' = fs /\ mc' = mc /\ mf' = mf /\ Push(p, f) BY <1>3, <2>1 DEF Call
  <2>4. stack[p] = <<>> \/ (InDo(stack[p][1]) /\ f.op = "add")
    <3>1. stack[p] # <<>> => Top(p) = stack[p][1] BY <1>1, TopFacts
    <3>2. QED BY <1>3, <2>1, <3>1 DEF Runs, InDo
  <2>5. QED BY ONLY WaitInv, CloserIInv', p \in Procs, f \in Calling, <2>1, <2>2, <2>3, <2>4,
                    DepthOf(e, t, made'), PushWaits
<1>4. CASE \E c \in Closers : CallClose(p, c)
  <2>1. PICK c \in Closers : CallClose(p, c) BY <1>4
  <2>2. Call(p, Frame("close", c, c)) /\ made' = made /\ stack[p] = <<>> /\ c \in made
    BY <2>1, NewFrame, <1>1 DEF CallClose, Call
  <2>3. QED BY <1>1, <1>2, <1>3, <2>2
<1>5. CASE \E c \in Closers : CallDo(p, c)
  <2>1. PICK c \in Closers : CallDo(p, c) BY <1>5
  <2>2. Call(p, Frame("do", c, c)) /\ made' = made /\ stack[p] = <<>> /\ c \in made
    BY <2>1, NewFrame, <1>1 DEF CallDo, Call
  <2>3. QED BY <1>1, <1>2, <1>3, <2>2
<1>6. CASE \E c \in Closers : CallOnClosed(p, c)
  <2>1. PICK c \in Closers : CallOnClosed(p, c) BY <1>6
  <2>2. Call(p, Frame("onclosed", c, c)) /\ made' = made /\ stack[p] = <<>> /\ c \in made
    BY <2>1, NewFrame, <1>1 DEF CallOnClosed, Call
  <2>3. QED BY <1>1, <1>2, <1>3, <2>2
<1>7. CASE \E a \in Appends : CallAppend(p, a[1], a[2])
  <2>1. PICK a \in Appends : CallAppend(p, a[1], a[2]) BY <1>7
  <2>2. PICK c \in Closers, x \in Closers : a = <<c, x>> BY CloserAssumption
  <2>3. Call(p, Frame("append", c, x)) /\ made' = made /\ stack[p] = <<>> /\ x \in made
    BY <2>1, <2>2 DEF CallAppend
  <2>4. x \in Things /\ c \in made BY <1>1, <2>3, NewFrame DEF Call
  <2>5. QED BY <1>2, <1>3, <2>2, <2>3, <2>4
<1>8. CASE \E c \in Closers, x \in Things : CallAdd(p, c, x)
  <2>1. PICK c \in Closers, x \in Things : CallAdd(p, c, x) BY <1>8
  <2>2. /\ Call(p, Frame("add", c, x)) /\ made' = made \cup {x} /\ x \notin made
        /\ stack[p] = <<>> \/ Runs(p, "do", "fn")
    BY <2>1 DEF CallAdd
  <2>3. c \in made BY <2>2, NewFrame DEF Call
  <2>4. PICK e : e = [b \in Closers |-> IF b = x THEN top + 1 ELSE d[b]] OBVIOUS
  <2>5. DepthOf(e, top + 1, made') /\ (x \in Closers => e[x] > e[c])
    BY <1>1, <1>2, <2>2, <2>3, <2>4, FreshDepth
  <2>6. QED BY <1>3, <2>2, <2>3, <2>5
<1>9. QED BY <1>4, <1>5, <1>6, <1>7, <1>8 DEF Called

\* Nothing is held, and all roots are at depth 0.
LEMMA WaitInitInv == CloserInit => WaitInv
<1> SUFFICES ASSUME CloserInit PROVE WaitInv OBVIOUS
<1>1. /\ \A p \in Procs : stack[p] = <<>> /\ Len(stack[p]) = 0
      /\ \A c \in Closers : mc[c] = NoOne /\ mf[c] = NoOne /\ fs[c] = <<>> /\ Len(fs[c]) = 0
      /\ made = Roots
  BY EmptySeq DEF CloserInit
<1>2. HeldInv
  <2>1. \A q \in Procs : q # NoOne BY CloserAssumption
  <2>2. QED BY <1>1, <2>1 DEF HeldInv
<1>3. DepthInv
  <2>1. PICK d : d = [c \in Closers |-> 0] OBVIOUS
  <2>2. d \in [Closers -> 0..0] /\ \A c \in Roots : c \in made /\ d[c] = 0 BY <1>1, <2>1, CloserAssumption
  <2>3. \A c \in Closers : Deeper(d, made, c, fs[c]) /\ (c \notin made => fs[c] = <<>>) BY <1>1 DEF Deeper
  <2>4. \A p \in Procs : StackFor(d, made, stack[p]) BY <1>1 DEF StackFor
  <2>5. DepthOf(d, 0, made) BY <2>2, <2>3, <2>4 DEF DepthOf
  <2>6. QED BY <2>5 DEF DepthInv
<1>4. QED BY <1>2, <1>3, CloserInitInv DEF WaitInv

\* Every step keeps who holds the mutexes, and a depth of the closers.
LEMMA WaitInductive == AppendsOneWay /\ WaitInv /\ [CloserNext]_closerVars => WaitInv'
<1> SUFFICES ASSUME AppendsOneWay, WaitInv, [CloserNext]_closerVars PROVE WaitInv' OBVIOUS
<1>1. CloserIInv' BY CloserInductive DEF WaitInv
<1>2. CASE UNCHANGED closerVars
  <2>1. HeldInv' BY <1>2 DEF WaitInv, HeldInv, closerVars
  <2>2. PICK d, top : DepthOf(d, top, made) BY DEF WaitInv, DepthInv
  <2>3. DepthOf(d, top, made)' BY <1>2, <2>2 DEF DepthOf, closerVars
  <2>4. QED BY <1>1, <2>1, <2>3 DEF WaitInv, DepthInv
<1>3. CASE CloserNext
  <2>1. PICK p \in Procs : Step(p) \/ Called(p) BY <1>3 DEF CloserNext, Called
  <2>2. CASE Called(p) BY <1>1, <2>2, CalledWaits
  <2>3. CASE CloseLock(p) \/ DoLock(p) BY <1>1, <2>3, LockWaits
  <2>4. CASE CloseGet(p) \/ \E f \in Funcs : CallFunc(p, f) BY <1>1, <2>4, CloseWaits
  <2>5. CASE \E k \in Closers : CallChild(p, k) BY <1>1, <2>5, ChildWaits
  <2>6. CASE AddRead(p) \/ AppendLock(p) \/ AppendRead(p) BY <1>1, <2>6, FuncsWaits
  <2>7. CASE \/ AddWrite(p) \/ AppendWrite(p) \/ DoClosed(p) \/ DoReturn(p) \/ OnClosed(p) \/ CloseFinish(p)
    BY <1>1, <2>7, EndWaits
  <2>8. QED BY <2>1, <2>2, <2>3, <2>4, <2>5, <2>6, <2>7 DEF Step
<1>4. QED BY <1>2, <1>3

\* As long as a call is in progress, of Close at whatever depth of children, of Do and the Add in
\* it, of Add, Append or OnClosed, some goroutine has a call that waits for no mutex, for any
\* number of goroutines and any tree of closers: provided that Appends are not in a circle
\* and made on closers that are nobody's child.
THEOREM NobodyIsStuck == AppendsOneWay => (CloserSpec => []NobodyStuck)
<1> SUFFICES ASSUME AppendsOneWay PROVE CloserSpec => []NobodyStuck OBVIOUS
<1>1. CloserInit => WaitInv BY WaitInitInv
<1>2. WaitInv /\ [CloserNext]_closerVars => WaitInv' BY WaitInductive
<1>3. WaitInv => NobodyStuck BY SomebodyGoesOn
<1>4. QED BY <1>1, <1>2, <1>3, PTL DEF CloserSpec

-----------------------------------------------------------------------------
\* System V shared memory.
Segments == [key : Keys, live : BOOLEAN, attached : SUBSET (Readers \cup {Writer}), size : Nat,
             version : Nat, torn : BOOLEAN, under : Nat]
Semaphores == [key : Keys, live : BOOLEAN, by : Readers \cup {Writer, Nobody}]
ShmHandles == [id : Nat, state : {"nil", "open", "closed", "dangling"}]
ReadOption == [at : Nat, lock : Nat, size : Nat, version : Nat]
ShmWriters == [pc : {"idle", "shm", "create", "sem", "lock", "write", "writing", "unlock"},
               shm : ShmHandles, sem : ShmHandles, size : Nat, arg : Nat]
ShmReaders == [pc : {"idle", "shm", "open", "sem", "lock", "copy", "unlock"},
               shm : ShmHandles, sem : ShmHandles, at : Nat, o : Nat]
Reads == [o : Nat, seg : Nat, lock : Nat, version : Nat, torn : BOOLEAN, under : Nat, short : BOOLEAN]
SystemVTypes ==
  /\ seg \in Seq(Segments) /\ sem \in Seq(Semaphores) /\ sent \in Seq(ReadOption)
  /\ w \in ShmWriters /\ r \in [Readers -> ShmReaders] /\ got \in [Readers -> Reads]
  /\ writes \in Nat /\ faults \in Nat
  /\ spoilt \subseteq 1..Len(sem) /\ exposed \cup segv \subseteq Readers \cup {Writer}

\* Of the segments with one key, only the last may be found under it. A segment in the
\* middle of a write is kept from whoever uses the semaphore of the write. What the
\* options name is there, and whatever was written to a later segment was written later.
SegInv == /\ \A i \in 1..Len(seg) :
               /\ seg[i].version <= writes
               /\ seg[i].torn => seg[i].under \in 1..Len(sem) /\ sem[seg[i].under].by = Writer
          /\ \A i, j \in 1..Len(seg) : i < j /\ seg[i].key = seg[j].key => ~seg[i].live
LaterThan(o) == \A i \in 1..Len(seg) : i > o.at => seg[i].version = 0 \/ seg[i].version >= o.version
SentInv == \A k \in 1..Len(sent) :
             /\ sent[k].at \in 1..Len(seg) /\ sent[k].lock \in 1..Len(sem)
             /\ sent[k].version <= seg[sent[k].at].version
             /\ sent[k].size <= seg[sent[k].at].size
             /\ LaterThan(sent[k])

\* The handles of a process, and where it is at.
SemHandle(h) == /\ h.state # "dangling" /\ (h.state = "nil" => h.id = 0)
                /\ h.state # "nil" => h.id \in 1..Len(sem)
                /\ h.state = "closed" => ~sem[h.id].live
Lost(h) == h.state # "nil" /\ ~Usable(h)

\* The semaphores that a process holds, those left locked apart, are the one it is about
\* to unlock.
HeldOnly(p, insection, l) == \A i \in 1..Len(sem) \ spoilt : sem[i].live /\ sem[i].by = p => insection /\ i = l

\* The writer's segment is the last, and no smaller than it believes; what it left in the
\* middle of a write under its semaphore is the write it is at. A handle that dangles will
\* be replaced, or has lost its semaphore, or is exposed.
WriterAt(x) ==
  /\ SemHandle(x.sem)
  /\ x.shm.state # "nil" => x.shm.id = Len(seg) /\ x.shm.id \in 1..Len(seg)
  /\ x.shm.state = "open" => x.size = seg[x.shm.id].size
  /\ \A i \in 1..Len(seg) : seg[i].torn /\ seg[i].under = x.sem.id => x.pc = "writing" /\ i = x.shm.id
  /\ x.pc \in {"sem", "lock", "write", "writing", "unlock"} => x.shm.state # "nil" /\ x.arg <= x.size
  /\ x.pc \in {"lock", "write", "writing", "unlock"} => x.sem.state # "nil"
  /\ x.pc \in {"write", "writing", "unlock"} => sem[x.sem.id].by = Writer
  /\ x.pc = "writing" => x.shm.state = "open" \/ segv # {}
  /\ x.pc = "unlock" => x.shm.state = "open" /\ seg[x.shm.id].version = writes
  /\ x.shm.state = "dangling" /\ Writer \notin exposed =>
       \/ x.pc = "create"
       \/ Lost(x.sem) /\ x.pc \in {"idle", "shm", "sem", "lock"}
  /\ HeldOnly(Writer, x.pc \in {"write", "writing", "unlock"}, x.sem.id)

\* A reader has the segment open that its At names, or a later one with the same key. A
\* handle that dangles is not that of the options, or has lost its semaphore, or is
\* exposed.
ReaderAt(p, x) ==
  /\ SemHandle(x.sem)
  /\ x.o \in 0..Len(sent)
  /\ x.o = 0 => x.pc = "idle" /\ x.shm.state = "nil"
  /\ x.shm.state # "nil" => /\ x.shm.id \in 1..Len(seg) /\ x.at \in 1..x.shm.id
                            /\ seg[x.shm.id].key = seg[x.at].key
  /\ x.pc \in {"sem", "lock", "copy", "unlock"} =>
       x.shm.state \in {"open", "dangling"} /\ x.at = sent[x.o].at
  /\ x.pc \in {"lock", "copy", "unlock"} => x.sem.state # "nil"
  /\ x.pc \in {"copy", "unlock"} => sem[x.sem.id].by = p
  /\ x.shm.state = "dangling" /\ p \notin exposed =>
       \/ x.at # sent[x.o].at
       \/ Lost(x.sem) /\ x.pc \notin {"copy", "unlock"}
  /\ HeldOnly(p, x.pc \in {"copy", "unlock"}, x.sem.id)

ReadInv(g) == g.o # 0 =>
  /\ g.o \in 1..Len(sent)
  /\ g.seg >= sent[g.o].at
  /\ g.version >= sent[g.o].version \/ (g.seg > sent[g.o].at /\ g.version = 0)
  /\ g.short => g.seg > sent[g.o].at
  /\ g.torn => g.lock # g.under

SystemVIInv == /\ SystemVTypes /\ SegInv /\ SentInv /\ WriterAt(w) /\ segv \subseteq exposed
               /\ \A p \in Readers : ReaderAt(p, r[p]) /\ ReadInv(got[p])

LEMMA SystemVFacts ==
  ASSUME SystemVTypes
  PROVE  /\ Len(seg) \in Nat /\ Len(sem) \in Nat /\ Len(sent) \in Nat
         /\ DOMAIN seg = 1..Len(seg) /\ DOMAIN sem = 1..Len(sem) /\ DOMAIN sent = 1..Len(sent)
         /\ \A i \in 1..Len(seg) : seg[i] \in Segments
         /\ \A i \in 1..Len(sem) : sem[i] \in Semaphores
         /\ \A k \in 1..Len(sent) : sent[k] \in ReadOption
         /\ w \in ShmWriters /\ \A p \in Readers : r[p] \in ShmReaders /\ got[p] \in Reads
         /\ Writer \notin Readers /\ Nobody \notin Readers /\ Writer # Nobody
         /\ Sizes \subseteq Nat \ {0}
BY SystemVAssumption, LenProperties, ElementOfSeq DEF SystemVTypes

LEMMA SystemVInitInv == SystemVInit => SystemVIInv
<1> SUFFICES ASSUME SystemVInit PROVE SystemVIInv OBVIOUS
<1> USE SystemVAssumption DEF SystemVInit, NewWriter, NewReader, Nil, NoRead
<1>1. Nil \in ShmHandles BY DEF ShmHandles
<1>2. SystemVTypes
  <2>1. seg \in Seq(Segments) /\ sem \in Seq(Semaphores) /\ sent \in Seq(ReadOption) BY EmptySeq
  <2>2. w \in ShmWriters BY <1>1 DEF ShmWriters
  <2>3. NewReader \in ShmReaders BY <1>1 DEF ShmReaders
  <2>4. r \in [Readers -> ShmReaders]
    <3>1. r = [p \in Readers |-> NewReader] BY DEF SystemVInit
    <3>2. QED BY ONLY <2>3, <3>1
  <2>5. NoRead \in Reads BY DEF Reads
  <2>6. got \in [Readers -> Reads]
    <3>1. got = [p \in Readers |-> NoRead] BY DEF SystemVInit
    <3>2. QED BY ONLY <2>5, <3>1
  <2>7. writes \in Nat /\ faults \in Nat /\ spoilt \subseteq 1..Len(sem) /\ exposed \cup segv \subseteq Readers \cup {Writer}
    OBVIOUS
  <2>8. QED BY ONLY <2>1, <2>2, <2>4, <2>6, <2>7 DEF SystemVTypes
<1>3. Len(seg) = 0 /\ Len(sem) = 0 /\ Len(sent) = 0 BY EmptySeq
<1>4. SegInv /\ SentInv BY <1>3 DEF SegInv, SentInv
<1>5. WriterAt(w) BY <1>3 DEF WriterAt, SemHandle, HeldOnly
<1>6. ASSUME NEW p \in Readers PROVE ReaderAt(p, r[p]) /\ ReadInv(got[p])
  <2>1. r[p] = NewReader /\ got[p] = NoRead OBVIOUS
  <2>2. QED BY <1>3, <2>1 DEF ReaderAt, SemHandle, HeldOnly, ReadInv
<1>7. QED BY <1>2, <1>4, <1>5, <1>6 DEF SystemVIInv

\* What a step of p does to what others rely on: the segments and the semaphores keep
\* their keys, and are not found again; it takes and frees semaphores for itself only.
Grows(p) ==
  /\ seg' \in Seq(Segments) /\ Len(seg) <= Len(seg')
  /\ \A i \in 1..Len(seg) : /\ seg'[i].key = seg[i].key /\ seg[i].version <= seg'[i].version
                            /\ seg'[i].live => seg[i].live
  /\ sem' \in Seq(Semaphores) /\ Len(sem) <= Len(sem')
  /\ \A i \in 1..Len(sem) : /\ sem'[i].live => sem[i].live
                            /\ sem'[i].by = sem[i].by \/ {sem[i].by, sem'[i].by} \subseteq {Nobody, p}
  /\ \A i \in 1..Len(sem') : i > Len(sem) => sem'[i].by = Nobody
  /\ sent' \in Seq(ReadOption) /\ Len(sent) <= Len(sent') /\ \A k \in 1..Len(sent) : sent'[k] = sent[k]
  /\ spoilt \subseteq spoilt' /\ exposed \subseteq exposed'

LEMMA HeldKept ==
  ASSUME SystemVTypes, NEW p \in Readers \cup {Writer}, Grows(p), NEW q \in Readers \cup {Writer}, q # p,
         NEW b, NEW l, HeldOnly(q, b, l)
  PROVE  HeldOnly(q, b, l)'
<1> SUFFICES ASSUME NEW i \in 1..Len(sem') \ spoilt', sem'[i].live, sem'[i].by = q PROVE b /\ i = l
  BY DEF HeldOnly
<1>1. q # Nobody BY SystemVFacts
<1>2. i \in 1..Len(sem)
  <2>1. Len(sem) \in Nat /\ Len(sem') \in Nat BY SystemVFacts, LenProperties DEF Grows
  <2>2. \A j \in 1..Len(sem') : j > Len(sem) => sem'[j].by = Nobody BY DEF Grows
  <2>3. i \in 1..Len(sem') /\ sem'[i].by = q OBVIOUS
  <2>4. QED BY ONLY <1>1, <2>1, <2>2, <2>3
<1>3. sem[i].live /\ sem[i].by = q /\ i \notin spoilt BY <1>1, <1>2 DEF Grows
<1>4. QED BY <1>2, <1>3 DEF HeldOnly

LEMMA HandleKept ==
  ASSUME SystemVTypes, NEW p \in Readers \cup {Writer}, Grows(p), NEW h \in ShmHandles, SemHandle(h)
  PROVE  SemHandle(h)' /\ (Lost(h) => Lost(h)')
<1>1. ASSUME h.state # "nil" PROVE h.id \in 1..Len(sem) /\ h.id \in 1..Len(sem') /\ (sem'[h.id].live => sem[h.id].live)
  BY <1>1, SystemVFacts, LenProperties DEF SemHandle, Grows
<1>2. QED BY <1>1 DEF SemHandle, Lost, Usable

LEMMA OthersKept ==
  ASSUME SystemVTypes, NEW p \in Readers \cup {Writer}, Grows(p), NEW q \in Readers, q # p,
         NEW x \in ShmReaders, ReaderAt(q, x)
  PROVE  ReaderAt(q, x)'
<1>1. SemHandle(x.sem)' /\ (Lost(x.sem) => Lost(x.sem)')
  <2>1. x.sem \in ShmHandles /\ SemHandle(x.sem) BY DEF ShmReaders, ReaderAt
  <2>2. QED BY <2>1, HandleKept
<1>2. HeldOnly(q, x.pc \in {"copy", "unlock"}, x.sem.id)'
  <2>1. PICK b : b = (x.pc \in {"copy", "unlock"}) OBVIOUS
  <2>2. PICK l : l = x.sem.id OBVIOUS
  <2>3. HeldOnly(q, b, l) BY <2>1, <2>2 DEF ReaderAt
  <2>4. HeldOnly(q, b, l)' BY <2>3, HeldKept
  <2>5. QED BY <2>1, <2>2, <2>4
<1>3. x.o \in Nat /\ x.at \in Nat /\ x.shm.id \in Nat /\ x.sem.id \in Nat BY DEF ShmReaders, ShmHandles
<1>4. Len(seg) \in Nat /\ Len(sem) \in Nat /\ Len(sent) \in Nat /\ Len(seg') \in Nat /\ Len(sem') \in Nat /\ Len(sent') \in Nat
  BY SystemVFacts, LenProperties DEF Grows
<1>5. x.o \in 0..Len(sent') /\ (x.o # 0 => sent'[x.o] = sent[x.o])
  BY <1>3, <1>4 DEF ReaderAt, Grows
<1>6. x.shm.state # "nil" => /\ x.shm.id \in 1..Len(seg') /\ x.at \in 1..x.shm.id
                             /\ seg'[x.shm.id].key = seg'[x.at].key
  <2> SUFFICES ASSUME x.shm.state # "nil"
               PROVE  x.shm.id \in 1..Len(seg') /\ x.at \in 1..x.shm.id /\ seg'[x.shm.id].key = seg'[x.at].key
    OBVIOUS
  <2>1. x.shm.id \in 1..Len(seg) /\ x.at \in 1..x.shm.id /\ seg[x.shm.id].key = seg[x.at].key BY DEF ReaderAt
  <2>2. x.at \in 1..Len(seg) /\ Len(seg) <= Len(seg') BY <1>3, <1>4, <2>1 DEF Grows
  <2>3. x.shm.id \in 1..Len(seg') BY <1>3, <1>4, <2>1, <2>2
  <2>4. seg'[x.shm.id].key = seg[x.shm.id].key /\ seg'[x.at].key = seg[x.at].key BY <2>1, <2>2 DEF Grows
  <2>5. QED BY <2>1, <2>3, <2>4
<1>7. x.pc \in {"copy", "unlock"} => sem'[x.sem.id].by = q
  <2> SUFFICES ASSUME x.pc \in {"copy", "unlock"} PROVE sem'[x.sem.id].by = q OBVIOUS
  <2>1. x.sem.id \in 1..Len(sem) /\ sem[x.sem.id].by = q BY DEF ReaderAt, SemHandle
  <2>2. QED BY <2>1, SystemVFacts DEF Grows
<1>8. exposed \subseteq exposed' BY DEF Grows
<1>9. ReaderAt(q, x) OBVIOUS
<1>10. x.pc # "idle" => x.o # 0 BY DEF ReaderAt
<1>11. x.shm.state = "dangling" => x.o # 0 BY DEF ReaderAt
<1>12. QED BY ONLY <1>1, <1>2, <1>5, <1>6, <1>7, <1>8, <1>9, <1>10, <1>11 DEF ReaderAt

LEMMA ReadKept ==
  ASSUME SystemVTypes, NEW p \in Readers \cup {Writer}, Grows(p), NEW g \in Reads, ReadInv(g)
  PROVE  ReadInv(g)'
<1> SUFFICES ASSUME g.o # 0 PROVE ReadInv(g)' BY DEF ReadInv
<1>1. g.o \in 1..Len(sent) BY DEF ReadInv
<1>2. g.o \in 1..Len(sent') /\ sent'[g.o] = sent[g.o] BY <1>1, SystemVFacts, LenProperties DEF Grows
<1>3. QED BY <1>2 DEF ReadInv

\* A reader leaves the segments, the options and the writer as they are: it removes and
\* attaches.
SameSegs == /\ Len(seg') = Len(seg)
            /\ \A i \in 1..Len(seg) : /\ seg'[i].version = seg[i].version /\ seg'[i].torn = seg[i].torn
                                      /\ seg'[i].size = seg[i].size /\ seg'[i].under = seg[i].under

LEMMA WriterKept ==
  ASSUME SystemVTypes, segv = {}, NEW p \in Readers, Grows(p), SameSegs, UNCHANGED writes,
         NEW x \in ShmWriters, WriterAt(x)
  PROVE  WriterAt(x)'
<1>1. p # Writer /\ p # Nobody /\ p \in Readers \cup {Writer} /\ Writer # Nobody /\ Writer \in Readers \cup {Writer}
  BY SystemVFacts
<1>2. SemHandle(x.sem)' /\ (Lost(x.sem) => Lost(x.sem)')
  <2>1. x.sem \in ShmHandles /\ SemHandle(x.sem) BY DEF ShmWriters, WriterAt
  <2>2. QED BY <1>1, <2>1, HandleKept
<1>3. HeldOnly(Writer, x.pc \in {"write", "writing", "unlock"}, x.sem.id)'
  <2>1. PICK b : b = (x.pc \in {"write", "writing", "unlock"}) OBVIOUS
  <2>2. PICK l : l = x.sem.id OBVIOUS
  <2>3. HeldOnly(Writer, b, l) BY <2>1, <2>2 DEF WriterAt
  <2>4. HeldOnly(Writer, b, l)' BY <1>1, <2>3, HeldKept
  <2>5. QED BY <2>1, <2>2, <2>4
<1>4. x.pc \in {"write", "writing", "unlock"} => sem'[x.sem.id].by = Writer
  <2> SUFFICES ASSUME x.pc \in {"write", "writing", "unlock"} PROVE sem'[x.sem.id].by = Writer OBVIOUS
  <2>1. x.sem.id \in 1..Len(sem) /\ sem[x.sem.id].by = Writer BY DEF WriterAt, SemHandle
  <2>2. QED BY <1>1, <2>1 DEF Grows
<1>5. exposed \subseteq exposed' BY DEF Grows
<1>6. x.shm.state # "nil" => x.shm.id \in 1..Len(seg) BY DEF WriterAt
<1>7. WriterAt(x) OBVIOUS
<1>8. x.shm.state = "open" => x.shm.state # "nil" OBVIOUS
<1>9. QED BY ONLY <1>2, <1>3, <1>4, <1>5, <1>6, <1>7, <1>8, segv = {}, SameSegs, UNCHANGED writes
          DEF WriterAt, SameSegs

LEMMA SegKept ==
  ASSUME SystemVTypes, NEW p \in Readers \cup {Writer}, Grows(p), SameSegs, UNCHANGED <<sent, writes>>, SegInv, SentInv,
         p = Writer => \A i \in 1..Len(sem) : sem'[i].by = sem[i].by
  PROVE  SegInv' /\ SentInv'
<1>1. Writer # Nobody /\ Len(sem) \in Nat /\ Len(sem') \in Nat /\ Len(sem) <= Len(sem')
  BY SystemVFacts, LenProperties DEF Grows
<1>2. ASSUME NEW l \in 1..Len(sem) PROVE l \in 1..Len(sem') /\ (sem[l].by = Writer => sem'[l].by = Writer)
  <2>1. sem'[l].by = sem[l].by \/ {sem[l].by, sem'[l].by} \subseteq {Nobody, p} BY <1>2 DEF Grows
  <2>2. p = Writer => sem'[l].by = sem[l].by BY <1>2
  <2>3. l \in 1..Len(sem') BY ONLY <1>1, <1>2
  <2>4. QED BY ONLY <1>1, <2>1, <2>2, <2>3
<1>3. SegInv'
  <2>1. ASSUME NEW i \in 1..Len(seg), seg'[i].torn
        PROVE  seg'[i].under \in 1..Len(sem') /\ sem'[seg'[i].under].by = Writer
    <3>1. seg'[i].under = seg[i].under /\ seg[i].torn BY <2>1 DEF SameSegs
    <3>2. seg[i].under \in 1..Len(sem) /\ sem[seg[i].under].by = Writer BY <3>1 DEF SegInv
    <3>3. QED BY <1>2, <3>1, <3>2
  <2>2. \A i \in 1..Len(seg) : seg'[i].version <= writes BY DEF SegInv, SameSegs
  <2>3. \A i, j \in 1..Len(seg) : i < j /\ seg'[i].key = seg'[j].key => ~seg'[i].live BY DEF SegInv, Grows
  <2>4. QED BY <2>1, <2>2, <2>3 DEF SegInv, SameSegs
<1>4. ASSUME NEW k \in 1..Len(sent)
      PROVE  /\ sent[k].at \in 1..Len(seg') /\ sent[k].lock \in 1..Len(sem')
             /\ sent[k].version <= seg'[sent[k].at].version
             /\ sent[k].size <= seg'[sent[k].at].size
             /\ \A i \in 1..Len(seg') : i > sent[k].at => seg'[i].version = 0 \/ seg'[i].version >= sent[k].version
  <2>1. /\ sent[k].at \in 1..Len(seg) /\ sent[k].lock \in 1..Len(sem)
        /\ sent[k].version <= seg[sent[k].at].version
        /\ sent[k].size <= seg[sent[k].at].size
        /\ \A i \in 1..Len(seg) : i > sent[k].at => seg[i].version = 0 \/ seg[i].version >= sent[k].version
    BY DEF SentInv, LaterThan
  <2>2. sent[k].lock \in 1..Len(sem') BY <1>2, <2>1
  <2>3. QED BY ONLY <2>1, <2>2, SameSegs DEF SameSegs
<1>5. QED BY <1>3, <1>4 DEF SentInv, LaterThan

LEMMA ShmReaderMoves ==
  ASSUME SystemVIInv, segv = {}, NEW p \in Readers, Grows(p), SameSegs, UNCHANGED <<w, sent, writes, spoilt>>,
         NEW x \in ShmReaders, r' = [r EXCEPT ![p] = x], ReaderAt(p, x)',
         NEW g \in Reads, got' = [got EXCEPT ![p] = g], ReadInv(g)',
         faults' \in Nat, exposed' \subseteq Readers \cup {Writer}, segv' \subseteq exposed'
  PROVE  SystemVIInv'
<1>1. /\ SystemVTypes /\ SegInv /\ SentInv /\ WriterAt(w)
      /\ \A q \in Readers : ReaderAt(q, r[q]) /\ ReadInv(got[q])
  BY DEF SystemVIInv
<1>2. SystemVTypes'
  <2>1. r' \in [Readers -> ShmReaders] /\ got' \in [Readers -> Reads] BY <1>1 DEF SystemVTypes
  <2>2. spoilt' \subseteq 1..Len(sem')
    <3>1. spoilt \subseteq 1..Len(sem) /\ Len(sem) <= Len(sem') /\ Len(sem) \in Nat /\ Len(sem') \in Nat
      BY <1>1, SystemVFacts, LenProperties DEF SystemVTypes, Grows
    <3>2. 1..Len(sem) \subseteq 1..Len(sem') BY <3>1
    <3>3. QED BY <3>1, <3>2
  <2>3. segv' \subseteq Readers \cup {Writer} OBVIOUS
  <2>4. QED BY <1>1, <2>1, <2>2, <2>3 DEF SystemVTypes, Grows
<1>3. SegInv' /\ SentInv'
  <2>1. p \in Readers \cup {Writer} /\ p # Writer BY <1>1, SystemVFacts
  <2>2. QED BY <1>1, <2>1, SegKept
<1>4. WriterAt(w)'
  <2>1. PICK y \in ShmWriters : y = w BY <1>1 DEF SystemVTypes
  <2>2. WriterAt(y)' BY <1>1, <2>1, WriterKept
  <2>3. y = w' BY <2>1
  <2>4. QED BY <2>2, <2>3
<1>5. ASSUME NEW q \in Readers PROVE ReaderAt(q, r[q])' /\ ReadInv(got[q])'
  <2>1. CASE q = p
    <3>1. r'[q] = x /\ got'[q] = g BY <1>1, <2>1 DEF SystemVTypes
    <3>2. QED BY <2>1, <3>1
  <2>2. CASE q # p
    <3>1. r'[q] = r[q] /\ got'[q] = got[q] BY <1>1, <2>2 DEF SystemVTypes
    <3>2. PICK y \in ShmReaders, h \in Reads : y = r[q] /\ h = got[q] BY <1>1 DEF SystemVTypes
    <3>3. ReaderAt(q, y)' BY <1>1, <2>2, <3>2, OthersKept
    <3>4. ReadInv(h)' BY <1>1, <3>2, ReadKept
    <3>5. r'[q] = y /\ got'[q] = h BY <3>1, <3>2
    <3>6. QED BY <3>3, <3>4, <3>5
  <2>3. QED BY <2>1, <2>2
<1>6. QED BY <1>2, <1>3, <1>4, <1>5 DEF SystemVIInv

LEMMA NothingMoves ==
  ASSUME SystemVTypes, UNCHANGED <<seg, sem, sent, spoilt, exposed>>
  PROVE  SameSegs /\ \A p \in Readers \cup {Writer} : Grows(p)
<1>1. SameSegs BY DEF SameSegs
<1>2. /\ seg \in Seq(Segments) /\ sem \in Seq(Semaphores) /\ sent \in Seq(ReadOption)
      /\ Len(seg) \in Nat /\ Len(sem) \in Nat /\ Len(sent) \in Nat
      /\ \A i \in 1..Len(seg) : seg[i].version \in Nat
  BY SystemVFacts DEF SystemVTypes, Segments
<1>3. ASSUME NEW p \in Readers \cup {Writer} PROVE Grows(p) BY <1>2 DEF Grows
<1>4. QED BY <1>1, <1>3

\* The steps of a reader that only change its own record.
LEMMA ShmReaderGoes ==
  ASSUME SystemVIInv, segv = {}, NEW p \in Readers, NEW x \in ShmReaders, r' = [r EXCEPT ![p] = x],
         UNCHANGED <<seg, sem, w, sent, writes, faults, got, spoilt, exposed, segv>>, ReaderAt(p, x)
  PROVE  SystemVIInv'
<1>1. SystemVTypes /\ ReadInv(got[p]) BY DEF SystemVIInv
<1>2. Grows(p) /\ SameSegs BY <1>1, NothingMoves
<1>3. PICK g \in Reads : g = got[p] BY <1>1 DEF SystemVTypes
<1>4. got' = [got EXCEPT ![p] = g] BY <1>1, <1>3 DEF SystemVTypes
<1>5. ReadInv(g) BY <1>1, <1>3
<1>6. ReadInv(g)' BY <1>5 DEF ReadInv
<1>7. ReaderAt(p, x)' BY DEF ReaderAt, SemHandle, Lost, Usable, HeldOnly
<1>8. faults' \in Nat /\ exposed' \subseteq Readers \cup {Writer} /\ segv' \subseteq exposed' BY <1>1 DEF SystemVTypes
<1>9. UNCHANGED <<w, sent, writes, spoilt>> OBVIOUS
<1>10. QED BY <1>2, <1>4, <1>6, <1>7, <1>8, <1>9, ShmReaderMoves

LEMMA ShmReaderFacts ==
  ASSUME SystemVIInv, NEW p \in Readers
  PROVE  SystemVTypes /\ SentInv /\ SegInv /\ r[p] \in ShmReaders /\ ReaderAt(p, r[p])
BY SystemVFacts DEF SystemVIInv

\* A handle that dangles is not that of the options, has lost its semaphore, or comes back.
LEMMA CallReadInv ==
  ASSUME SystemVIInv, segv = {}, NEW p \in Readers, NEW i \in DOMAIN sent, CallRead(p, i)
  PROVE  SystemVIInv'
<1>1. PICK y \in ShmReaders : y = r[p] BY ShmReaderFacts
<1>2. ReaderAt(p, y) /\ SystemVTypes /\ SentInv /\ segv \subseteq exposed BY <1>1, ShmReaderFacts DEF SystemVIInv
<1>3. i \in 1..Len(sent) /\ i \in Nat /\ y.pc = "idle" BY <1>1, <1>2, SystemVFacts DEF CallRead
<1> DEFINE x == [y EXCEPT !.pc = "shm", !.o = i]
<1>4. /\ x \in ShmReaders /\ x.pc = "shm" /\ x.o = i /\ x.shm = y.shm /\ x.sem = y.sem /\ x.at = y.at
  BY <1>1, <1>3 DEF ShmReaders
<1>5. /\ r' = [r EXCEPT ![p] = x] /\ UNCHANGED <<seg, sem, w, sent, writes, faults, spoilt, segv>>
      /\ got' = [got EXCEPT ![p] = NoRead]
  BY <1>1 DEF CallRead
<1>6. exposed' = IF ComesBack(p, i) THEN exposed \cup {p} ELSE exposed BY DEF CallRead
<1> HIDE DEF x
<1>7. exposed \subseteq exposed' /\ exposed' \subseteq Readers \cup {Writer} /\ segv' \subseteq exposed' /\ faults' \in Nat
  BY <1>2, <1>5, <1>6 DEF SystemVTypes
<1>8. Grows(p) /\ SameSegs
  <2>1. SameSegs BY <1>5 DEF SameSegs
  <2>2. /\ seg \in Seq(Segments) /\ sem \in Seq(Semaphores) /\ sent \in Seq(ReadOption)
        /\ Len(seg) \in Nat /\ Len(sem) \in Nat /\ Len(sent) \in Nat
        /\ \A j \in 1..Len(seg) : seg[j].version \in Nat
    BY <1>2, SystemVFacts DEF SystemVTypes, Segments
  <2>3. QED BY <1>5, <1>7, <2>1, <2>2 DEF Grows
<1>9. x.shm.state = "dangling" /\ p \notin exposed' => x.at # sent[i].at \/ Lost(x.sem)
  <2> SUFFICES ASSUME y.shm.state = "dangling", p \notin exposed', y.at = sent[i].at PROVE Lost(y.sem)
    BY <1>4
  <2>1. ~ComesBack(p, i) BY <1>6
  <2>2. y.at = sent[y.o].at BY <1>1, <2>1 DEF ComesBack, Options
  <2>3. QED BY <1>2, <1>7, <2>2 DEF ReaderAt
<1>10. HeldOnly(p, FALSE, x.sem.id) BY <1>2, <1>3, <1>4 DEF ReaderAt, HeldOnly
<1>11. ReaderAt(p, x)'
  <2>1. HeldOnly(p, x.pc \in {"copy", "unlock"}, x.sem.id)' BY <1>4, <1>5, <1>10 DEF HeldOnly
  <2>2. i \in 0..Len(sent) /\ i # 0 BY <1>3
  <2>3. SemHandle(x.sem)' /\ (Lost(x.sem) => Lost(x.sem)') BY <1>2, <1>4, <1>5 DEF ReaderAt, SemHandle, Lost, Usable
  <2>4. QED BY <1>2, <1>4, <1>5, <1>9, <2>1, <2>2, <2>3 DEF ReaderAt
<1>12. PICK g \in Reads : g = NoRead BY DEF NoRead, Reads
<1>13. ReadInv(g)' BY <1>12 DEF ReadInv, NoRead
<1>14. got' = [got EXCEPT ![p] = g] BY <1>5, <1>12
<1>15. UNCHANGED <<w, sent, writes, spoilt>> BY <1>5
<1>16. r' = [r EXCEPT ![p] = x] BY <1>5
<1>17. QED BY <1>4, <1>7, <1>8, <1>11, <1>13, <1>14, <1>15, <1>16, ShmReaderMoves

LEMMA KeepOpenInv ==
  ASSUME SystemVIInv, segv = {}, NEW p \in Readers, KeepOpen(p)
  PROVE  SystemVIInv'
<1> DEFINE x == [r[p] EXCEPT !.pc = "sem"]
<1>1. PICK y \in ShmReaders : y = r[p] BY ShmReaderFacts
<1>2. ReaderAt(p, y) /\ SystemVTypes /\ SentInv BY <1>1, ShmReaderFacts
<1>3. /\ y.pc = "shm" /\ y.shm.state \in {"open", "dangling"} /\ y.at = sent[y.o].at
  BY <1>1 DEF KeepOpen, RGoto, Changed, HasKey, Options
<1>4. /\ x \in ShmReaders /\ x.pc = "sem" /\ x.o = y.o /\ x.shm = y.shm /\ x.sem = y.sem /\ x.at = y.at
  BY <1>1 DEF ShmReaders
<1>5. r' = [r EXCEPT ![p] = x] /\ UNCHANGED <<seg, sem, w, sent, writes, faults, got, spoilt, exposed, segv>>
  BY DEF KeepOpen, RGoto
<1> HIDE DEF x
<1>6. HeldOnly(p, x.pc \in {"copy", "unlock"}, x.sem.id) BY <1>2, <1>3, <1>4 DEF ReaderAt, HeldOnly
<1>7. ReaderAt(p, x) BY <1>2, <1>3, <1>4, <1>6 DEF ReaderAt
<1>8. QED BY <1>4, <1>5, <1>7, ShmReaderGoes

LEMMA ReadFailsInv ==
  ASSUME SystemVIInv, segv = {}, NEW p \in Readers,
         OpenFails(p) \/ ReadLockFails(p) \/ (ReadUnlock(p) /\ ~Usable(r[p].sem))
  PROVE  SystemVIInv'
<1> DEFINE x == [r[p] EXCEPT !.pc = "idle"]
<1>1. PICK y \in ShmReaders : y = r[p] BY ShmReaderFacts
<1>2. ReaderAt(p, y) /\ SystemVTypes /\ SentInv BY <1>1, ShmReaderFacts
<1>3. y.pc \in {"open", "lock", "unlock"} /\ (y.pc = "unlock" => ~Usable(y.sem))
  BY <1>1 DEF OpenFails, ReadLockFails, ReadUnlock, RGoto
<1>4. /\ x \in ShmReaders /\ x.pc = "idle" /\ x.o = y.o /\ x.shm = y.shm /\ x.sem = y.sem /\ x.at = y.at
  BY <1>1 DEF ShmReaders
<1>5. r' = [r EXCEPT ![p] = x] /\ UNCHANGED <<seg, sem, w, sent, writes, faults, got, spoilt, exposed, segv>>
  BY DEF OpenFails, ReadLockFails, ReadUnlock, RGoto, SemUnlock
<1> HIDE DEF x
<1>6. y.pc = "unlock" => ~sem[y.sem.id].live
  <2>1. y.sem \in ShmHandles BY DEF ShmReaders
  <2>2. y.pc = "unlock" => y.sem.state \in {"open", "closed"} BY <1>2, <2>1 DEF ReaderAt, SemHandle, ShmHandles
  <2>3. QED BY <1>2, <1>3, <2>2 DEF ReaderAt, SemHandle, Usable
<1>7. HeldOnly(p, x.pc \in {"copy", "unlock"}, x.sem.id) BY <1>2, <1>3, <1>4, <1>6 DEF ReaderAt, HeldOnly
<1>8. y.o \in Nat /\ (y.shm.state = "dangling" /\ p \notin exposed => y.at # sent[y.o].at \/ Lost(y.sem))
  BY <1>2 DEF ReaderAt, ShmReaders
<1>9. ReaderAt(p, x) BY <1>2, <1>4, <1>7, <1>8 DEF ReaderAt
<1>10. QED BY <1>4, <1>5, <1>9, ShmReaderGoes

LEMMA OpenSemInv ==
  ASSUME SystemVIInv, segv = {}, NEW p \in Readers, OpenSem(p)
  PROVE  SystemVIInv'
<1>1. PICK y \in ShmReaders : y = r[p] BY ShmReaderFacts
<1>2. ReaderAt(p, y) /\ SystemVTypes BY <1>1, ShmReaderFacts
<1>3. y.pc = "sem" /\ y.sem.state = "nil" /\ UNCHANGED <<seg, sem, w, sent, writes, faults, got, spoilt, exposed, segv>>
  BY <1>1 DEF OpenSem
<1>4. HeldOnly(p, FALSE, 0) BY <1>2, <1>3 DEF ReaderAt, HeldOnly
<1>5. CASE r' = [r EXCEPT ![p].pc = "idle"]
  <2> DEFINE x == [r[p] EXCEPT !.pc = "idle"]
  <2>1. /\ x \in ShmReaders /\ x.pc = "idle" /\ x.o = y.o /\ x.shm = y.shm /\ x.sem = y.sem /\ x.at = y.at
    BY <1>1 DEF ShmReaders
  <2>2. r' = [r EXCEPT ![p] = x] BY <1>5
  <2> HIDE DEF x
  <2>3. HeldOnly(p, x.pc \in {"copy", "unlock"}, x.sem.id) BY <1>4, <2>1 DEF HeldOnly
  <2>4. ReaderAt(p, x) BY <1>2, <1>3, <2>1, <2>3 DEF ReaderAt
  <2>5. QED BY <1>3, <2>1, <2>2, <2>4, ShmReaderGoes
<1>6. ASSUME NEW i \in Named(sem, sem[Options(p).lock].key), r' = [r EXCEPT ![p].pc = "lock", ![p].sem = Open(i)]
      PROVE  SystemVIInv'
  <2> DEFINE x == [r[p] EXCEPT !.pc = "lock", !.sem = Open(i)]
  <2>1. i \in 1..Len(sem) /\ i \in Nat BY <1>2, SystemVFacts DEF Named
  <2>2. Open(i) \in ShmHandles /\ Open(i).id = i /\ Open(i).state = "open" BY <2>1 DEF Open, ShmHandles
  <2>3. /\ x \in ShmReaders /\ x.pc = "lock" /\ x.o = y.o /\ x.shm = y.shm /\ x.sem = Open(i) /\ x.at = y.at
    BY <1>1, <2>2 DEF ShmReaders
  <2>4. r' = [r EXCEPT ![p] = x] BY <1>6
  <2> HIDE DEF x
  <2>5. HeldOnly(p, x.pc \in {"copy", "unlock"}, x.sem.id) BY <1>4, <2>3 DEF HeldOnly
  <2>6. SemHandle(x.sem) BY <2>1, <2>2, <2>3 DEF SemHandle
  <2>7. x.shm.state = "dangling" /\ p \notin exposed => x.at # sent[x.o].at
    BY <1>2, <1>3, <2>3 DEF ReaderAt, Lost
  <2>8. ReaderAt(p, x) BY <1>2, <1>3, <2>2, <2>3, <2>5, <2>6, <2>7 DEF ReaderAt
  <2>9. QED BY <1>3, <2>3, <2>4, <2>8, ShmReaderGoes
<1>7. QED BY <1>5, <1>6 DEF OpenSem

LEMMA KeepOpenSemInv ==
  ASSUME SystemVIInv, segv = {}, NEW p \in Readers, KeepOpenSem(p)
  PROVE  SystemVIInv'
<1> DEFINE x == [r[p] EXCEPT !.pc = "lock"]
<1>1. PICK y \in ShmReaders : y = r[p] BY ShmReaderFacts
<1>2. ReaderAt(p, y) /\ SystemVTypes BY <1>1, ShmReaderFacts
<1>3. y.pc = "sem" /\ y.sem.state # "nil" BY <1>1 DEF KeepOpenSem, RGoto
<1>4. /\ x \in ShmReaders /\ x.pc = "lock" /\ x.o = y.o /\ x.shm = y.shm /\ x.sem = y.sem /\ x.at = y.at
  BY <1>1 DEF ShmReaders
<1>5. r' = [r EXCEPT ![p] = x] /\ UNCHANGED <<seg, sem, w, sent, writes, faults, got, spoilt, exposed, segv>>
  BY DEF KeepOpenSem, RGoto
<1> HIDE DEF x
<1>6. HeldOnly(p, x.pc \in {"copy", "unlock"}, x.sem.id) BY <1>2, <1>3, <1>4 DEF ReaderAt, HeldOnly
<1>7. ReaderAt(p, x) BY <1>2, <1>3, <1>4, <1>6 DEF ReaderAt
<1>8. QED BY <1>4, <1>5, <1>7, ShmReaderGoes

\* What closing does.
LEMMA CloseShmFacts ==
  ASSUME SystemVTypes, NEW p \in Readers \cup {Writer}, NEW h \in ShmHandles,
         h.state = "open" => h.id \in 1..Len(seg), CloseShm(h, p)
  PROVE  /\ seg' \in Seq(Segments) /\ Len(seg') = Len(seg)
         /\ \A i \in 1..Len(seg) : /\ seg'[i].key = seg[i].key /\ seg'[i].version = seg[i].version
                                   /\ seg'[i].torn = seg[i].torn /\ (seg'[i].live => seg[i].live)
                                   /\ seg'[i].size = seg[i].size /\ seg'[i].under = seg[i].under
<1>1. CASE h.state # "open" BY <1>1 DEF CloseShm, SystemVTypes
<1>2. CASE h.state = "open"
  <2>1. PICK left : left = seg[h.id].attached \ {p} OBVIOUS
  <2>2. PICK x : x = [seg[h.id] EXCEPT !.attached = left, !.live = FALSE] OBVIOUS
  <2>3. h.id \in 1..Len(seg) /\ seg[h.id] \in Segments BY <1>2, SystemVFacts
  <2>4. left \in SUBSET (Readers \cup {Writer}) BY <2>1, <2>3 DEF Segments
  <2>5. /\ x \in Segments /\ x.key = seg[h.id].key /\ x.version = seg[h.id].version /\ x.torn = seg[h.id].torn
        /\ x.live = FALSE /\ x.size = seg[h.id].size /\ x.under = seg[h.id].under
    BY <2>2, <2>3, <2>4 DEF Segments
  <2>6. seg' = [seg EXCEPT ![h.id] = x] BY <1>2, <2>1, <2>2 DEF CloseShm
  <2>7. seg \in Seq(Segments) BY DEF SystemVTypes
  <2>8. /\ seg' \in Seq(Segments) /\ Len(seg') = Len(seg)
        /\ \A j \in 1..Len(seg) : seg'[j] = IF j = h.id THEN x ELSE seg[j]
    BY ONLY <2>3, <2>5, <2>6, <2>7, SeqUpdate
  <2>9. QED BY <2>5, <2>8
<1>3. QED BY <1>1, <1>2

LEMMA ShmClosedFacts ==
  ASSUME NEW h \in ShmHandles, NEW p
  PROVE  /\ ShmClosed(h, p) \in ShmHandles /\ ShmClosed(h, p).id = h.id
         /\ h.state # "open" => ShmClosed(h, p) = h
         /\ h.state = "open" => ShmClosed(h, p).state \in {"closed", "dangling"}
BY DEF ShmClosed, ShmHandles

LEMMA CloseSemFacts ==
  ASSUME SystemVTypes, NEW h \in ShmHandles, SemHandle(h), CloseSem(h),
         NEW k, k = SemClosed(h)
  PROVE  /\ sem' \in Seq(Semaphores) /\ Len(sem') = Len(sem)
         /\ \A i \in 1..Len(sem) : sem'[i].by = sem[i].by /\ (sem'[i].live => sem[i].live)
         /\ k \in ShmHandles /\ k.id = h.id /\ (k.state = "nil" <=> h.state = "nil") /\ SemHandle(k)'
         /\ h.state # "nil" => Lost(k)'
<1>1. k \in ShmHandles BY DEF SemClosed, ShmHandles
<1>2. CASE h.state = "open"
  <2>1. PICK x : x = [sem[h.id] EXCEPT !.live = FALSE] OBVIOUS
  <2>2. h.id \in 1..Len(sem) /\ sem[h.id] \in Semaphores BY <1>2, SystemVFacts DEF SemHandle
  <2>3. x \in Semaphores /\ x.key = sem[h.id].key /\ x.by = sem[h.id].by /\ x.live = FALSE
    BY <2>1, <2>2 DEF Semaphores
  <2>4. sem' = [sem EXCEPT ![h.id] = x] BY <1>2, <2>1 DEF CloseSem
  <2>5. sem \in Seq(Semaphores) BY DEF SystemVTypes
  <2>6. /\ sem' \in Seq(Semaphores) /\ Len(sem') = Len(sem)
        /\ \A j \in 1..Len(sem) : sem'[j] = IF j = h.id THEN x ELSE sem[j]
    BY ONLY <2>2, <2>3, <2>4, <2>5, SeqUpdate
  <2>7. k.id = h.id /\ k.state \in {"open", "closed"} BY <1>1, <1>2 DEF SemClosed, ShmHandles
  <2>8. SemHandle(k)' /\ Lost(k)' BY <2>2, <2>3, <2>6, <2>7 DEF SemHandle, Lost, Usable
  <2>9. QED BY <1>1, <1>2, <2>3, <2>6, <2>7, <2>8
<1>3. CASE h.state # "open"
  <2>1. k = h /\ sem' = sem BY <1>1, <1>3 DEF SemClosed, CloseSem
  <2>2. QED BY <1>1, <1>3, <2>1 DEF SemHandle, Lost, Usable, SystemVTypes
<1>4. QED BY <1>2, <1>3

\* The steps of a reader that read nothing.
LEMMA ShmReaderSteps ==
  ASSUME SystemVIInv, segv = {}, NEW p \in Readers, Grows(p), SameSegs, UNCHANGED <<w, sent, writes, got, spoilt, segv>>,
         NEW x \in ShmReaders, r' = [r EXCEPT ![p] = x], ReaderAt(p, x)',
         faults' \in Nat, exposed' \subseteq Readers \cup {Writer}
  PROVE  SystemVIInv'
<1>1. SystemVTypes /\ ReadInv(got[p]) BY DEF SystemVIInv
<1>2. PICK g \in Reads : g = got[p] BY <1>1 DEF SystemVTypes
<1>3. got' = [got EXCEPT ![p] = g] BY <1>1, <1>2 DEF SystemVTypes
<1>4. ReadInv(g) BY <1>1, <1>2
<1>5. ReadInv(g)' BY <1>4 DEF ReadInv
<1>6. segv' \subseteq exposed' OBVIOUS
<1>7. UNCHANGED <<w, sent, writes, spoilt>> OBVIOUS
<1>8. QED BY <1>3, <1>5, <1>6, <1>7, ShmReaderMoves

LEMMA ReopenInv ==
  ASSUME SystemVIInv, segv = {}, NEW p \in Readers, Reopen(p)
  PROVE  SystemVIInv'
<1>1. PICK y \in ShmReaders : y = r[p] BY ShmReaderFacts
<1>2. ReaderAt(p, y) /\ SystemVTypes BY <1>1, ShmReaderFacts
<1>3. y.pc = "shm" /\ CloseShm(y.shm, p) /\ UNCHANGED <<sem, w, sent, writes, faults, got, spoilt, exposed, segv>>
  BY <1>1 DEF Reopen
<1>4. y.o # 0 /\ y.o \in 1..Len(sent) /\ (y.shm.state # "nil" => y.shm.id \in 1..Len(seg)) BY <1>2, <1>3 DEF ReaderAt
<1>5. y.shm \in ShmHandles /\ p \in Readers \cup {Writer} BY DEF ShmReaders
<1>6. PICK k : k = ShmClosed(y.shm, p) OBVIOUS
<1>7. /\ k \in ShmHandles /\ k.id = y.shm.id /\ (y.shm.state # "open" => k = y.shm)
      /\ y.shm.state = "open" => k.state \in {"closed", "dangling"}
  BY <1>5, <1>6, ShmClosedFacts
<1> DEFINE x == [y EXCEPT !.pc = "open", !.shm = k]
<1>8. r' = [r EXCEPT ![p] = x] BY <1>1, <1>6 DEF Reopen
<1>9. /\ x \in ShmReaders /\ x.pc = "open" /\ x.o = y.o /\ x.shm = k /\ x.sem = y.sem /\ x.at = y.at
  BY <1>7 DEF ShmReaders
<1> HIDE DEF x
<1>10. /\ seg' \in Seq(Segments) /\ Len(seg') = Len(seg)
       /\ \A i \in 1..Len(seg) : /\ seg'[i].key = seg[i].key /\ seg'[i].version = seg[i].version
                                 /\ seg'[i].torn = seg[i].torn /\ (seg'[i].live => seg[i].live)
                                 /\ seg'[i].size = seg[i].size /\ seg'[i].under = seg[i].under
  BY <1>2, <1>3, <1>4, <1>5, CloseShmFacts
<1>11. SameSegs BY <1>10 DEF SameSegs
<1>12. Grows(p)
  <2>1. Grows(p) <=> /\ seg' \in Seq(Segments) /\ Len(seg) <= Len(seg')
                     /\ \A i \in 1..Len(seg) : /\ seg'[i].key = seg[i].key /\ seg[i].version <= seg'[i].version
                                               /\ seg'[i].live => seg[i].live
    BY <1>2, <1>3, SystemVFacts DEF Grows, SystemVTypes
  <2>2. \A i \in 1..Len(seg) : seg[i].version \in Nat BY <1>2, SystemVFacts DEF Segments
  <2>3. Len(seg) \in Nat BY <1>2, SystemVFacts
  <2>4. QED BY <1>10, <2>1, <2>2, <2>3
\* A segment that was open is not the one that the options name.
<1>13. y.shm.state = "open" => y.at # sent[y.o].at
  <2> SUFFICES ASSUME y.shm.state = "open" PROVE y.at # sent[y.o].at OBVIOUS
  <2>1. seg[y.shm.id].key = seg[y.at].key BY <1>2, <1>4 DEF ReaderAt
  <2>2. QED BY <1>1, <2>1 DEF Reopen, Changed, HasKey, Options
<1>14. k.state = "nil" <=> y.shm.state = "nil" BY <1>7 DEF ShmHandles
<1>15. ReaderAt(p, x)
  <2>1. HeldOnly(p, x.pc \in {"copy", "unlock"}, x.sem.id) BY <1>2, <1>3, <1>9 DEF ReaderAt, HeldOnly
  <2>2. k.state = "dangling" /\ p \notin exposed => y.at # sent[y.o].at \/ Lost(y.sem)
    BY <1>2, <1>7, <1>13 DEF ReaderAt
  <2>3. QED BY <1>2, <1>4, <1>7, <1>9, <1>14, <2>1, <2>2 DEF ReaderAt
<1>16. ReaderAt(p, x)'
  <2>1. x.shm.state # "nil" => x.shm.id \in 1..Len(seg) /\ x.at \in 1..Len(seg)
    BY <1>2, <1>4, <1>7, <1>9, <1>14, <1>15, SystemVFacts DEF ReaderAt
  <2>2. QED BY <1>3, <1>10, <1>15, <2>1 DEF ReaderAt, SemHandle, Lost, Usable, HeldOnly
<1>17. faults' \in Nat /\ exposed' \subseteq Readers \cup {Writer} /\ exposed \subseteq exposed' BY <1>2, <1>3 DEF SystemVTypes
<1>18. UNCHANGED <<w, sent, writes, got, spoilt, segv>> BY <1>3
<1>19. QED BY <1>8, <1>9, <1>11, <1>12, <1>16, <1>17, <1>18, ShmReaderSteps

LEMMA OpenShmInv ==
  ASSUME SystemVIInv, segv = {}, NEW p \in Readers, OpenShm(p)
  PROVE  SystemVIInv'
<1>1. PICK y \in ShmReaders : y = r[p] BY ShmReaderFacts
<1>2. ReaderAt(p, y) /\ SystemVTypes /\ SegInv /\ SentInv BY <1>1, ShmReaderFacts
<1>3. y.pc = "open" /\ UNCHANGED <<sem, w, sent, writes, faults, got, spoilt, exposed, segv>> BY <1>1 DEF OpenShm
<1>4. PICK i \in Named(seg, seg[Options(p).at].key) :
        /\ seg' = [seg EXCEPT ![i].attached = @ \cup {p}]
        /\ r' = [r EXCEPT ![p].pc = "sem", ![p].shm = Open(i), ![p].at = Options(p).at]
  BY ONLY OpenShm(p) DEF OpenShm
<1>5. PICK a \in 1..Len(seg) : a = sent[y.o].at /\ a = Options(p).at
  <2>1. Options(p) = sent[y.o] BY ONLY <1>1 DEF Options
  <2>2. y.o \in 1..Len(sent) BY <1>2, <1>3, SystemVFacts DEF ReaderAt
  <2>3. sent[y.o].at \in 1..Len(seg) BY ONLY <1>2, <2>2 DEF SentInv
  <2>4. QED BY ONLY <2>1, <2>3
<1>6. i \in 1..Len(seg) /\ i \in Nat /\ a \in Nat /\ seg[i].key = seg[a].key /\ seg[i].live
  BY <1>2, <1>4, <1>5, SystemVFacts DEF Named
\* Earlier segments with this key are not found any more.
<1>7. a <= i
  <2>1. ~(i < a) BY <1>2, <1>6 DEF SegInv
  <2>2. QED BY <1>6, <2>1
<1>8. Open(i) \in ShmHandles /\ Open(i).id = i /\ Open(i).state = "open" BY <1>6 DEF Open, ShmHandles
<1> DEFINE x == [y EXCEPT !.pc = "sem", !.shm = Open(i), !.at = a]
<1>9. r' = [r EXCEPT ![p] = x] BY <1>1, <1>4, <1>5
<1>10. /\ x \in ShmReaders /\ x.pc = "sem" /\ x.o = y.o /\ x.shm = Open(i) /\ x.sem = y.sem /\ x.at = a
  BY <1>6, <1>8 DEF ShmReaders
<1> HIDE DEF x
<1>11. /\ seg' \in Seq(Segments) /\ Len(seg') = Len(seg)
       /\ \A j \in 1..Len(seg) : /\ seg'[j].key = seg[j].key /\ seg'[j].version = seg[j].version
                                 /\ seg'[j].torn = seg[j].torn /\ (seg'[j].live => seg[j].live)
                                 /\ seg'[j].size = seg[j].size /\ seg'[j].under = seg[j].under
  <2>1. PICK z : z = [seg[i] EXCEPT !.attached = seg[i].attached \cup {p}] OBVIOUS
  <2>2. seg[i] \in Segments /\ seg \in Seq(Segments) BY <1>2, <1>6, SystemVFacts DEF SystemVTypes
  <2>3. seg[i].attached \cup {p} \in SUBSET (Readers \cup {Writer}) BY <2>2 DEF Segments
  <2>4. /\ z \in Segments /\ z.key = seg[i].key /\ z.version = seg[i].version /\ z.torn = seg[i].torn
        /\ z.live = seg[i].live /\ z.size = seg[i].size /\ z.under = seg[i].under
    BY <2>1, <2>2, <2>3 DEF Segments
  <2>5. seg' = [seg EXCEPT ![i] = z] BY <1>4, <2>1
  <2>6. /\ seg' \in Seq(Segments) /\ Len(seg') = Len(seg)
        /\ \A j \in 1..Len(seg) : seg'[j] = IF j = i THEN z ELSE seg[j]
    BY ONLY <1>6, <2>2, <2>4, <2>5, SeqUpdate
  <2>7. QED BY <2>4, <2>6
<1>12. SameSegs BY <1>11 DEF SameSegs
<1>13. Grows(p)
  <2>1. Grows(p) <=> /\ seg' \in Seq(Segments) /\ Len(seg) <= Len(seg')
                     /\ \A j \in 1..Len(seg) : /\ seg'[j].key = seg[j].key /\ seg[j].version <= seg'[j].version
                                               /\ seg'[j].live => seg[j].live
    BY <1>2, <1>3, SystemVFacts DEF Grows, SystemVTypes
  <2>2. \A j \in 1..Len(seg) : seg[j].version \in Nat BY <1>2, SystemVFacts DEF Segments
  <2>3. Len(seg) \in Nat BY <1>2, SystemVFacts
  <2>4. QED BY <1>11, <2>1, <2>2, <2>3
<1>14. ReaderAt(p, x)
  <2>1. HeldOnly(p, x.pc \in {"copy", "unlock"}, x.sem.id) BY <1>2, <1>3, <1>10 DEF ReaderAt, HeldOnly
  <2>2. a \in 1..i BY <1>5, <1>6, <1>7
  <2>3. y.o # 0 BY <1>2, <1>3 DEF ReaderAt
  <2>4. SemHandle(y.sem) /\ y.o \in 0..Len(sent) BY <1>2 DEF ReaderAt
  <2>5. x.shm.id = i /\ x.shm.state = "open" /\ x.pc = "sem" /\ x.o = y.o /\ x.sem = y.sem /\ x.at = a BY <1>8, <1>10
  <2>6. a = sent[y.o].at BY <1>5
  <2>7. QED BY ONLY <1>6, <2>1, <2>2, <2>3, <2>4, <2>5, <2>6 DEF ReaderAt
<1>15. ReaderAt(p, x)'
  <2>1. x.shm.id \in 1..Len(seg) /\ x.at \in 1..Len(seg) BY <1>5, <1>6, <1>8, <1>10
  <2>2. QED BY <1>3, <1>11, <1>14, <2>1 DEF ReaderAt, SemHandle, Lost, Usable, HeldOnly
<1>16. faults' \in Nat /\ exposed' \subseteq Readers \cup {Writer} BY <1>2, <1>3 DEF SystemVTypes
<1>17. UNCHANGED <<w, sent, writes, got, spoilt, segv>> BY <1>3
<1>18. QED BY <1>9, <1>10, <1>12, <1>13, <1>15, <1>16, <1>17, ShmReaderSteps

\* A semaphore that p takes or frees.
LEMMA SemSet ==
  ASSUME SystemVTypes, NEW i \in 1..Len(sem), NEW q \in Readers \cup {Writer, Nobody}, sem' = [sem EXCEPT ![i].by = q]
  PROVE  /\ sem' \in Seq(Semaphores) /\ Len(sem') = Len(sem)
         /\ \A j \in 1..Len(sem) : sem'[j].live = sem[j].live /\ sem'[j].by = IF j = i THEN q ELSE sem[j].by
<1>1. PICK x : x = [sem[i] EXCEPT !.by = q] OBVIOUS
<1>2. sem[i] \in Semaphores /\ sem \in Seq(Semaphores) BY SystemVFacts DEF SystemVTypes
<1>3. x \in Semaphores /\ x.live = sem[i].live /\ x.by = q BY <1>1, <1>2 DEF Semaphores
<1>4. sem' = [sem EXCEPT ![i] = x] BY <1>1
<1>5. /\ sem' \in Seq(Semaphores) /\ Len(sem') = Len(sem)
      /\ \A j \in 1..Len(sem) : sem'[j] = IF j = i THEN x ELSE sem[j]
  BY ONLY <1>2, <1>3, <1>4, SeqUpdate
<1>6. QED BY <1>3, <1>5

LEMMA SemMoves ==
  ASSUME SystemVTypes, NEW p \in Readers \cup {Writer}, NEW i \in 1..Len(sem), NEW q \in {p, Nobody},
         sem[i].by \in {p, Nobody}, sem' = [sem EXCEPT ![i].by = q], UNCHANGED <<seg, sent, exposed>>, spoilt \subseteq spoilt'
  PROVE  Grows(p) /\ SameSegs
<1>1. /\ sem' \in Seq(Semaphores) /\ Len(sem') = Len(sem)
      /\ \A j \in 1..Len(sem) : sem'[j].live = sem[j].live /\ sem'[j].by = IF j = i THEN q ELSE sem[j].by
  <2>1. q \in Readers \cup {Writer, Nobody} OBVIOUS
  <2>2. QED BY <2>1, SemSet
<1>2. \A j \in 1..Len(seg) : seg[j].version \in Nat BY SystemVFacts DEF Segments
<1>3. Len(seg) \in Nat /\ Len(sem) \in Nat /\ Len(sent) \in Nat BY SystemVFacts
<1>4. seg \in Seq(Segments) /\ sent \in Seq(ReadOption) BY DEF SystemVTypes
<1>5. \A j \in 1..Len(sem) : sem'[j].by = sem[j].by \/ {sem[j].by, sem'[j].by} \subseteq {Nobody, p} BY <1>1
<1>6. QED BY <1>1, <1>2, <1>3, <1>4, <1>5 DEF Grows, SameSegs

LEMMA ReadLockInv ==
  ASSUME SystemVIInv, segv = {}, NEW p \in Readers, ReadLock(p)
  PROVE  SystemVIInv'
<1>1. PICK y \in ShmReaders : y = r[p] BY ShmReaderFacts
<1>2. ReaderAt(p, y) /\ SystemVTypes BY <1>1, ShmReaderFacts
<1>3. y.pc = "lock" /\ SemLock(y.sem, p) /\ UNCHANGED <<seg, w, sent, writes, faults, got, spoilt, exposed, segv>>
  BY <1>1 DEF ReadLock, RGoto
<1>4. PICK i \in 1..Len(sem) : i = y.sem.id BY <1>2, <1>3 DEF ReaderAt, SemHandle
<1>5. Usable(y.sem) /\ sem[i].by = Nobody /\ sem' = [sem EXCEPT ![i].by = p] BY <1>3, <1>4 DEF SemLock
<1>6. p \in Readers \cup {Writer, Nobody} /\ p \in Readers \cup {Writer} /\ p # Nobody BY <1>2, SystemVFacts
<1>7. /\ sem' \in Seq(Semaphores) /\ Len(sem') = Len(sem)
      /\ \A j \in 1..Len(sem) : sem'[j].live = sem[j].live /\ sem'[j].by = IF j = i THEN p ELSE sem[j].by
  BY <1>2, <1>5, <1>6, SemSet
<1>8. Grows(p) /\ SameSegs
  <2>1. UNCHANGED <<seg, sent, exposed>> /\ spoilt \subseteq spoilt' /\ sem[i].by \in {p, Nobody} /\ p \in {p, Nobody}
    BY <1>3, <1>5
  <2>2. QED BY <1>2, <1>5, <1>6, <2>1, SemMoves
<1> DEFINE x == [y EXCEPT !.pc = "copy"]
<1>9. r' = [r EXCEPT ![p] = x] BY <1>1 DEF ReadLock, RGoto
<1>10. /\ x \in ShmReaders /\ x.pc = "copy" /\ x.o = y.o /\ x.shm = y.shm /\ x.sem = y.sem /\ x.at = y.at
  BY DEF ShmReaders
<1> HIDE DEF x
<1>11. ReaderAt(p, x)'
  <2>1. HeldOnly(p, x.pc \in {"copy", "unlock"}, x.sem.id)'
    <3> SUFFICES ASSUME NEW j \in 1..Len(sem) \ spoilt, sem'[j].live, sem'[j].by = p PROVE j = i
      BY <1>3, <1>4, <1>7, <1>10 DEF HeldOnly
    <3>1. CASE j # i
      <4>1. sem[j].live /\ sem[j].by = p BY <1>7, <3>1
      <4>2. QED BY <1>2, <1>3, <4>1 DEF ReaderAt, HeldOnly
    <3>2. QED BY <3>1
  <2>2. SemHandle(x.sem)' /\ sem'[x.sem.id].by = p BY <1>2, <1>4, <1>7, <1>10 DEF ReaderAt, SemHandle
  <2>3. ~Lost(x.sem) BY <1>5, <1>10 DEF Lost
  <2>4. QED BY <1>2, <1>3, <1>10, <2>1, <2>2, <2>3 DEF ReaderAt
<1>12. faults' \in Nat /\ exposed' \subseteq Readers \cup {Writer} BY <1>2, <1>3 DEF SystemVTypes
<1>13. UNCHANGED <<w, sent, writes, got, spoilt, segv>> BY <1>3
<1>14. QED BY <1>8, <1>9, <1>10, <1>11, <1>12, <1>13, ShmReaderSteps

LEMMA ReadUnlockInv ==
  ASSUME SystemVIInv, segv = {}, NEW p \in Readers, ReadUnlock(p), SemUnlock(r[p].sem)
  PROVE  SystemVIInv'
<1>1. PICK y \in ShmReaders : y = r[p] BY ShmReaderFacts
<1>2. ReaderAt(p, y) /\ SystemVTypes BY <1>1, ShmReaderFacts
<1>3. y.pc = "unlock" /\ SemUnlock(y.sem) /\ UNCHANGED <<seg, w, sent, writes, faults, got, spoilt, exposed, segv>>
  BY <1>1 DEF ReadUnlock, RGoto
<1>4. PICK i \in 1..Len(sem) : i = y.sem.id BY <1>2, <1>3 DEF ReaderAt, SemHandle
<1>5. sem[i].by = p /\ sem' = [sem EXCEPT ![i].by = Nobody] BY <1>2, <1>3, <1>4 DEF SemUnlock, ReaderAt
<1>6. p \in Readers \cup {Writer} /\ p # Nobody /\ Nobody \in Readers \cup {Writer, Nobody} BY <1>2, SystemVFacts
<1>7. /\ sem' \in Seq(Semaphores) /\ Len(sem') = Len(sem)
      /\ \A j \in 1..Len(sem) : sem'[j].live = sem[j].live /\ sem'[j].by = IF j = i THEN Nobody ELSE sem[j].by
  BY <1>2, <1>5, <1>6, SemSet
<1>8. Grows(p) /\ SameSegs
  <2>1. UNCHANGED <<seg, sent, exposed>> /\ spoilt \subseteq spoilt' /\ sem[i].by \in {p, Nobody} /\ Nobody \in {p, Nobody}
    BY <1>3, <1>5
  <2>2. QED BY <1>2, <1>5, <1>6, <2>1, SemMoves
<1> DEFINE x == [y EXCEPT !.pc = "idle"]
<1>9. r' = [r EXCEPT ![p] = x] BY <1>1 DEF ReadUnlock, RGoto
<1>10. /\ x \in ShmReaders /\ x.pc = "idle" /\ x.o = y.o /\ x.shm = y.shm /\ x.sem = y.sem /\ x.at = y.at
  BY DEF ShmReaders
<1> HIDE DEF x
<1>11. ReaderAt(p, x)'
  <2>1. HeldOnly(p, x.pc \in {"copy", "unlock"}, x.sem.id)'
    <3> SUFFICES ASSUME NEW j \in 1..Len(sem) \ spoilt, sem'[j].live, sem'[j].by = p PROVE FALSE
      BY <1>3, <1>7 DEF HeldOnly
    <3>1. j # i /\ sem[j].live /\ sem[j].by = p BY <1>6, <1>7
    <3>2. QED BY <1>2, <1>4, <3>1 DEF ReaderAt, HeldOnly
  <2>2. SemHandle(x.sem)' BY <1>2, <1>7, <1>10 DEF ReaderAt, SemHandle
  <2>3. x.shm.state = "dangling" /\ p \notin exposed => x.at # sent[x.o].at BY <1>2, <1>3, <1>10 DEF ReaderAt
  <2>4. QED BY <1>2, <1>3, <1>10, <2>1, <2>2, <2>3 DEF ReaderAt
<1>12. faults' \in Nat /\ exposed' \subseteq Readers \cup {Writer} BY <1>2, <1>3 DEF SystemVTypes
<1>13. UNCHANGED <<w, sent, writes, got, spoilt, segv>> BY <1>3
<1>14. QED BY <1>8, <1>9, <1>10, <1>11, <1>12, <1>13, ShmReaderSteps

\* What is copied: while p holds the semaphore, nobody writes under it.
LEMMA CopyInv ==
  ASSUME SystemVIInv, segv = {}, NEW p \in Readers, Copy(p)
  PROVE  SystemVIInv'
<1>1. PICK y \in ShmReaders : y = r[p] BY ShmReaderFacts
<1>2. ReaderAt(p, y) /\ SystemVTypes /\ SentInv BY <1>1, ShmReaderFacts
<1>3. y.pc = "copy" /\ UNCHANGED <<seg, sem, w, sent, writes, faults, spoilt, exposed>> BY <1>1 DEF Copy, RGoto
<1>4. Grows(p) /\ SameSegs BY <1>2, <1>3, NothingMoves
<1> DEFINE x == [y EXCEPT !.pc = "unlock"]
<1>5. r' = [r EXCEPT ![p] = x] BY <1>1 DEF Copy, RGoto
<1>6. /\ x \in ShmReaders /\ x.pc = "unlock" /\ x.o = y.o /\ x.shm = y.shm /\ x.sem = y.sem /\ x.at = y.at
  BY DEF ShmReaders
<1> HIDE DEF x
<1>7. ReaderAt(p, x)
  <2>1. HeldOnly(p, x.pc \in {"copy", "unlock"}, x.sem.id) BY <1>2, <1>3, <1>6 DEF ReaderAt, HeldOnly
  <2>2. QED BY <1>2, <1>3, <1>6, <2>1 DEF ReaderAt
<1>8. ReaderAt(p, x)' BY <1>3, <1>7 DEF ReaderAt, SemHandle, Lost, Usable, HeldOnly
<1>9. faults' \in Nat /\ exposed' \subseteq Readers \cup {Writer} BY <1>2, <1>3 DEF SystemVTypes
<1>10. /\ y.o \in 1..Len(sent) /\ y.at = sent[y.o].at /\ sem[y.sem.id].by = p
       /\ y.shm.id \in 1..Len(seg) /\ y.at \in 1..y.shm.id
  BY <1>2, <1>3 DEF ReaderAt
<1>11. CASE y.shm.state = "open"
  <2>1. PICK c \in Segments : c = seg[y.shm.id] BY <1>2, <1>10, SystemVFacts
  <2> DEFINE n == sent[y.o].size > c.size
  <2>2. n \in BOOLEAN OBVIOUS
  <2>3. PICK g : g = [o |-> y.o, seg |-> y.shm.id, lock |-> y.sem.id, version |-> c.version, torn |-> c.torn,
                      under |-> c.under, short |-> n]
    OBVIOUS
  <2>4. got' = [got EXCEPT ![p] = g] /\ segv' = segv BY <1>1, <1>11, <2>1, <2>3 DEF Copy, Options
  <2> HIDE DEF n
  <2>5. y.o \in Nat /\ y.shm.id \in Nat /\ y.sem.id \in Nat /\ y.at \in Nat BY DEF ShmReaders, ShmHandles
  <2>6. /\ g \in Reads /\ g.o = y.o /\ g.seg = y.shm.id /\ g.lock = y.sem.id /\ g.version = c.version
        /\ g.torn = c.torn /\ g.under = c.under /\ g.short = n
    BY <2>1, <2>2, <2>3, <2>5 DEF Reads, Segments
  <2>7. ReadInv(g)
    <3>1. PICK o \in ReadOption : o = sent[y.o] BY <1>2, <1>10, SystemVFacts
    <3>2. /\ o.version <= seg[o.at].version /\ o.size <= seg[o.at].size
          /\ \A i \in 1..Len(seg) : i > o.at => seg[i].version = 0 \/ seg[i].version >= o.version
      BY <1>2, <1>10, <3>1 DEF SentInv, LaterThan
    <3>3. o.at \in Nat /\ o.version \in Nat /\ o.size \in Nat /\ c.version \in Nat /\ c.size \in Nat
      BY <2>1, <3>1 DEF ReadOption, Segments
    <3>4. y.shm.id >= o.at /\ (y.shm.id = o.at \/ y.shm.id > o.at) BY ONLY <1>10, <2>5, <3>1, <3>3
    <3>5. c.torn => y.sem.id # c.under
      <4>1. c.torn => sem[c.under].by = Writer BY <1>2, <1>10, <2>1, ShmReaderFacts DEF SegInv
      <4>2. p # Writer BY <1>2, SystemVFacts
      <4>3. QED BY <1>10, <4>1, <4>2
    <3>6. /\ y.shm.id >= o.at /\ (c.version >= o.version \/ (y.shm.id > o.at /\ c.version = 0))
          /\ n => y.shm.id > o.at
      <4>1. CASE y.shm.id = o.at
        <5>1. c.version >= o.version /\ ~n BY ONLY <2>1, <3>1, <3>2, <3>3, <4>1 DEF n
        <5>2. QED BY ONLY <3>4, <5>1
      <4>2. CASE y.shm.id > o.at
        <5>1. c.version = 0 \/ c.version >= o.version BY ONLY <1>10, <2>1, <3>2, <4>2
        <5>2. QED BY ONLY <3>4, <4>2, <5>1
      <4>3. QED BY ONLY <3>4, <4>1, <4>2
    <3>7. QED BY ONLY <1>10, <2>6, <3>1, <3>5, <3>6 DEF ReadInv
  <2>8. ReadInv(g)' BY <1>3, <2>7 DEF ReadInv
  <2>9. segv' \subseteq exposed' BY <2>4
  <2>10. QED BY <1>3, <1>4, <1>5, <1>6, <1>8, <1>9, <2>4, <2>6, <2>8, <2>9, ShmReaderMoves
<1>12. CASE y.shm.state # "open"
  <2>1. got' = got /\ segv' = {p} BY <1>1, <1>12 DEF Copy
  <2>2. y.shm.state = "dangling" BY <1>2, <1>3, <1>12 DEF ReaderAt
  <2>3. p \in exposed
    <3>1. y.at = sent[y.o].at BY <1>10
    <3>2. QED BY <1>2, <1>3, <2>2, <3>1 DEF ReaderAt
  <2>4. PICK g \in Reads : g = got[p] BY <1>2 DEF SystemVTypes
  <2>5. got' = [got EXCEPT ![p] = g] BY <1>2, <2>1, <2>4 DEF SystemVTypes
  <2>6. ReadInv(g)' BY <1>3, <2>4 DEF SystemVIInv, ReadInv
  <2>7. segv' \subseteq exposed' BY <1>3, <2>1, <2>3
  <2>8. QED BY <1>3, <1>4, <1>5, <1>6, <1>8, <1>9, <2>5, <2>6, <2>7, ShmReaderMoves
<1>13. QED BY <1>11, <1>12

LEMMA ReaderCloseInv ==
  ASSUME SystemVIInv, segv = {}, NEW p \in Readers, ReaderClose(p)
  PROVE  SystemVIInv'
<1>1. PICK y \in ShmReaders : y = r[p] BY ShmReaderFacts
<1>2. ReaderAt(p, y) /\ SystemVTypes BY <1>1, ShmReaderFacts
<1>3. /\ y.pc = "idle" /\ y.shm.state = "open" /\ CloseSem(y.sem) /\ CloseShm(y.shm, p)
      /\ UNCHANGED <<w, sent, writes, got, spoilt, segv>> /\ faults' = faults + 1
      /\ exposed' = IF y.sem.state = "nil" THEN exposed \cup {p} ELSE exposed
  BY <1>1 DEF ReaderClose, Fault
<1>4. y.shm \in ShmHandles /\ y.sem \in ShmHandles /\ p \in Readers \cup {Writer} BY DEF ShmReaders
<1>5. PICK k : k = ShmClosed(y.shm, p) OBVIOUS
<1>6. PICK l : l = SemClosed(y.sem) OBVIOUS
<1>7. k \in ShmHandles /\ k.id = y.shm.id /\ k.state \in {"closed", "dangling"} BY <1>3, <1>4, <1>5, ShmClosedFacts
<1>8. SemHandle(y.sem) /\ y.shm.id \in 1..Len(seg) BY <1>2, <1>3 DEF ReaderAt
<1>9. /\ sem' \in Seq(Semaphores) /\ Len(sem') = Len(sem)
      /\ \A i \in 1..Len(sem) : sem'[i].by = sem[i].by /\ (sem'[i].live => sem[i].live)
      /\ l \in ShmHandles /\ l.id = y.sem.id /\ (l.state = "nil" <=> y.sem.state = "nil") /\ SemHandle(l)'
      /\ y.sem.state # "nil" => Lost(l)'
  BY <1>2, <1>3, <1>4, <1>6, <1>8, CloseSemFacts
<1>10. /\ seg' \in Seq(Segments) /\ Len(seg') = Len(seg)
       /\ \A i \in 1..Len(seg) : /\ seg'[i].key = seg[i].key /\ seg'[i].version = seg[i].version
                                 /\ seg'[i].torn = seg[i].torn /\ (seg'[i].live => seg[i].live)
                                 /\ seg'[i].size = seg[i].size /\ seg'[i].under = seg[i].under
  BY <1>2, <1>3, <1>4, <1>8, CloseShmFacts
<1> DEFINE x == [y EXCEPT !.sem = l, !.shm = k]
<1>11. r' = [r EXCEPT ![p] = x] BY <1>1, <1>5, <1>6 DEF ReaderClose
<1>12. /\ x \in ShmReaders /\ x.pc = "idle" /\ x.o = y.o /\ x.shm = k /\ x.sem = l /\ x.at = y.at
  BY <1>3, <1>7, <1>9 DEF ShmReaders
<1> HIDE DEF x
<1>13. SameSegs BY <1>10 DEF SameSegs
<1>14. Grows(p)
  <2>1. \A i \in 1..Len(seg) : seg[i].version \in Nat BY <1>2, SystemVFacts DEF Segments
  <2>2. Len(seg) \in Nat /\ Len(sem) \in Nat /\ Len(sent) \in Nat /\ sent \in Seq(ReadOption)
    BY <1>2, SystemVFacts DEF SystemVTypes
  <2>3. spoilt \subseteq spoilt' /\ exposed \subseteq exposed' /\ sent' = sent BY <1>3
  <2>4. /\ seg' \in Seq(Segments) /\ Len(seg') = Len(seg)
        /\ \A i \in 1..Len(seg) : /\ seg'[i].key = seg[i].key /\ seg'[i].version = seg[i].version
                                  /\ seg'[i].live => seg[i].live
    BY ONLY <1>10
  <2>5. /\ sem' \in Seq(Semaphores) /\ Len(sem') = Len(sem)
        /\ \A i \in 1..Len(sem) : sem'[i].by = sem[i].by /\ (sem'[i].live => sem[i].live)
    BY ONLY <1>9
  <2>6. QED BY ONLY <2>1, <2>2, <2>3, <2>4, <2>5 DEF Grows
<1>15. ReaderAt(p, x)'
  <2>1. HeldOnly(p, x.pc \in {"copy", "unlock"}, x.sem.id)'
    <3> SUFFICES ASSUME NEW j \in 1..Len(sem) \ spoilt, sem'[j].live, sem'[j].by = p PROVE FALSE
      BY <1>3, <1>9 DEF HeldOnly
    <3>1. sem[j].live /\ sem[j].by = p BY <1>9
    <3>2. QED BY <1>2, <1>3, <3>1 DEF ReaderAt, HeldOnly
  <2>2. p \in exposed' \/ Lost(x.sem)' BY <1>3, <1>9, <1>12
  <2>3. y.o # 0 /\ y.at \in 1..y.shm.id /\ seg[y.shm.id].key = seg[y.at].key /\ y.o \in 0..Len(sent)
    BY <1>2, <1>3 DEF ReaderAt
  <2>4. y.at \in 1..Len(seg)
    <3>1. y.at \in Nat /\ y.shm.id \in Nat /\ Len(seg) \in Nat BY <1>2, SystemVFacts DEF ShmReaders, ShmHandles
    <3>2. QED BY <1>8, <2>3, <3>1
  <2>5. seg'[k.id].key = seg'[y.at].key BY <1>7, <1>8, <1>10, <2>3, <2>4
  <2>6. SemHandle(x.sem)' BY <1>9, <1>12
  <2>7. k.id \in 1..Len(seg') /\ y.at \in 1..k.id BY <1>7, <1>8, <1>10, <2>3
  <2>8. UNCHANGED sent BY <1>3
  <2>9. QED BY ONLY <1>12, <2>1, <2>2, <2>3, <2>5, <2>6, <2>7, <2>8 DEF ReaderAt
<1>16. faults' \in Nat /\ exposed' \subseteq Readers \cup {Writer} BY <1>2, <1>3 DEF SystemVTypes
<1>17. UNCHANGED <<w, sent, writes, got, spoilt, segv>> BY <1>3
<1>18. QED BY <1>11, <1>12, <1>13, <1>14, <1>15, <1>16, <1>17, ShmReaderSteps

\* The steps of the writer: the readers keep what they rely on.
LEMMA ShmWriterMoves ==
  ASSUME SystemVIInv, Grows(Writer), UNCHANGED <<r, got>>,
         NEW x \in ShmWriters, w' = x, WriterAt(x)', SegInv', SentInv',
         writes' \in Nat, faults' \in Nat, spoilt' \subseteq 1..Len(sem'),
         exposed' \subseteq Readers \cup {Writer}, segv' \subseteq exposed'
  PROVE  SystemVIInv'
<1>1. SystemVTypes /\ Writer \in Readers \cup {Writer} /\ Writer \notin Readers BY SystemVFacts DEF SystemVIInv
<1>2. SystemVTypes'
  <2>1. segv' \subseteq Readers \cup {Writer} OBVIOUS
  <2>2. QED BY <1>1, <2>1 DEF SystemVTypes, Grows
<1>3. WriterAt(w)' OBVIOUS
<1>4. ASSUME NEW q \in Readers PROVE ReaderAt(q, r[q])' /\ ReadInv(got[q])'
  <2>1. PICK y \in ShmReaders, h \in Reads : y = r[q] /\ h = got[q] BY <1>1 DEF SystemVTypes
  <2>2. ReaderAt(q, y) /\ ReadInv(h) BY <2>1 DEF SystemVIInv
  <2>3. ReaderAt(q, y)' BY <1>1, <2>2, OthersKept
  <2>4. ReadInv(h)' BY <1>1, <2>2, ReadKept
  <2>5. r'[q] = y /\ got'[q] = h BY <2>1
  <2>6. QED BY <2>3, <2>4, <2>5
<1>5. QED BY <1>2, <1>3, <1>4 DEF SystemVIInv

LEMMA ShmWriterFacts ==
  ASSUME SystemVIInv
  PROVE  /\ SystemVTypes /\ SentInv /\ SegInv /\ w \in ShmWriters /\ WriterAt(w) /\ segv \subseteq exposed
         /\ writes \in Nat /\ faults \in Nat /\ spoilt \subseteq 1..Len(sem) /\ exposed \subseteq Readers \cup {Writer}
BY SystemVFacts DEF SystemVIInv, SystemVTypes

\* The steps that leave the kernel's tables and the options as they are.
LEMMA ShmWriterGoes ==
  ASSUME SystemVIInv, UNCHANGED <<seg, sem, r, sent, got, spoilt, segv>>, NEW x \in ShmWriters, w' = x, WriterAt(x)',
         writes' \in Nat, writes <= writes', faults' \in Nat, exposed' \subseteq Readers \cup {Writer}, exposed \subseteq exposed'
  PROVE  SystemVIInv'
<1>1. SystemVTypes /\ SegInv /\ SentInv /\ spoilt \subseteq 1..Len(sem) /\ segv \subseteq exposed /\ writes \in Nat
  BY ShmWriterFacts
<1>2. Grows(Writer)
  <2>1. /\ seg \in Seq(Segments) /\ sem \in Seq(Semaphores) /\ sent \in Seq(ReadOption)
        /\ Len(seg) \in Nat /\ Len(sem) \in Nat /\ Len(sent) \in Nat
        /\ \A i \in 1..Len(seg) : seg[i].version \in Nat
    BY <1>1, SystemVFacts DEF SystemVTypes, Segments
  <2>2. QED BY <2>1 DEF Grows
<1>3. SegInv'
  <2>1. ASSUME NEW i \in 1..Len(seg) PROVE seg[i].version <= writes'
    <3>1. seg[i].version \in Nat /\ seg[i].version <= writes BY <1>1, SystemVFacts DEF Segments, SegInv
    <3>2. QED BY <1>1, <3>1
  <2>2. QED BY <1>1, <2>1 DEF SegInv
<1>4. SentInv' BY <1>1 DEF SentInv, LaterThan
<1>5. spoilt' \subseteq 1..Len(sem') /\ segv' \subseteq exposed' /\ UNCHANGED <<r, got>> BY <1>1
<1>6. QED BY <1>2, <1>3, <1>4, <1>5, ShmWriterMoves

LEMMA CallWriteInv ==
  ASSUME SystemVIInv, NEW n \in Sizes, CallWrite(n)
  PROVE  SystemVIInv'
<1>1. PICK y \in ShmWriters : y = w BY ShmWriterFacts
<1>2. WriterAt(y) /\ SystemVTypes /\ writes \in Nat /\ faults \in Nat /\ exposed \subseteq Readers \cup {Writer} BY <1>1, ShmWriterFacts
<1>3. y.pc = "idle" /\ writes' = writes + 1 /\ UNCHANGED <<seg, sem, r, sent, faults, got, spoilt, exposed, segv>>
  BY <1>1 DEF CallWrite
<1> DEFINE x == [y EXCEPT !.pc = "shm", !.arg = n]
<1>4. w' = x BY <1>1 DEF CallWrite
<1>5. n \in Nat BY <1>2, SystemVFacts
<1>6. x \in ShmWriters /\ x.pc = "shm" /\ x.shm = y.shm /\ x.sem = y.sem /\ x.size = y.size BY <1>5 DEF ShmWriters
<1> HIDE DEF x
<1>7. WriterAt(x)
  <2>1. HeldOnly(Writer, x.pc \in {"write", "writing", "unlock"}, x.sem.id) BY <1>2, <1>3, <1>6 DEF WriterAt, HeldOnly
  <2>2. QED BY <1>2, <1>3, <1>6, <2>1 DEF WriterAt
<1>8. WriterAt(x)' BY <1>3, <1>6, <1>7 DEF WriterAt, SemHandle, Lost, Usable, HeldOnly
<1>9. writes' \in Nat /\ writes <= writes' /\ faults' \in Nat /\ exposed' \subseteq Readers \cup {Writer} /\ exposed \subseteq exposed'
  BY <1>2, <1>3
<1>10. QED BY <1>3, <1>4, <1>6, <1>8, <1>9, ShmWriterGoes

LEMMA WriterGoesInv ==
  ASSUME SystemVIInv, segv = {}, KeepShm \/ KeepSem \/ WriteLockFails \/ WriteUnlockFails
  PROVE  SystemVIInv'
<1>1. PICK y \in ShmWriters : y = w BY ShmWriterFacts
<1>2. WriterAt(y) /\ SystemVTypes /\ writes \in Nat /\ faults \in Nat /\ exposed \subseteq Readers \cup {Writer} BY <1>1, ShmWriterFacts
<1>3. UNCHANGED <<seg, sem, r, sent, writes, faults, got, spoilt, exposed, segv>>
  BY DEF KeepShm, KeepSem, WriteLockFails, WriteUnlockFails
<1>4. PICK q : /\ w' = [y EXCEPT !.pc = q]
               /\ \/ y.pc = "shm" /\ q = "sem" /\ y.shm.state # "nil" /\ y.arg <= y.size
                  \/ y.pc = "sem" /\ q = "lock" /\ y.sem.state # "nil"
                  \/ y.pc = "lock" /\ q = "idle"
                  \/ y.pc = "unlock" /\ q = "idle" /\ ~Usable(y.sem)
  <2>1. y.arg \in Nat /\ y.size \in Nat BY DEF ShmWriters
  <2>2. QED BY <1>1, <2>1 DEF KeepShm, KeepSem, WriteLockFails, WriteUnlockFails, WGoto, TooSmall
<1> DEFINE x == [y EXCEPT !.pc = q]
<1>5. x \in ShmWriters /\ x.pc = q /\ x.shm = y.shm /\ x.sem = y.sem /\ x.size = y.size /\ x.arg = y.arg
  BY <1>4 DEF ShmWriters
<1>6. w' = x BY <1>4
<1> HIDE DEF x
<1>7. y.pc = "unlock" => ~sem[y.sem.id].live
  <2>1. y.sem \in ShmHandles BY DEF ShmWriters
  <2>2. y.pc = "unlock" => y.sem.state \in {"open", "closed"} BY <1>2, <2>1 DEF WriterAt, SemHandle, ShmHandles
  <2>3. QED BY <1>2, <1>4, <2>2 DEF WriterAt, SemHandle, Usable
<1>8. HeldOnly(Writer, x.pc \in {"write", "writing", "unlock"}, x.sem.id)
  BY <1>2, <1>4, <1>5, <1>7 DEF WriterAt, HeldOnly
<1>9. WriterAt(x) BY <1>2, <1>4, <1>5, <1>8 DEF WriterAt
<1>10. WriterAt(x)' BY <1>3, <1>9 DEF WriterAt, SemHandle, Lost, Usable, HeldOnly
<1>11. writes' \in Nat /\ writes <= writes' /\ faults' \in Nat /\ exposed' \subseteq Readers \cup {Writer} /\ exposed \subseteq exposed'
  BY <1>2, <1>3
<1>12. UNCHANGED <<seg, sem, r, sent, got, spoilt, segv>> BY <1>3
<1>13. QED BY <1>5, <1>6, <1>10, <1>11, <1>12, ShmWriterGoes

LEMMA CreateFailsInv ==
  ASSUME SystemVIInv, segv = {}, CreateFails
  PROVE  SystemVIInv'
<1>1. PICK y \in ShmWriters : y = w BY ShmWriterFacts
<1>2. WriterAt(y) /\ SystemVTypes /\ writes \in Nat /\ faults \in Nat /\ exposed \subseteq Readers \cup {Writer} BY <1>1, ShmWriterFacts
<1>3. /\ y.pc \in {"create", "sem"} /\ faults' = faults + 1 /\ UNCHANGED <<seg, sem, r, sent, writes, got, spoilt, segv>>
      /\ exposed' = IF y.shm.state = "dangling" THEN exposed \cup {Writer} ELSE exposed
  BY <1>1 DEF CreateFails, WGoto, Fault
<1> DEFINE x == [y EXCEPT !.pc = "idle"]
<1>4. w' = x BY <1>1 DEF CreateFails, WGoto
<1>5. x \in ShmWriters /\ x.pc = "idle" /\ x.shm = y.shm /\ x.sem = y.sem /\ x.size = y.size BY DEF ShmWriters
<1> HIDE DEF x
<1>6. HeldOnly(Writer, x.pc \in {"write", "writing", "unlock"}, x.sem.id)' BY <1>2, <1>3, <1>5 DEF WriterAt, HeldOnly
<1>7. SemHandle(x.sem)' BY <1>2, <1>3, <1>5 DEF WriterAt, SemHandle
<1>8. x.shm.state = "dangling" => Writer \in exposed' BY <1>3, <1>5
<1>9. WriterAt(x)' BY <1>2, <1>3, <1>5, <1>6, <1>7, <1>8 DEF WriterAt
<1>10. writes' \in Nat /\ writes <= writes' /\ faults' \in Nat /\ exposed' \subseteq Readers \cup {Writer} /\ exposed \subseteq exposed'
  BY <1>2, <1>3
<1>11. UNCHANGED <<seg, sem, r, sent, got, spoilt, segv>> BY <1>3
<1>12. QED BY <1>4, <1>5, <1>9, <1>10, <1>11, ShmWriterGoes

LEMMA ReplaceShmInv ==
  ASSUME SystemVIInv, segv = {}, ReplaceShm
  PROVE  SystemVIInv'
<1>1. PICK y \in ShmWriters : y = w BY ShmWriterFacts
<1>2. /\ WriterAt(y) /\ SystemVTypes /\ SegInv /\ SentInv /\ writes \in Nat /\ faults \in Nat
      /\ spoilt \subseteq 1..Len(sem) /\ exposed \subseteq Readers \cup {Writer}
  BY <1>1, ShmWriterFacts
<1>3. y.pc = "shm" /\ CloseShm(y.shm, Writer) /\ UNCHANGED <<sem, r, sent, writes, faults, got, spoilt, exposed, segv>>
  BY <1>1 DEF ReplaceShm
<1>4. y.shm \in ShmHandles /\ Writer \in Readers \cup {Writer} /\ (y.shm.state # "nil" => y.shm.id \in 1..Len(seg))
  BY <1>2 DEF ShmWriters, WriterAt
<1>5. PICK k : k = ShmClosed(y.shm, Writer) OBVIOUS
<1>6. /\ k \in ShmHandles /\ k.id = y.shm.id /\ (y.shm.state # "open" => k = y.shm)
      /\ y.shm.state = "open" => k.state \in {"closed", "dangling"}
  BY <1>4, <1>5, ShmClosedFacts
<1> DEFINE x == [y EXCEPT !.pc = "create", !.shm = k]
<1>7. w' = x BY <1>1, <1>5 DEF ReplaceShm
<1>8. x \in ShmWriters /\ x.pc = "create" /\ x.shm = k /\ x.sem = y.sem /\ x.size = y.size BY <1>6 DEF ShmWriters
<1> HIDE DEF x
<1>9. /\ seg' \in Seq(Segments) /\ Len(seg') = Len(seg)
      /\ \A i \in 1..Len(seg) : /\ seg'[i].key = seg[i].key /\ seg'[i].version = seg[i].version
                                /\ seg'[i].torn = seg[i].torn /\ (seg'[i].live => seg[i].live)
                                /\ seg'[i].size = seg[i].size /\ seg'[i].under = seg[i].under
  BY <1>2, <1>3, <1>4, CloseShmFacts
<1>10. SameSegs BY <1>9 DEF SameSegs
<1>11. Grows(Writer)
  <2>1. Grows(Writer) <=> /\ seg' \in Seq(Segments) /\ Len(seg) <= Len(seg')
                          /\ \A i \in 1..Len(seg) : /\ seg'[i].key = seg[i].key /\ seg[i].version <= seg'[i].version
                                                    /\ seg'[i].live => seg[i].live
    BY <1>2, <1>3, SystemVFacts DEF Grows, SystemVTypes
  <2>2. \A i \in 1..Len(seg) : seg[i].version \in Nat BY <1>2, SystemVFacts DEF Segments
  <2>3. Len(seg) \in Nat BY <1>2, SystemVFacts
  <2>4. QED BY <1>9, <2>1, <2>2, <2>3
<1>12. SegInv' /\ SentInv' BY <1>2, <1>3, <1>4, <1>10, <1>11, SegKept
<1>13. WriterAt(x)
  <2>1. HeldOnly(Writer, x.pc \in {"write", "writing", "unlock"}, x.sem.id) BY <1>2, <1>3, <1>8 DEF WriterAt, HeldOnly
  <2>2. (k.state # "nil" => y.shm.state # "nil") /\ k.state # "open" BY <1>6
  <2>3. y.pc # "writing" BY <1>3
  <2>4. QED BY <1>2, <1>6, <1>8, <2>1, <2>2, <2>3 DEF WriterAt
<1>14. WriterAt(x)'
  <2>1. x.shm.state # "nil" => x.shm.id \in 1..Len(seg) BY <1>13 DEF WriterAt
  <2>2. QED BY <1>3, <1>8, <1>9, <1>13, <2>1 DEF WriterAt, SemHandle, HeldOnly
<1>15. /\ UNCHANGED <<r, got>> /\ writes' \in Nat /\ faults' \in Nat /\ spoilt' \subseteq 1..Len(sem')
       /\ exposed' \subseteq Readers \cup {Writer} /\ segv' \subseteq exposed'
  BY <1>2, <1>3
<1>16. QED BY <1>7, <1>8, <1>11, <1>12, <1>14, <1>15, ShmWriterMoves

LEMMA CreateShmInv ==
  ASSUME SystemVIInv, segv = {}, NEW k \in Keys, CreateShm(k)
  PROVE  SystemVIInv'
<1>1. PICK y \in ShmWriters : y = w BY ShmWriterFacts
<1>2. /\ WriterAt(y) /\ SystemVTypes /\ SegInv /\ SentInv /\ writes \in Nat /\ faults \in Nat
      /\ spoilt \subseteq 1..Len(sem) /\ exposed \subseteq Readers \cup {Writer}
  BY <1>1, ShmWriterFacts
<1>3. /\ y.pc = "create" /\ Named(seg, k) = {} /\ UNCHANGED <<sem, r, sent, writes, faults, got, spoilt, exposed, segv>>
      /\ w' = [y EXCEPT !.pc = "sem", !.shm = Open(Len(seg) + 1), !.size = y.arg]
  BY <1>1 DEF CreateShm, FreeKey
<1>4. PICK s : s = [key |-> k, live |-> TRUE, attached |-> {Writer}, size |-> y.arg,
                    version |-> 0, torn |-> FALSE, under |-> 0]
  OBVIOUS
<1>5. s \in Segments /\ s.key = k /\ s.version = 0 /\ s.torn = FALSE /\ s.size = y.arg
  <2>1. y.arg \in Nat BY DEF ShmWriters
  <2>2. QED BY <1>4, <2>1 DEF Segments
<1>6. /\ seg' \in Seq(Segments) /\ Len(seg) \in Nat /\ Len(seg') = Len(seg) + 1 /\ seg'[Len(seg) + 1] = s
      /\ \A i \in 1..Len(seg) : seg'[i] = seg[i]
  <2>1. seg \in Seq(Segments) /\ seg' = Append(seg, s) BY <1>1, <1>2, <1>4 DEF CreateShm, SystemVTypes
  <2>2. QED BY ONLY <1>5, <2>1, SeqExtend
<1>7. PICK h : h = Open(Len(seg) + 1) OBVIOUS
<1>8. h \in ShmHandles /\ h.id = Len(seg) + 1 /\ h.state = "open" BY <1>6, <1>7 DEF Open, ShmHandles
<1> DEFINE x == [y EXCEPT !.pc = "sem", !.shm = h, !.size = y.arg]
<1>9. w' = x BY <1>3, <1>7
<1>10. x \in ShmWriters /\ x.pc = "sem" /\ x.shm = h /\ x.sem = y.sem /\ x.size = y.arg /\ x.arg = y.arg
  BY <1>8 DEF ShmWriters
<1> HIDE DEF x
<1>11. Grows(Writer)
  <2>1. /\ sem \in Seq(Semaphores) /\ sent \in Seq(ReadOption) /\ Len(sem) \in Nat /\ Len(sent) \in Nat
        /\ \A i \in 1..Len(seg) : seg[i].version \in Nat
    BY <1>2, SystemVFacts DEF SystemVTypes, Segments
  <2>2. QED BY <1>3, <1>6, <2>1 DEF Grows
<1>12. \A i \in 1..Len(seg') : i \in 1..Len(seg) \/ i = Len(seg) + 1 BY <1>6
<1>13. \A i \in 1..Len(seg) : seg[i].key = k => ~seg[i].live BY <1>2, <1>3, SystemVFacts DEF Named
<1>14. SegInv'
  <2>1. \A i \in 1..Len(seg') : seg'[i].version <= writes'
    <3> SUFFICES ASSUME NEW i \in 1..Len(seg') PROVE seg'[i].version <= writes BY <1>3
    <3>1. CASE i = Len(seg) + 1 BY <1>2, <1>5, <1>6, <3>1
    <3>2. CASE i \in 1..Len(seg) BY <1>2, <1>6, <3>2 DEF SegInv
    <3>3. QED BY <1>12, <3>1, <3>2
  <2>2. ASSUME NEW i \in 1..Len(seg'), NEW j \in 1..Len(seg'), i < j, seg'[i].key = seg'[j].key PROVE ~seg'[i].live
    <3>1. i \in 1..Len(seg) BY <1>6, <2>2
    <3>2. CASE j = Len(seg) + 1 BY <1>5, <1>6, <1>13, <2>2, <3>1, <3>2
    <3>3. CASE j \in 1..Len(seg) BY <1>2, <1>6, <2>2, <3>1, <3>3 DEF SegInv
    <3>4. QED BY <1>12, <3>2, <3>3
  <2>3. ASSUME NEW i \in 1..Len(seg'), seg'[i].torn PROVE seg'[i].under \in 1..Len(sem) /\ sem[seg'[i].under].by = Writer
    <3>1. i \in 1..Len(seg) /\ seg'[i] = seg[i] BY <1>5, <1>6, <1>12, <2>3
    <3>2. QED BY <1>2, <2>3, <3>1 DEF SegInv
  <2>4. QED BY <1>3, <2>1, <2>2, <2>3 DEF SegInv
<1>15. \A i \in 1..Len(sent) : sent[i].at \in 1..Len(seg) /\ sent[i].at \in 1..Len(seg') /\ sent[i].at < Len(seg) + 1
  BY <1>2, <1>6 DEF SentInv
<1>16. SentInv'
  <2>1. ASSUME NEW l \in 1..Len(sent), NEW i \in 1..Len(seg'), i > sent[l].at
        PROVE  seg'[i].version = 0 \/ seg'[i].version >= sent[l].version
    <3>1. CASE i = Len(seg) + 1 BY <1>5, <1>6, <3>1
    <3>2. CASE i \in 1..Len(seg) BY <1>2, <1>6, <2>1, <3>2 DEF SentInv, LaterThan
    <3>3. QED BY <1>12, <3>1, <3>2
  <2>2. ASSUME NEW l \in 1..Len(sent)
        PROVE  /\ sent[l].at \in 1..Len(seg') /\ sent[l].lock \in 1..Len(sem)
               /\ sent[l].version <= seg'[sent[l].at].version /\ sent[l].size <= seg'[sent[l].at].size
    BY <1>2, <1>6, <1>15 DEF SentInv
  <2>3. QED BY <1>3, <2>1, <2>2 DEF SentInv, LaterThan
<1>17. WriterAt(x)'
  <2>1. HeldOnly(Writer, x.pc \in {"write", "writing", "unlock"}, x.sem.id)' BY <1>2, <1>3, <1>10 DEF WriterAt, HeldOnly
  <2>2. SemHandle(x.sem)' BY <1>2, <1>3, <1>10 DEF WriterAt, SemHandle
  <2>3. x.shm.id = Len(seg) + 1 /\ x.shm.state = "open" /\ x.pc = "sem" /\ x.sem = y.sem BY <1>8, <1>10
  <2>4. /\ Len(seg) + 1 \in 1..Len(seg') /\ Len(seg) + 1 = Len(seg')
        /\ x.size = seg'[Len(seg) + 1].size /\ x.arg <= x.size
    <3>1. y.arg \in Nat BY DEF ShmWriters
    <3>2. QED BY <1>5, <1>6, <1>10, <3>1
  <2>5. ASSUME NEW i \in 1..Len(seg'), seg'[i].torn, seg'[i].under = y.sem.id PROVE FALSE
    <3>1. i \in 1..Len(seg) /\ seg'[i] = seg[i] BY <1>5, <1>6, <1>12, <2>5
    <3>2. QED BY <1>2, <1>3, <2>5, <3>1 DEF WriterAt
  <2>6. QED BY ONLY <2>1, <2>2, <2>3, <2>4, <2>5 DEF WriterAt
<1>18. /\ UNCHANGED <<r, got>> /\ writes' \in Nat /\ faults' \in Nat /\ spoilt' \subseteq 1..Len(sem')
       /\ exposed' \subseteq Readers \cup {Writer} /\ segv' \subseteq exposed'
  BY <1>2, <1>3
<1>19. QED BY <1>9, <1>10, <1>11, <1>14, <1>16, <1>17, <1>18, ShmWriterMoves

LEMMA CreateSemInv ==
  ASSUME SystemVIInv, segv = {}, NEW k \in Keys, CreateSem(k)
  PROVE  SystemVIInv'
<1>1. PICK y \in ShmWriters : y = w BY ShmWriterFacts
<1>2. /\ WriterAt(y) /\ SystemVTypes /\ SegInv /\ SentInv /\ writes \in Nat /\ faults \in Nat
      /\ spoilt \subseteq 1..Len(sem) /\ exposed \subseteq Readers \cup {Writer}
  BY <1>1, ShmWriterFacts
<1>3. /\ y.pc = "sem" /\ y.sem.state = "nil" /\ UNCHANGED <<seg, r, sent, writes, faults, got, spoilt, exposed, segv>>
      /\ w' = [y EXCEPT !.pc = "lock", !.sem = Open(Len(sem) + 1)]
  BY <1>1 DEF CreateSem
<1>4. PICK s : s = [key |-> k, live |-> TRUE, by |-> Nobody] OBVIOUS
<1>5. s \in Semaphores /\ s.by = Nobody /\ Nobody # Writer BY <1>2, <1>4, SystemVFacts DEF Semaphores
<1>6. /\ sem' \in Seq(Semaphores) /\ Len(sem) \in Nat /\ Len(sem') = Len(sem) + 1 /\ sem'[Len(sem) + 1] = s
      /\ \A i \in 1..Len(sem) : sem'[i] = sem[i]
  <2>1. sem \in Seq(Semaphores) /\ sem' = Append(sem, s) BY <1>2, <1>4 DEF CreateSem, SystemVTypes
  <2>2. QED BY ONLY <1>5, <2>1, SeqExtend
<1>7. PICK h : h = Open(Len(sem) + 1) OBVIOUS
<1>8. h \in ShmHandles /\ h.id = Len(sem) + 1 /\ h.state = "open" BY <1>6, <1>7 DEF Open, ShmHandles
<1> DEFINE x == [y EXCEPT !.pc = "lock", !.sem = h]
<1>9. w' = x BY <1>3, <1>7
<1>10. x \in ShmWriters /\ x.pc = "lock" /\ x.shm = y.shm /\ x.sem = h /\ x.size = y.size /\ x.arg = y.arg
  BY <1>8 DEF ShmWriters
<1> HIDE DEF x
<1>11. \A i \in 1..Len(sem') : i \in 1..Len(sem) \/ (i = Len(sem) + 1 /\ sem'[i].by = Nobody) BY <1>5, <1>6
<1>12. Grows(Writer)
  <2>1. /\ seg \in Seq(Segments) /\ sent \in Seq(ReadOption) /\ Len(seg) \in Nat /\ Len(sent) \in Nat
        /\ \A i \in 1..Len(seg) : seg[i].version \in Nat
    BY <1>2, SystemVFacts DEF SystemVTypes, Segments
  <2>2. \A i \in 1..Len(sem') : i > Len(sem) => sem'[i].by = Nobody BY <1>6, <1>11
  <2>3. QED BY <1>3, <1>6, <2>1, <2>2 DEF Grows
<1>13. \A i \in 1..Len(seg) : seg[i].torn =>
         /\ seg[i].under \in 1..Len(sem) /\ sem[seg[i].under].by = Writer
         /\ seg[i].under \in 1..Len(sem') /\ sem'[seg[i].under].by = Writer /\ seg[i].under # Len(sem) + 1
  <2> SUFFICES ASSUME NEW i \in 1..Len(seg), seg[i].torn
               PROVE  /\ seg[i].under \in 1..Len(sem) /\ sem[seg[i].under].by = Writer
                      /\ seg[i].under \in 1..Len(sem') /\ sem'[seg[i].under].by = Writer /\ seg[i].under # Len(sem) + 1
    OBVIOUS
  <2>1. seg[i].under \in 1..Len(sem) /\ sem[seg[i].under].by = Writer BY <1>2 DEF SegInv
  <2>2. QED BY <1>6, <2>1
<1>14. SegInv' BY <1>2, <1>3, <1>13 DEF SegInv
<1>15. SentInv'
  <2>1. \A i \in 1..Len(sent) : sent[i].lock \in 1..Len(sem') BY <1>2, <1>6 DEF SentInv
  <2>2. QED BY <1>2, <1>3, <2>1 DEF SentInv, LaterThan
<1>16. y.shm.state # "nil" /\ y.pc # "writing" /\ ~(y.shm.state = "dangling" /\ Writer \notin exposed)
  BY <1>2, <1>3 DEF WriterAt, Lost
<1>17. WriterAt(x)'
  <2>1. ASSUME NEW i \in 1..Len(sem') \ spoilt, sem'[i].live, sem'[i].by = Writer PROVE FALSE
    <3>1. i \in 1..Len(sem) /\ sem[i].live /\ sem[i].by = Writer BY <1>5, <1>6, <1>11, <2>1
    <3>2. QED BY <1>2, <1>3, <2>1, <3>1 DEF WriterAt, HeldOnly
  <2>2. HeldOnly(Writer, x.pc \in {"write", "writing", "unlock"}, x.sem.id)' BY <1>3, <2>1 DEF HeldOnly
  <2>3. SemHandle(x.sem)' BY <1>6, <1>8, <1>10 DEF SemHandle
  <2>4. x.shm = y.shm /\ x.sem.id = Len(sem) + 1 /\ x.pc = "lock" /\ x.sem.state # "nil" /\ x.size = y.size /\ x.arg = y.arg
    BY <1>8, <1>10
  <2>5. UNCHANGED <<seg, exposed>> /\ y.pc = "sem" BY <1>3
  <2>6. WriterAt(y) BY <1>2
  <2>7. QED BY ONLY <1>13, <1>16, <2>2, <2>3, <2>4, <2>5, <2>6 DEF WriterAt
<1>18. spoilt' \subseteq 1..Len(sem') BY <1>2, <1>3, <1>6
<1>19. UNCHANGED <<r, got>> /\ writes' \in Nat /\ faults' \in Nat /\ exposed' \subseteq Readers \cup {Writer} /\ segv' \subseteq exposed'
  BY <1>2, <1>3
<1>20. QED BY <1>9, <1>10, <1>12, <1>14, <1>15, <1>17, <1>18, <1>19, ShmWriterMoves

LEMMA WriteLockInv ==
  ASSUME SystemVIInv, segv = {}, WriteLock
  PROVE  SystemVIInv'
<1>1. PICK y \in ShmWriters : y = w BY ShmWriterFacts
<1>2. /\ WriterAt(y) /\ SystemVTypes /\ SegInv /\ SentInv /\ writes \in Nat /\ faults \in Nat
      /\ spoilt \subseteq 1..Len(sem) /\ exposed \subseteq Readers \cup {Writer}
  BY <1>1, ShmWriterFacts
<1>3. y.pc = "lock" /\ SemLock(y.sem, Writer) /\ UNCHANGED <<seg, r, sent, writes, faults, got, spoilt, exposed, segv>>
  BY <1>1 DEF WriteLock, WGoto
<1>4. PICK i \in 1..Len(sem) : i = y.sem.id BY <1>2, <1>3 DEF WriterAt, SemHandle
<1>5. Usable(y.sem) /\ sem[i].by = Nobody /\ sem' = [sem EXCEPT ![i].by = Writer] BY <1>3, <1>4 DEF SemLock
<1>6. Writer \in Readers \cup {Writer, Nobody} /\ Writer \in Readers \cup {Writer} /\ Writer # Nobody BY <1>2, SystemVFacts
<1>7. /\ sem' \in Seq(Semaphores) /\ Len(sem') = Len(sem)
      /\ \A j \in 1..Len(sem) : sem'[j].live = sem[j].live /\ sem'[j].by = IF j = i THEN Writer ELSE sem[j].by
  BY <1>2, <1>5, <1>6, SemSet
<1>8. Grows(Writer)
  <2>1. UNCHANGED <<seg, sent, exposed>> /\ spoilt \subseteq spoilt' /\ sem[i].by \in {Writer, Nobody}
    BY <1>3, <1>5
  <2>2. QED BY <1>2, <1>5, <1>6, <2>1, SemMoves
<1> DEFINE x == [y EXCEPT !.pc = "write"]
<1>9. w' = x BY <1>1 DEF WriteLock, WGoto
<1>10. x \in ShmWriters /\ x.pc = "write" /\ x.shm = y.shm /\ x.sem = y.sem /\ x.size = y.size /\ x.arg = y.arg
  BY DEF ShmWriters
<1> HIDE DEF x
<1>11. SegInv'
  <2>1. \A j \in 1..Len(sem) : sem[j].by = Writer => sem'[j].by = Writer BY <1>7
  <2>2. QED BY <1>2, <1>3, <1>7, <2>1 DEF SegInv
<1>12. SentInv' BY <1>2, <1>3, <1>7 DEF SentInv, LaterThan
<1>13. WriterAt(x)'
  <2>1. HeldOnly(Writer, x.pc \in {"write", "writing", "unlock"}, x.sem.id)'
    <3> SUFFICES ASSUME NEW j \in 1..Len(sem) \ spoilt, sem'[j].live, sem'[j].by = Writer PROVE j = i
      BY <1>3, <1>4, <1>7, <1>10 DEF HeldOnly
    <3>1. CASE j # i
      <4>1. sem[j].live /\ sem[j].by = Writer BY <1>7, <3>1
      <4>2. QED BY <1>2, <1>3, <4>1 DEF WriterAt, HeldOnly
    <3>2. QED BY <3>1
  <2>2. SemHandle(x.sem)' /\ sem'[x.sem.id].by = Writer BY <1>2, <1>4, <1>7, <1>10 DEF WriterAt, SemHandle
  <2>3. x.shm.state = "dangling" => Writer \in exposed BY <1>2, <1>3, <1>5, <1>10 DEF WriterAt, Lost
  <2>4. UNCHANGED <<seg, exposed>> /\ y.pc = "lock" BY <1>3
  <2>5. WriterAt(y) /\ x.pc = "write" /\ x.shm = y.shm /\ x.sem = y.sem /\ x.size = y.size /\ x.arg = y.arg BY <1>2, <1>10
  <2>6. QED BY ONLY <2>1, <2>2, <2>3, <2>4, <2>5 DEF WriterAt
<1>14. /\ UNCHANGED <<r, got>> /\ writes' \in Nat /\ faults' \in Nat /\ spoilt' \subseteq 1..Len(sem')
       /\ exposed' \subseteq Readers \cup {Writer} /\ segv' \subseteq exposed'
  BY <1>2, <1>3, <1>7
<1>15. QED BY <1>8, <1>9, <1>10, <1>11, <1>12, <1>13, <1>14, ShmWriterMoves

LEMMA WriteFailsInv ==
  ASSUME SystemVIInv, segv = {}, WriteFails
  PROVE  SystemVIInv'
<1>1. PICK y \in ShmWriters : y = w BY ShmWriterFacts
<1>2. /\ WriterAt(y) /\ SystemVTypes /\ SegInv /\ SentInv /\ writes \in Nat /\ faults \in Nat
      /\ spoilt \subseteq 1..Len(sem) /\ exposed \subseteq Readers \cup {Writer}
  BY <1>1, ShmWriterFacts
<1>3. /\ y.pc = "write" /\ y.shm.state = "closed" /\ spoilt' = spoilt \cup {y.sem.id}
      /\ UNCHANGED <<seg, sem, r, sent, writes, faults, got, exposed, segv>>
  BY <1>1 DEF WriteFails, WGoto
<1> DEFINE x == [y EXCEPT !.pc = "idle"]
<1>4. w' = x BY <1>1 DEF WriteFails, WGoto
<1>5. x \in ShmWriters /\ x.pc = "idle" /\ x.shm = y.shm /\ x.sem = y.sem /\ x.size = y.size BY DEF ShmWriters
<1> HIDE DEF x
<1>6. Grows(Writer)
  <2>1. /\ seg \in Seq(Segments) /\ sem \in Seq(Semaphores) /\ sent \in Seq(ReadOption)
        /\ Len(seg) \in Nat /\ Len(sem) \in Nat /\ Len(sent) \in Nat
        /\ \A i \in 1..Len(seg) : seg[i].version \in Nat
    BY <1>2, SystemVFacts DEF SystemVTypes, Segments
  <2>2. QED BY <1>3, <2>1 DEF Grows
<1>7. SegInv' /\ SentInv' BY <1>2, <1>3 DEF SegInv, SentInv, LaterThan
<1>8. WriterAt(x)'
  <2>1. HeldOnly(Writer, x.pc \in {"write", "writing", "unlock"}, x.sem.id)' BY <1>2, <1>3, <1>5 DEF WriterAt, HeldOnly
  <2>2. SemHandle(x.sem)' BY <1>2, <1>3, <1>5 DEF WriterAt, SemHandle
  <2>3. QED BY <1>2, <1>3, <1>5, <2>1, <2>2 DEF WriterAt
<1>9. y.sem.id \in 1..Len(sem) BY <1>2, <1>3 DEF WriterAt, SemHandle
<1>10. /\ UNCHANGED <<r, got>> /\ writes' \in Nat /\ faults' \in Nat /\ spoilt' \subseteq 1..Len(sem')
       /\ exposed' \subseteq Readers \cup {Writer} /\ segv' \subseteq exposed'
  BY <1>2, <1>3, <1>9
<1>11. QED BY <1>4, <1>5, <1>6, <1>7, <1>8, <1>10, ShmWriterMoves

\* Writing tears the segment, under the semaphore that the writer holds.
LEMMA WriteStartInv ==
  ASSUME SystemVIInv, segv = {}, WriteStart
  PROVE  SystemVIInv'
<1>1. PICK y \in ShmWriters : y = w BY ShmWriterFacts
<1>2. /\ WriterAt(y) /\ SystemVTypes /\ SegInv /\ SentInv /\ writes \in Nat /\ faults \in Nat
      /\ spoilt \subseteq 1..Len(sem) /\ exposed \subseteq Readers \cup {Writer}
  BY <1>1, ShmWriterFacts
<1>3. /\ y.pc = "write" /\ y.shm.state # "closed" /\ UNCHANGED <<sem, r, sent, writes, faults, got, spoilt, exposed>>
      /\ y.shm.state = "open" =>
           seg' = [seg EXCEPT ![y.shm.id].torn = TRUE, ![y.shm.id].under = y.sem.id] /\ segv' = segv
      /\ y.shm.state # "open" => segv' = {Writer} /\ seg' = seg
  BY <1>1 DEF WriteStart, WGoto
<1>4. /\ y.shm.state \in {"open", "dangling"} /\ y.shm.id \in 1..Len(seg) /\ y.shm.id = Len(seg)
      /\ y.sem.id \in 1..Len(sem) /\ y.sem.id \in Nat /\ sem[y.sem.id].by = Writer
  <2>1. y.shm.state \in {"nil", "open", "closed", "dangling"} /\ y.sem.id \in Nat BY DEF ShmWriters, ShmHandles
  <2>2. QED BY <1>2, <1>3, <2>1 DEF WriterAt, SemHandle
<1> DEFINE x == [y EXCEPT !.pc = "writing"]
<1>5. w' = x BY <1>1 DEF WriteStart, WGoto
<1>6. x \in ShmWriters /\ x.pc = "writing" /\ x.shm = y.shm /\ x.sem = y.sem /\ x.size = y.size /\ x.arg = y.arg
  BY DEF ShmWriters
<1> HIDE DEF x
<1>7. /\ seg' \in Seq(Segments) /\ Len(seg') = Len(seg)
      /\ \A i \in 1..Len(seg) : /\ seg'[i].key = seg[i].key /\ seg'[i].version = seg[i].version
                                /\ seg'[i].live = seg[i].live /\ seg'[i].size = seg[i].size
                                /\ i # y.shm.id => seg'[i] = seg[i]
      /\ seg'[y.shm.id].torn => seg'[y.shm.id].under = y.sem.id \/ seg'[y.shm.id] = seg[y.shm.id]
  <2>1. CASE y.shm.state = "open"
    <3>1. PICK z : z = [seg[y.shm.id] EXCEPT !.torn = TRUE, !.under = y.sem.id] OBVIOUS
    <3>2. seg[y.shm.id] \in Segments /\ seg \in Seq(Segments) BY <1>2, <1>4, SystemVFacts DEF SystemVTypes
    <3>3. /\ z \in Segments /\ z.key = seg[y.shm.id].key /\ z.version = seg[y.shm.id].version /\ z.live = seg[y.shm.id].live
          /\ z.size = seg[y.shm.id].size /\ z.under = y.sem.id
      BY <1>4, <3>1, <3>2 DEF Segments
    <3>4. seg' = [seg EXCEPT ![y.shm.id] = z] BY <1>3, <2>1, <3>1
    <3>5. /\ seg' \in Seq(Segments) /\ Len(seg') = Len(seg)
          /\ \A j \in 1..Len(seg) : seg'[j] = IF j = y.shm.id THEN z ELSE seg[j]
      BY ONLY <1>4, <3>2, <3>3, <3>4, SeqUpdate
    <3>6. QED BY ONLY <1>4, <3>3, <3>5
  <2>2. CASE y.shm.state # "open" BY <1>2, <1>3, <2>2 DEF SystemVTypes
  <2>3. QED BY <2>1, <2>2
<1>8. Grows(Writer)
  <2>1. /\ sem \in Seq(Semaphores) /\ sent \in Seq(ReadOption)
        /\ Len(seg) \in Nat /\ Len(sem) \in Nat /\ Len(sent) \in Nat
        /\ \A i \in 1..Len(seg) : seg[i].version \in Nat
    BY <1>2, SystemVFacts DEF SystemVTypes, Segments
  <2>2. QED BY <1>3, <1>7, <2>1 DEF Grows
\* What is torn now was torn before, or is the writer's segment.
<1>9. \A i \in 1..Len(seg) : seg'[i].torn => seg'[i] = seg[i] \/ (i = y.shm.id /\ seg'[i].under = y.sem.id)
  BY ONLY <1>7
<1>10. SegInv'
  <2>1. ASSUME NEW i \in 1..Len(seg), seg'[i].torn
        PROVE  seg'[i].under \in 1..Len(sem) /\ sem[seg'[i].under].by = Writer
    <3>1. CASE seg'[i] = seg[i] BY <1>2, <2>1, <3>1 DEF SegInv
    <3>2. CASE seg'[i].under = y.sem.id BY <1>4, <3>2
    <3>3. QED BY <1>9, <2>1, <3>1, <3>2
  <2>2. \A i \in 1..Len(seg) : seg'[i].version <= writes BY <1>2, <1>7 DEF SegInv
  <2>3. \A i, j \in 1..Len(seg) : i < j /\ seg'[i].key = seg'[j].key => ~seg'[i].live BY <1>2, <1>7 DEF SegInv
  <2>4. UNCHANGED <<sem, writes>> /\ Len(seg') = Len(seg) BY <1>3, <1>7
  <2>5. QED BY ONLY <2>1, <2>2, <2>3, <2>4 DEF SegInv
<1>11. SentInv'
  <2>1. UNCHANGED <<sem, sent>> /\ Len(seg') = Len(seg) BY <1>3, <1>7
  <2>2. \A i \in 1..Len(seg) : seg'[i].version = seg[i].version /\ seg'[i].size = seg[i].size BY ONLY <1>7
  <2>3. SentInv BY <1>2
  <2>4. QED BY ONLY <2>1, <2>2, <2>3 DEF SentInv, LaterThan
<1>12. y.shm.state = "dangling" => Writer \in exposed BY <1>2, <1>3 DEF WriterAt
<1>13. WriterAt(x)'
  <2>1. HeldOnly(Writer, x.pc \in {"write", "writing", "unlock"}, x.sem.id)' BY <1>2, <1>3, <1>6 DEF WriterAt, HeldOnly
  <2>2. SemHandle(x.sem)' BY <1>2, <1>3, <1>6 DEF WriterAt, SemHandle
  <2>3. ASSUME NEW i \in 1..Len(seg), seg'[i].torn, seg'[i].under = y.sem.id PROVE i = y.shm.id
    <3>1. CASE seg'[i] = seg[i] BY <1>2, <1>3, <2>3, <3>1 DEF WriterAt
    <3>2. QED BY <1>9, <2>3, <3>1
  <2>4. /\ y.shm.state = "open" => y.size = seg'[y.shm.id].size
        /\ y.arg <= y.size
    BY <1>2, <1>3, <1>4, <1>7 DEF WriterAt
  <2>5. y.shm.state = "open" \/ segv' # {} BY <1>3
  <2>6. y.sem.state # "nil" BY <1>2, <1>3 DEF WriterAt
  <2>7. UNCHANGED <<sem, exposed>> /\ Len(seg') = Len(seg) BY <1>3, <1>7
  <2>8. QED BY ONLY <1>4, <1>6, <1>12, <2>1, <2>2, <2>3, <2>4, <2>5, <2>6, <2>7 DEF WriterAt
<1>14. segv' \subseteq exposed' BY <1>3, <1>4, <1>12
<1>15. /\ UNCHANGED <<r, got>> /\ writes' \in Nat /\ faults' \in Nat /\ spoilt' \subseteq 1..Len(sem')
       /\ exposed' \subseteq Readers \cup {Writer}
  BY <1>2, <1>3
<1>16. QED BY <1>5, <1>6, <1>8, <1>10, <1>11, <1>13, <1>14, <1>15, ShmWriterMoves

LEMMA WriteEndInv ==
  ASSUME SystemVIInv, segv = {}, WriteEnd
  PROVE  SystemVIInv'
<1>1. PICK y \in ShmWriters : y = w BY ShmWriterFacts
<1>2. /\ WriterAt(y) /\ SystemVTypes /\ SegInv /\ SentInv /\ writes \in Nat /\ faults \in Nat
      /\ spoilt \subseteq 1..Len(sem) /\ exposed \subseteq Readers \cup {Writer}
  BY <1>1, ShmWriterFacts
<1>3. /\ y.pc = "writing" /\ UNCHANGED <<sem, r, sent, writes, faults, got, spoilt, exposed, segv>>
      /\ seg' = [seg EXCEPT ![y.shm.id].torn = FALSE, ![y.shm.id].version = writes]
  BY <1>1 DEF WriteEnd, WGoto
<1>4. PICK i \in 1..Len(seg) : i = y.shm.id BY <1>2, <1>3 DEF WriterAt
<1> DEFINE x == [y EXCEPT !.pc = "unlock"]
<1>5. w' = x BY <1>1 DEF WriteEnd, WGoto
<1>6. x \in ShmWriters /\ x.pc = "unlock" /\ x.shm = y.shm /\ x.sem = y.sem /\ x.size = y.size /\ x.arg = y.arg
  BY DEF ShmWriters
<1> HIDE DEF x
<1>7. /\ seg' \in Seq(Segments) /\ Len(seg') = Len(seg) /\ seg'[i].version = writes /\ seg'[i].torn = FALSE
      /\ \A j \in 1..Len(seg) : /\ seg'[j].key = seg[j].key /\ seg'[j].live = seg[j].live
                                /\ seg'[j].size = seg[j].size /\ (j # i => seg'[j] = seg[j])
  <2>1. PICK z : z = [seg[i] EXCEPT !.torn = FALSE, !.version = writes] OBVIOUS
  <2>2. seg[i] \in Segments /\ seg \in Seq(Segments) BY <1>2, SystemVFacts DEF SystemVTypes
  <2>3. /\ z \in Segments /\ z.key = seg[i].key /\ z.version = writes /\ z.live = seg[i].live /\ z.torn = FALSE
        /\ z.size = seg[i].size
    BY <1>2, <2>1, <2>2 DEF Segments
  <2>4. seg' = [seg EXCEPT ![i] = z] BY <1>3, <1>4, <2>1
  <2>5. /\ seg' \in Seq(Segments) /\ Len(seg') = Len(seg)
        /\ \A j \in 1..Len(seg) : seg'[j] = IF j = i THEN z ELSE seg[j]
    BY ONLY <2>2, <2>3, <2>4, SeqUpdate
  <2>6. QED BY <2>3, <2>5
<1>8. \A j \in 1..Len(seg) : seg[j].version \in Nat /\ seg[j].version <= seg'[j].version /\ seg'[j].version <= writes
  <2> SUFFICES ASSUME NEW j \in 1..Len(seg) PROVE seg[j].version \in Nat /\ seg[j].version <= seg'[j].version /\ seg'[j].version <= writes
    OBVIOUS
  <2>1. seg[j].version \in Nat /\ seg[j].version <= writes BY <1>2, SystemVFacts DEF Segments, SegInv
  <2>2. CASE j = i BY <1>2, <1>7, <2>1, <2>2
  <2>3. CASE j # i BY <1>7, <2>1, <2>3
  <2>4. QED BY <2>2, <2>3
<1>9. Grows(Writer)
  <2>1. /\ sem \in Seq(Semaphores) /\ sent \in Seq(ReadOption)
        /\ Len(seg) \in Nat /\ Len(sem) \in Nat /\ Len(sent) \in Nat
    BY <1>2, SystemVFacts DEF SystemVTypes
  <2>2. /\ sem' = sem /\ sent' = sent /\ spoilt' = spoilt /\ exposed' = exposed BY ONLY <1>3
  <2>3. \A j \in 1..Len(seg) : seg'[j].key = seg[j].key /\ seg'[j].live = seg[j].live /\ seg[j].version <= seg'[j].version
    BY ONLY <1>7, <1>8
  <2>4. seg' \in Seq(Segments) /\ Len(seg') = Len(seg) BY ONLY <1>7
  <2>5. Len(seg) <= Len(seg') /\ \A j \in 1..Len(sem') : ~(j > Len(sem)) BY ONLY <2>1, <2>2, <2>4
  <2>6. QED BY ONLY <2>1, <2>2, <2>3, <2>4, <2>5 DEF Grows
<1>10. SegInv'
  <2>1. SegInv /\ Len(seg') = Len(seg) BY ONLY <1>2, <1>7
  <2>2. \A j \in 1..Len(seg') : seg'[j].version <= writes'
    <3>1. writes' = writes BY ONLY <1>3
    <3>2. QED BY ONLY <1>8, <2>1, <3>1
  <2>3. \A j, k \in 1..Len(seg') : j < k /\ seg'[j].key = seg'[k].key => ~seg'[j].live
    BY ONLY <1>7, <2>1 DEF SegInv
  <2>4. ASSUME NEW j \in 1..Len(seg'), seg'[j].torn PROVE seg'[j].under \in 1..Len(sem') /\ sem'[seg'[j].under].by = Writer
    <3>1. j \in 1..Len(seg) /\ seg'[j] = seg[j] BY ONLY <1>7, <2>4
    <3>2. QED BY <1>3, <2>1, <2>4, <3>1 DEF SegInv
  <2>5. QED BY ONLY <2>2, <2>3, <2>4 DEF SegInv
<1>11. SentInv'
  <2>1. ASSUME NEW k \in 1..Len(sent)
        PROVE  /\ sent[k].at \in 1..Len(seg') /\ sent[k].lock \in 1..Len(sem')
               /\ sent[k].version <= seg'[sent[k].at].version /\ sent[k].size <= seg'[sent[k].at].size
               /\ \A j \in 1..Len(seg') : j > sent[k].at => seg'[j].version = 0 \/ seg'[j].version >= sent[k].version
    <3>1. PICK o \in ReadOption : o = sent[k] BY <1>2, SystemVFacts
    <3>2. /\ o.at \in 1..Len(seg) /\ o.lock \in 1..Len(sem) /\ o.version <= seg[o.at].version /\ o.size <= seg[o.at].size
          /\ \A j \in 1..Len(seg) : j > o.at => seg[j].version = 0 \/ seg[j].version >= o.version
      BY <1>2, <3>1 DEF SentInv, LaterThan
    <3>3. o.version \in Nat /\ writes \in Nat /\ \A j \in 1..Len(seg) : seg'[j].version \in Nat
      <4>1. ASSUME NEW j \in 1..Len(seg) PROVE seg'[j].version \in Nat
        <5>1. seg'[j] \in Segments BY <1>7, <4>1, ElementOfSeq
        <5>2. QED BY <5>1 DEF Segments
      <4>2. QED BY <1>2, <4>1 DEF ReadOption
    <3>4. o.version <= seg'[o.at].version /\ o.version <= writes
      <4>1. /\ seg[o.at].version \in Nat /\ seg[o.at].version <= seg'[o.at].version /\ seg'[o.at].version <= writes
            /\ o.version <= seg[o.at].version /\ seg'[o.at].version \in Nat
        BY ONLY <1>8, <3>2, <3>3
      <4>2. QED BY ONLY <3>3, <4>1
    <3>5. \A j \in 1..Len(seg) : j > o.at => seg'[j].version = 0 \/ seg'[j].version >= o.version
      BY ONLY <1>7, <3>2, <3>3, <3>4
    <3>6. Len(seg') = Len(seg) /\ \A j \in 1..Len(seg) : seg'[j].size = seg[j].size BY ONLY <1>7
    <3>7. sem' = sem BY ONLY <1>3
    <3>8. QED BY ONLY <3>1, <3>2, <3>4, <3>5, <3>6, <3>7
  <2>2. sent' = sent BY ONLY <1>3
  <2>3. QED BY ONLY <2>1, <2>2 DEF SentInv, LaterThan
<1>12. WriterAt(x)'
  <2>1. HeldOnly(Writer, x.pc \in {"write", "writing", "unlock"}, x.sem.id)' BY <1>2, <1>3, <1>6 DEF WriterAt, HeldOnly
  <2>2. SemHandle(x.sem)' BY <1>2, <1>3, <1>6 DEF WriterAt, SemHandle
  <2>3. ASSUME NEW j \in 1..Len(seg'), seg'[j].torn, seg'[j].under = y.sem.id PROVE FALSE
    <3>1. j \in 1..Len(seg) /\ seg'[j] = seg[j] /\ j # i BY ONLY <1>7, <2>3
    <3>2. QED BY <1>2, <1>4, <2>3, <3>1 DEF WriterAt
  <2>4. i = Len(seg') /\ y.size = seg'[i].size /\ y.arg <= y.size BY <1>2, <1>3, <1>4, <1>7 DEF WriterAt
  <2>5. y.shm.state = "open" /\ y.sem.state # "nil" /\ sem[y.sem.id].by = Writer BY <1>2, <1>3 DEF WriterAt
  <2>6. UNCHANGED <<sem, exposed, writes>> /\ i \in 1..Len(seg') /\ seg'[i].version = writes BY <1>3, <1>7
  <2>7. /\ x.pc = "unlock" /\ x.shm.id = i /\ x.shm.state = "open" /\ x.sem = y.sem /\ x.size = y.size /\ x.arg = y.arg
    BY <1>4, <1>6, <2>5
  <2>8. QED BY ONLY <2>1, <2>2, <2>3, <2>4, <2>5, <2>6, <2>7 DEF WriterAt
<1>13. /\ UNCHANGED <<r, got>> /\ writes' \in Nat /\ faults' \in Nat /\ spoilt' \subseteq 1..Len(sem')
       /\ exposed' \subseteq Readers \cup {Writer} /\ segv' \subseteq exposed'
  BY <1>2, <1>3
<1>14. QED BY <1>5, <1>6, <1>9, <1>10, <1>11, <1>12, <1>13, ShmWriterMoves

LEMMA TupleIsSeq ==
  ASSUME NEW T, NEW n \in Nat, NEW f \in [1..n -> T]
  PROVE  f \in Seq(T) /\ Len(f) = n
OBVIOUS

LEMMA WriteUnlockInv ==
  ASSUME SystemVIInv, segv = {}, WriteUnlock
  PROVE  SystemVIInv'
<1>1. PICK y \in ShmWriters : y = w BY ShmWriterFacts
<1>2. /\ WriterAt(y) /\ SystemVTypes /\ SegInv /\ SentInv /\ writes \in Nat /\ faults \in Nat
      /\ spoilt \subseteq 1..Len(sem) /\ exposed \subseteq Readers \cup {Writer}
  BY <1>1, ShmWriterFacts
<1>3. /\ y.pc = "unlock" /\ SemUnlock(y.sem) /\ UNCHANGED <<seg, r, writes, faults, got, spoilt, exposed, segv>>
      /\ sent' = Append(sent, [at |-> y.shm.id, lock |-> y.sem.id, size |-> y.arg, version |-> writes])
  BY <1>1 DEF WriteUnlock, WGoto
<1>4. PICK i \in 1..Len(sem) : i = y.sem.id BY <1>2, <1>3 DEF WriterAt, SemHandle
<1>5. sem[i].by = Writer /\ sem' = [sem EXCEPT ![i].by = Nobody] BY <1>2, <1>3, <1>4 DEF SemUnlock, WriterAt
<1>6. Nobody \in Readers \cup {Writer, Nobody} /\ Writer # Nobody BY <1>2, SystemVFacts
<1>7. /\ sem' \in Seq(Semaphores) /\ Len(sem') = Len(sem)
      /\ \A j \in 1..Len(sem) : sem'[j].live = sem[j].live /\ sem'[j].by = IF j = i THEN Nobody ELSE sem[j].by
  BY <1>2, <1>5, <1>6, SemSet
<1>8. PICK a \in 1..Len(seg) : a = y.shm.id BY <1>2, <1>3 DEF WriterAt
<1>9. PICK o : o = [at |-> a, lock |-> i, size |-> y.arg, version |-> writes] OBVIOUS
<1>10. Len(seg) \in Nat /\ Len(sem) \in Nat /\ Len(sent) \in Nat /\ sent \in Seq(ReadOption) BY <1>2, SystemVFacts DEF SystemVTypes
<1>11. o \in ReadOption /\ o.at = a /\ o.lock = i /\ o.size = y.arg /\ o.version = writes
  <2>1. y.arg \in Nat BY DEF ShmWriters
  <2>2. QED BY <1>2, <1>9, <1>10, <2>1 DEF ReadOption
<1>12. /\ sent' \in Seq(ReadOption) /\ Len(sent') = Len(sent) + 1 /\ sent'[Len(sent) + 1] = o
       /\ \A k \in 1..Len(sent) : sent'[k] = sent[k]
  <2>1. sent' = Append(sent, o) BY <1>3, <1>4, <1>8, <1>9
  <2>2. QED BY ONLY <1>10, <1>11, <2>1, SeqExtend
<1>13. \A k \in 1..Len(sent') : k \in 1..Len(sent) \/ k = Len(sent) + 1 BY <1>10, <1>12
<1> DEFINE x == [y EXCEPT !.pc = "idle"]
<1>14. w' = x BY <1>1 DEF WriteUnlock, WGoto
<1>15. x \in ShmWriters /\ x.pc = "idle" /\ x.shm = y.shm /\ x.sem = y.sem /\ x.size = y.size BY DEF ShmWriters
<1> HIDE DEF x
<1>16. Grows(Writer)
  <2>1. \A j \in 1..Len(seg) : seg[j].version \in Nat BY <1>2, SystemVFacts DEF Segments
  <2>2. \A j \in 1..Len(sem) : sem'[j].by = sem[j].by \/ {sem[j].by, sem'[j].by} \subseteq {Nobody, Writer} BY <1>5, <1>7
  <2>3. seg \in Seq(Segments) BY <1>2 DEF SystemVTypes
  <2>4. QED BY <1>3, <1>7, <1>10, <1>12, <2>1, <2>2, <2>3 DEF Grows
\* Nothing is torn under the writer's semaphore, and its segment is the last.
<1>17. /\ a = Len(seg) /\ seg[a].version = writes /\ y.arg <= seg[a].size
       /\ y.shm.state = "open" /\ y.sem.state # "nil" /\ y.size = seg[a].size
       /\ \A j \in 1..Len(seg) : seg[j].torn => seg[j].under # i
  BY <1>2, <1>3, <1>4, <1>8 DEF WriterAt
<1>18. SegInv'
  <2>1. ASSUME NEW j \in 1..Len(seg), seg[j].torn PROVE seg[j].under \in 1..Len(sem') /\ sem'[seg[j].under].by = Writer
    <3>1. seg[j].under \in 1..Len(sem) /\ sem[seg[j].under].by = Writer /\ seg[j].under # i BY <1>2, <1>17, <2>1 DEF SegInv
    <3>2. QED BY <1>7, <3>1
  <2>2. QED BY <1>2, <1>3, <2>1 DEF SegInv
<1>19. ASSUME NEW j \in 1..Len(seg) PROVE ~(j > a)
  <2>1. j \in Nat /\ j <= Len(seg) BY <1>10
  <2>2. QED BY <1>10, <1>17, <2>1
<1>20. SentInv'
  <2>1. ASSUME NEW k \in 1..Len(sent')
        PROVE  /\ sent'[k].at \in 1..Len(seg) /\ sent'[k].lock \in 1..Len(sem)
               /\ sent'[k].version <= seg[sent'[k].at].version /\ sent'[k].size <= seg[sent'[k].at].size
               /\ \A j \in 1..Len(seg) : j > sent'[k].at => seg[j].version = 0 \/ seg[j].version >= sent'[k].version
    <3>1. CASE k = Len(sent) + 1
      <4>1. sent'[k] = o BY ONLY <1>12, <3>1
      <4>2. writes <= writes BY <1>2
      <4>3. QED BY ONLY <1>11, <1>17, <1>19, <4>1, <4>2
    <3>2. CASE k \in 1..Len(sent) BY <1>2, <1>12, <3>2 DEF SentInv, LaterThan
    <3>3. QED BY <1>13, <3>1, <3>2
  <2>2. Len(sem') = Len(sem) /\ seg' = seg BY <1>3, <1>7
  <2>3. QED BY ONLY <2>1, <2>2 DEF SentInv, LaterThan
<1>21. WriterAt(x)'
  <2>1. HeldOnly(Writer, x.pc \in {"write", "writing", "unlock"}, x.sem.id)'
    <3> SUFFICES ASSUME NEW j \in 1..Len(sem) \ spoilt, sem'[j].live, sem'[j].by = Writer PROVE FALSE
      BY <1>3, <1>7 DEF HeldOnly
    <3>1. j # i /\ sem[j].live /\ sem[j].by = Writer BY <1>6, <1>7
    <3>2. QED BY <1>2, <1>4, <3>1 DEF WriterAt, HeldOnly
  <2>2. SemHandle(x.sem)' BY <1>2, <1>7, <1>15 DEF WriterAt, SemHandle
  <2>3. /\ x.pc = "idle" /\ x.shm.id = a /\ x.shm.state = "open" /\ x.sem = y.sem /\ x.sem.id = i
        /\ x.size = y.size /\ UNCHANGED seg
    BY <1>3, <1>4, <1>8, <1>15, <1>17
  <2>4. QED BY ONLY <1>17, <2>1, <2>2, <2>3 DEF WriterAt
<1>22. /\ UNCHANGED <<r, got>> /\ writes' \in Nat /\ faults' \in Nat /\ spoilt' \subseteq 1..Len(sem')
       /\ exposed' \subseteq Readers \cup {Writer} /\ segv' \subseteq exposed'
  BY <1>2, <1>3, <1>7
<1>23. QED BY <1>14, <1>15, <1>16, <1>18, <1>20, <1>21, <1>22, ShmWriterMoves

LEMMA WriterCloseInv ==
  ASSUME SystemVIInv, segv = {}, Close
  PROVE  SystemVIInv'
<1>1. PICK y \in ShmWriters : y = w BY ShmWriterFacts
<1>2. /\ WriterAt(y) /\ SystemVTypes /\ SegInv /\ SentInv /\ writes \in Nat /\ faults \in Nat
      /\ spoilt \subseteq 1..Len(sem) /\ exposed \subseteq Readers \cup {Writer}
  BY <1>1, ShmWriterFacts
<1>3. /\ y.pc = "idle" /\ y.shm.state = "open" /\ CloseSem(y.sem) /\ CloseShm(y.shm, Writer)
      /\ UNCHANGED <<r, sent, writes, got, spoilt, segv>> /\ faults' = faults + 1
      /\ exposed' = IF y.sem.state = "nil" THEN exposed \cup {Writer} ELSE exposed
  BY <1>1 DEF Close, Fault
<1>4. y.shm \in ShmHandles /\ y.sem \in ShmHandles /\ Writer \in Readers \cup {Writer} BY DEF ShmWriters
<1>5. PICK k : k = ShmClosed(y.shm, Writer) OBVIOUS
<1>6. PICK l : l = SemClosed(y.sem) OBVIOUS
<1>7. k \in ShmHandles /\ k.id = y.shm.id /\ k.state \in {"closed", "dangling"} BY <1>3, <1>4, <1>5, ShmClosedFacts
<1>8. SemHandle(y.sem) /\ y.shm.id \in 1..Len(seg) BY <1>2, <1>3 DEF WriterAt
<1>9. /\ sem' \in Seq(Semaphores) /\ Len(sem') = Len(sem)
      /\ \A i \in 1..Len(sem) : sem'[i].by = sem[i].by /\ (sem'[i].live => sem[i].live)
      /\ l \in ShmHandles /\ l.id = y.sem.id /\ (l.state = "nil" <=> y.sem.state = "nil") /\ SemHandle(l)'
      /\ y.sem.state # "nil" => Lost(l)'
  BY <1>2, <1>3, <1>4, <1>6, <1>8, CloseSemFacts
<1>10. /\ seg' \in Seq(Segments) /\ Len(seg') = Len(seg)
       /\ \A i \in 1..Len(seg) : /\ seg'[i].key = seg[i].key /\ seg'[i].version = seg[i].version
                                 /\ seg'[i].torn = seg[i].torn /\ (seg'[i].live => seg[i].live)
                                 /\ seg'[i].size = seg[i].size /\ seg'[i].under = seg[i].under
  BY <1>2, <1>3, <1>4, <1>8, CloseShmFacts
<1> DEFINE x == [y EXCEPT !.sem = l, !.shm = k]
<1>11. w' = x BY <1>1, <1>5, <1>6 DEF Close
<1>12. x \in ShmWriters /\ x.pc = "idle" /\ x.shm = k /\ x.sem = l BY <1>3, <1>7, <1>9 DEF ShmWriters
<1> HIDE DEF x
<1>13. SameSegs BY <1>10 DEF SameSegs
<1>14. Grows(Writer)
  <2>1. \A i \in 1..Len(seg) : seg[i].version \in Nat BY <1>2, SystemVFacts DEF Segments
  <2>2. Len(seg) \in Nat /\ Len(sem) \in Nat /\ Len(sent) \in Nat /\ sent \in Seq(ReadOption)
    BY <1>2, SystemVFacts DEF SystemVTypes
  <2>3. spoilt \subseteq spoilt' /\ exposed \subseteq exposed' /\ sent' = sent BY <1>3
  <2>4. /\ seg' \in Seq(Segments) /\ Len(seg') = Len(seg)
        /\ \A i \in 1..Len(seg) : /\ seg'[i].key = seg[i].key /\ seg'[i].version = seg[i].version
                                  /\ seg'[i].live => seg[i].live
    BY ONLY <1>10
  <2>5. /\ sem' \in Seq(Semaphores) /\ Len(sem') = Len(sem)
        /\ \A i \in 1..Len(sem) : sem'[i].by = sem[i].by /\ (sem'[i].live => sem[i].live)
    BY ONLY <1>9
  <2>6. QED BY ONLY <2>1, <2>2, <2>3, <2>4, <2>5 DEF Grows
<1>15. SegInv' /\ SentInv' BY <1>2, <1>3, <1>4, <1>9, <1>13, <1>14, SegKept
<1>16. WriterAt(x)'
  <2>1. HeldOnly(Writer, x.pc \in {"write", "writing", "unlock"}, x.sem.id)'
    <3> SUFFICES ASSUME NEW j \in 1..Len(sem) \ spoilt, sem'[j].live, sem'[j].by = Writer PROVE FALSE
      BY <1>3, <1>9 DEF HeldOnly
    <3>1. sem[j].live /\ sem[j].by = Writer BY <1>9
    <3>2. QED BY <1>2, <1>3, <3>1 DEF WriterAt, HeldOnly
  <2>2. Writer \in exposed' \/ Lost(x.sem)' BY <1>3, <1>9, <1>12
  <2>3. \A i \in 1..Len(seg) : ~(seg'[i].torn /\ seg'[i].under = y.sem.id) BY <1>2, <1>3, <1>10 DEF WriterAt
  <2>4. y.shm.id = Len(seg') /\ y.shm.id \in 1..Len(seg') BY <1>2, <1>3, <1>8, <1>10 DEF WriterAt
  <2>5. SemHandle(x.sem)' /\ x.pc = "idle" /\ x.shm.id = y.shm.id /\ x.sem.id = y.sem.id
    BY <1>3, <1>7, <1>9, <1>12
  <2>6. x.shm.state \in {"closed", "dangling"} /\ Len(seg') = Len(seg) BY <1>7, <1>10, <1>12
  <2>7. QED BY ONLY <2>1, <2>2, <2>3, <2>4, <2>5, <2>6 DEF WriterAt
<1>17. /\ UNCHANGED <<r, got>> /\ writes' \in Nat /\ faults' \in Nat /\ spoilt' \subseteq 1..Len(sem')
       /\ exposed' \subseteq Readers \cup {Writer} /\ segv' \subseteq exposed'
  BY <1>2, <1>3, <1>9
<1>18. QED BY <1>11, <1>12, <1>14, <1>15, <1>16, <1>17, ShmWriterMoves

LEMMA WriterCrashInv ==
  ASSUME SystemVIInv, segv = {}, Crash
  PROVE  SystemVIInv'
<1>1. /\ SystemVTypes /\ SegInv /\ SentInv /\ writes \in Nat /\ faults \in Nat
      /\ spoilt \subseteq 1..Len(sem) /\ exposed \subseteq Readers \cup {Writer}
  BY ShmWriterFacts
<1>2. /\ seg' = [i \in DOMAIN seg |-> [seg[i] EXCEPT !.attached = @ \ {Writer}]] /\ faults' = faults + 1
      /\ spoilt' = spoilt \cup {i \in DOMAIN sem : sem[i].by = Writer} /\ UNCHANGED <<sem, r, sent, writes, got, exposed, segv>>
  BY DEF Crash, Fault
<1>3. PICK x : x = NewWriter OBVIOUS
<1>4. w' = x BY <1>3 DEF Crash
<1>5. x \in ShmWriters /\ x.pc = "idle" /\ x.shm.state = "nil" /\ x.sem.state = "nil" /\ x.sem.id = 0
  BY <1>3 DEF NewWriter, Nil, ShmWriters, ShmHandles
<1>6. /\ seg' \in Seq(Segments) /\ Len(seg') = Len(seg)
      /\ \A i \in 1..Len(seg) : /\ seg'[i].key = seg[i].key /\ seg'[i].version = seg[i].version
                                /\ seg'[i].torn = seg[i].torn /\ seg'[i].live = seg[i].live
                                /\ seg'[i].size = seg[i].size /\ seg'[i].under = seg[i].under
  <2>1. DOMAIN seg = 1..Len(seg) /\ Len(seg) \in Nat BY <1>1, SystemVFacts
  <2>2. ASSUME NEW i \in 1..Len(seg)
        PROVE  /\ seg'[i] \in Segments /\ seg'[i].key = seg[i].key /\ seg'[i].version = seg[i].version
               /\ seg'[i].torn = seg[i].torn /\ seg'[i].live = seg[i].live
               /\ seg'[i].size = seg[i].size /\ seg'[i].under = seg[i].under
    <3>1. seg[i] \in Segments BY <1>1, SystemVFacts
    <3>2. PICK left : left = seg[i].attached \ {Writer} OBVIOUS
    <3>3. left \in SUBSET (Readers \cup {Writer}) BY <3>1, <3>2 DEF Segments
    <3>4. seg'[i] = [seg[i] EXCEPT !.attached = left] BY <1>2, <2>1, <3>2
    <3>5. QED BY <3>1, <3>3, <3>4 DEF Segments
  <2>3. seg' \in [1..Len(seg) -> Segments]
    <3>1. DOMAIN seg' = 1..Len(seg) BY <1>2, <2>1
    <3>2. seg' = [i \in 1..Len(seg) |-> seg'[i]] BY <1>2, <2>1
    <3>3. QED BY ONLY <2>2, <3>2
  <2>4. QED BY <2>1, <2>2, <2>3, TupleIsSeq
<1>7. SameSegs BY <1>6 DEF SameSegs
<1>8. Grows(Writer)
  <2>1. /\ sem \in Seq(Semaphores) /\ sent \in Seq(ReadOption) /\ Len(seg) \in Nat /\ Len(sem) \in Nat /\ Len(sent) \in Nat
        /\ \A i \in 1..Len(seg) : seg[i].version \in Nat
    BY <1>1, SystemVFacts DEF SystemVTypes, Segments
  <2>2. QED BY <1>2, <1>6, <2>1 DEF Grows
<1>9. Writer \in Readers \cup {Writer} /\ \A i \in 1..Len(sem) : sem'[i].by = sem[i].by BY <1>2
<1>10. SegInv' /\ SentInv' BY <1>1, <1>2, <1>7, <1>8, <1>9, SegKept
<1>11. DOMAIN sem = 1..Len(sem) BY <1>1, SystemVFacts
<1>12. WriterAt(x)'
  <2>1. HeldOnly(Writer, x.pc \in {"write", "writing", "unlock"}, x.sem.id)' BY <1>2, <1>11 DEF HeldOnly
  <2>2. SemHandle(x.sem)' BY <1>5 DEF SemHandle
  <2>3. ASSUME NEW i \in 1..Len(seg), seg'[i].torn PROVE seg'[i].under # 0
    <3>1. seg[i].under \in 1..Len(sem) /\ Len(sem) \in Nat BY <1>1, <1>6, <2>3, SystemVFacts DEF SegInv
    <3>2. QED BY <1>6, <3>1
  <2>4. QED BY ONLY <1>5, <1>6, <2>1, <2>2, <2>3 DEF WriterAt
<1>13. /\ UNCHANGED <<r, got>> /\ writes' \in Nat /\ faults' \in Nat /\ spoilt' \subseteq 1..Len(sem')
       /\ exposed' \subseteq Readers \cup {Writer} /\ segv' \subseteq exposed'
  BY <1>1, <1>2, <1>11
<1>14. QED BY <1>4, <1>5, <1>8, <1>10, <1>12, <1>13, ShmWriterMoves

LEMMA SystemVInductive == SystemVIInv /\ [SystemVNext]_systemVVars => SystemVIInv'
<1> SUFFICES ASSUME SystemVIInv, [SystemVNext]_systemVVars PROVE SystemVIInv' OBVIOUS
<1>1. CASE UNCHANGED systemVVars
  <2>1. PICK x : x = w OBVIOUS
  <2>2. x \in ShmWriters /\ WriterAt(x) /\ writes \in Nat /\ faults \in Nat /\ exposed \subseteq Readers \cup {Writer}
    BY <2>1, ShmWriterFacts
  <2>3. /\ UNCHANGED <<seg, sem, r, sent, got, spoilt, segv, exposed, writes>> /\ w' = x /\ faults' = faults
    BY <1>1, <2>1 DEF systemVVars
  <2>4. WriterAt(x)' BY <2>2, <2>3 DEF WriterAt, SemHandle, Lost, Usable, HeldOnly
  <2>5. UNCHANGED <<seg, sem, r, sent, got, spoilt, segv>> BY <2>3
  <2>6. writes' \in Nat /\ writes <= writes' /\ faults' \in Nat /\ exposed' \subseteq Readers \cup {Writer} /\ exposed \subseteq exposed'
    BY <2>2, <2>3
  <2>7. QED BY <2>2, <2>3, <2>4, <2>5, <2>6, ShmWriterGoes
<1>2. CASE SystemVNext
  <2>1. segv = {} BY <1>2 DEF SystemVNext
  <2>2. CASE \E n \in Sizes : CallWrite(n) BY <2>2, CallWriteInv
  <2>3. CASE Write
    <3>1. CASE \E k \in Keys : CreateShm(k) \/ CreateSem(k) BY <2>1, <3>1, CreateShmInv, CreateSemInv
    <3>2. CASE ReplaceShm \/ WriteLock \/ WriteFails \/ WriteStart \/ WriteEnd \/ WriteUnlock
      BY <2>1, <3>2, ReplaceShmInv, WriteLockInv, WriteFailsInv, WriteStartInv, WriteEndInv, WriteUnlockInv
    <3>3. CASE KeepShm \/ KeepSem \/ WriteLockFails \/ WriteUnlockFails BY <2>1, <3>3, WriterGoesInv
    <3>4. QED BY <2>3, <3>1, <3>2, <3>3 DEF Write
  <2>4. CASE CreateFails \/ Close \/ Crash BY <2>1, <2>4, CreateFailsInv, WriterCloseInv, WriterCrashInv
  <2>5. ASSUME NEW p \in Readers, NEW i \in DOMAIN sent, CallRead(p, i) PROVE SystemVIInv' BY <2>1, <2>5, CallReadInv
  <2>6. ASSUME NEW p \in Readers, ReadBytes(p) PROVE SystemVIInv'
    <3>1. CASE ReadUnlock(p)
      <4>1. SemUnlock(r[p].sem) \/ ~Usable(r[p].sem) BY <3>1 DEF ReadUnlock
      <4>2. QED BY <2>1, <3>1, <4>1, ReadUnlockInv, ReadFailsInv
    <3>2. CASE Reopen(p) \/ KeepOpen(p) \/ OpenShm(p) \/ OpenFails(p)
      BY <2>1, <3>2, ReopenInv, KeepOpenInv, OpenShmInv, ReadFailsInv
    <3>3. CASE OpenSem(p) \/ KeepOpenSem(p) \/ ReadLock(p) \/ ReadLockFails(p) \/ Copy(p)
      BY <2>1, <3>3, OpenSemInv, KeepOpenSemInv, ReadLockInv, ReadFailsInv, CopyInv
    <3>4. QED BY <2>6, <3>1, <3>2, <3>3 DEF ReadBytes
  <2>7. ASSUME NEW p \in Readers, ReaderClose(p) PROVE SystemVIInv' BY <2>1, <2>7, ReaderCloseInv
  <2>8. QED BY <1>2, <2>2, <2>3, <2>4, <2>5, <2>6, <2>7 DEF SystemVNext
<1>3. QED BY <1>1, <1>2

LEMMA SystemVIs == SystemVIInv => ReadsAreWhole /\ NeverDangling
<1> SUFFICES ASSUME SystemVIInv PROVE ReadsAreWhole /\ NeverDangling OBVIOUS
<1>1. SystemVTypes /\ WriterAt(w) /\ segv \subseteq exposed /\ \A p \in Readers : ReaderAt(p, r[p]) /\ ReadInv(got[p])
  BY DEF SystemVIInv
<1>2. SystemVTypeOK
  <2>1. \A i \in DOMAIN seg : /\ seg[i].key \in Keys /\ seg[i].live \in BOOLEAN
                              /\ seg[i].attached \subseteq Readers \cup {Writer}
    BY <1>1, SystemVFacts DEF Segments
  <2>2. \A i \in DOMAIN sem : /\ sem[i].key \in Keys /\ sem[i].live \in BOOLEAN
                              /\ sem[i].by \in Readers \cup {Writer, Nobody}
    BY <1>1, SystemVFacts DEF Semaphores
  <2>3. ASSUME NEW p \in Readers PROVE r[p].o \in 0..Len(sent) /\ got[p].o \in 0..Len(sent)
    <3>1. r[p].o \in 0..Len(sent) BY <1>1 DEF ReaderAt
    <3>2. got[p].o \in Nat /\ Len(sent) \in Nat BY <1>1, SystemVFacts DEF Reads
    <3>3. got[p].o # 0 => got[p].o \in 1..Len(sent) BY <1>1 DEF ReadInv
    <3>4. QED BY <3>1, <3>2, <3>3
  <2>4. spoilt \subseteq DOMAIN sem /\ exposed \cup segv \subseteq Readers \cup {Writer} BY <1>1, SystemVFacts DEF SystemVTypes
  <2>5. QED BY <2>1, <2>2, <2>3, <2>4 DEF SystemVTypeOK
<1>3. ReadsAreWhole
  <2> SUFFICES ASSUME NEW p \in Readers, got[p].o # 0
               PROVE  LET o == sent[got[p].o]
                          again == got[p].seg > o.at
                      IN  /\ got[p].seg = o.at \/ again
                          /\ got[p].version >= o.version \/ (again /\ got[p].version = 0)
                          /\ got[p].short => again
                          /\ got[p].torn => got[p].lock # got[p].under
    BY <1>2 DEF ReadsAreWhole
  <2>1. PICK g \in Reads : g = got[p] BY <1>1, SystemVFacts
  <2>2. ReadInv(g) /\ g.o # 0 /\ g.o \in 1..Len(sent) BY <1>1, <2>1 DEF ReadInv
  <2>3. PICK o \in ReadOption : o = sent[g.o] BY <1>1, <2>2, SystemVFacts
  <2>4. g.seg = o.at \/ g.seg > o.at
    <3>1. g.seg \in Nat /\ o.at \in Nat /\ g.seg >= o.at BY <2>2, <2>3 DEF ReadInv, Reads, ReadOption
    <3>2. QED BY ONLY <3>1
  <2>5. QED BY ONLY <2>1, <2>2, <2>3, <2>4 DEF ReadInv
<1>4. SemaphoreFreed
  <2> SUFFICES ASSUME NEW i \in DOMAIN sem \ spoilt, sem[i].live, sem[i].by # Nobody PROVE InSection(sem[i].by)
    BY DEF SemaphoreFreed
  <2>1. i \in 1..Len(sem) \ spoilt /\ sem[i] \in Semaphores /\ Writer \notin Readers BY <1>1, SystemVFacts
  <2>2. CASE sem[i].by = Writer BY <1>1, <2>1, <2>2 DEF WriterAt, HeldOnly, InSection
  <2>3. CASE sem[i].by # Writer
    <3>1. PICK p \in Readers : sem[i].by = p /\ p # Writer BY <2>1, <2>3 DEF Semaphores
    <3>2. r[p].pc \in {"copy", "unlock"} BY <1>1, <2>1, <3>1 DEF ReaderAt, HeldOnly
    <3>3. QED BY <3>1, <3>2 DEF InSection
  <2>4. QED BY <2>2, <2>3
<1>5. QED BY <1>1, <1>3, <1>4 DEF NeverDangling

\* What a read returns, with the options of any write in any order, is at least as recent
\* as that write and lies within the segment, unless the key of the options was used again
\* for a segment that nobody has written to yet, or that is shorter; and nobody was writing
\* it, unless the reader holds another semaphore than who wrote it: whatever was replaced,
\* removed, closed or crashed in between.
THEOREM ReadsStayWhole == SystemVSpec => []ReadsAreWhole
BY SystemVInitInv, SystemVInductive, SystemVIs, PTL DEF SystemVSpec

\* Nobody copies from or to a segment that is gone, but the writer after a failed creation,
\* a reader that comes back to the options of a segment that it detached, and who is used
\* on after a Close that found no semaphore; and nobody keeps a semaphore but after a crash
\* or a failed creation.
THEOREM MemoryIsMapped == SystemVSpec => []NeverDangling
BY SystemVInitInv, SystemVInductive, SystemVIs, PTL DEF SystemVSpec
=============================================================================
