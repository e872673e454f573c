------------------------- MODULE SerialUploadProofs -------------------------
(***************************************************************************)
(* What the serial console keeps for every set of files, paths and batches *)
(* and any number of mishaps: the inbox it promises, and, so long as no    *)
(* wait runs out, that what qdosctl says was done is so.                   *)
(***************************************************************************)
EXTENDS SerialUpload, FiniteSetTheorems, SequenceTheorems, TLAPS

Puts == [op : {"PUT"}, path : Paths, file : Files]
Dels == [op : {"DEL"}, name : Paths \cup Folders]

\* What is at a path is a run of units, whole or half written.
StoreInv ==
    /\ inbox \in [Paths -> Seq(Units) \cup {None}]
    /\ part \in [Paths -> Seq(Units) \cup {None}]

\* The task is busy with one PUT, and has checked the file it is putting in place.
PutInv ==
    /\ dev \in {"data", "drain", "swap"} => cur \in Puts
    /\ dev \in {"data", "drain"} => part[cur.path] \in Seq(Units)
    /\ dev = "swap" => part[cur.path] = Bytes(cur.file)

\* qdosctl is busy with the first of what it has to do.
HostInv ==
    /\ \A i \in 1..Len(todo) : todo[i].op # "HELLO"
    /\ host \in {"PUT", "sending", "final", "DEL", "LS"} => todo # <<>>
    /\ host \in {"PUT", "sending", "final"} => Head(todo) \in Puts
    /\ host = "DEL" => Head(todo) \in Dels
    /\ host = "LS" => Head(todo).op = "LS"
    /\ host = "PUT" => sent = 0
    /\ host \in {"sending", "final"} => sent <= Size[Head(todo).file]

PortType == toDev \in Seq(Units) /\ toHost \in Seq(Answers)

DevType ==
    /\ StoreInv /\ PutInv
    /\ dirs \subseteq Folders
    /\ dev \in {"idle", "line", "garbled", "data", "drain", "swap"}
    /\ dev \in {"idle", "line", "garbled"} => cur = None
    /\ left \in Nat

HostType ==
    /\ HostInv
    /\ host \in {"off", "hello", "next", "PUT", "sending", "final", "DEL", "LS"}
    /\ todo \in Seq(Commands) /\ sent \in Nat /\ tries \in 0..BOOT_TRIES
    /\ listing \subseteq Answers /\ claim \in Commands \cup {None}

FlagType == late \in BOOLEAN /\ typed \in BOOLEAN

TypeInv == PortType /\ DevType /\ HostType /\ FlagType

\* What qdosctl would say was done is so.
Done(c) ==
    CASE c.op = "PUT" -> inbox[c.path] = Bytes(c.file)
      [] c.op = "DEL" -> IF c.name \in Paths THEN inbox[c.name] = None
                         ELSE \A p \in Paths : FolderOf[p] = c.name => inbox[p] = None
      [] c.op = "LS" -> listing = Listed

\* The task has nothing to do.
Rest == dev = "idle" /\ toDev = <<>>

\* A command is on its way, or its line about to be read.
Asking(c) ==
    /\ toHost = <<>>
    /\ \/ dev = "idle" /\ toDev = <<CtrlB, Line(c)>>
       \/ dev = "line" /\ toDev = <<Line(c)>>

\* An upload after READY: as many units are on their way as were sent and not
\* read; the file is being put in place; or the task has answered.
Uploading(c, answers) ==
    \/ /\ dev \in {"data", "drain"} /\ cur = c /\ answers = <<>>
       /\ sent <= Size[c.file] /\ left + sent = Size[c.file] + Len(toDev)
    \/ /\ dev = "swap" /\ cur = c /\ answers = <<>>
       /\ sent = Size[c.file] /\ toDev = <<>>
    \/ /\ Rest /\ sent = Size[c.file]
       /\ \/ answers = <<Says("ERR")>>
          \/ answers = <<Says("OK")>> /\ Done(c)

\* A listing on its way: what has been shown and what is still to be read is
\* what the inbox holds.
Showing ==
    /\ Rest /\ toHost # <<>> /\ toHost[Len(toHost)] = Says("OK")
    /\ \A i \in 1..(Len(toHost) - 1) : toHost[i].says = "F"
    /\ listing \cup {toHost[i] : i \in 1..(Len(toHost) - 1)} = Listed

\* The two ends are at the same point of one conversation.
Talk ==
    /\ host \in {"off", "next"} => Rest /\ toHost = <<>>
    /\ host \notin {"off", "next"} => claim = None
    /\ host = "hello" => Asking(Hello) \/ (Rest /\ toHost = <<Says("OK")>>)
    /\ host = "DEL" =>
           \/ Asking(Head(todo))
           \/ Rest /\ toHost = <<Says("ERR")>>
           \/ Rest /\ toHost = <<Says("OK")>> /\ Done(Head(todo))
    /\ host = "LS" => (Asking(Head(todo)) /\ listing = {}) \/ Showing
    /\ host = "PUT" =>
           \/ Asking(Head(todo))
           \/ Rest /\ toHost = <<Says("ERR")>>
           \/ /\ toHost # <<>> /\ Head(toHost) = Says("READY")
              /\ Uploading(Head(todo), Tail(toHost))
    /\ host \in {"sending", "final"} => Uploading(Head(todo), toHost)
    /\ host = "final" => sent = Size[Head(todo).file]
    /\ ~typed
    /\ claim # None => Done(claim)

IInv == TypeInv /\ (late \/ Talk)
-----------------------------------------------------------------------------
(* Types *)

\* The kinds of command are told apart by their first word.
LEMMA CommandKinds ==
    ASSUME NEW c \in Commands
    PROVE  /\ c.op \in {"HELLO", "LS", "PUT", "DEL"}
           /\ c.op = "PUT" => c \in Puts
           /\ c.op = "DEL" => c \in Dels
  BY DEF Commands, Puts, Dels

LEMMA KindsCommand == Puts \subseteq Commands /\ Dels \subseteq Commands
                      /\ Hello \in Commands
  BY DEF Commands, Puts, Dels, Hello

\* The files' bytes are units, and no command.
LEMMA ByteUnit ==
    /\ \A f \in Files : \A i \in 1..Size[f] : Byte(f, i) \in Units
    /\ \A u \in FileUnits : u.k = "byte"
<1>1. \A f \in Files : \A i \in 1..Size[f] : Byte(f, i) \in FileUnits
  <2> SUFFICES ASSUME NEW f \in Files, NEW i \in 1..Size[f]
               PROVE  \E S \in {{Byte(g, j) : j \in 1..Size[g]} : g \in Files} :
                          Byte(f, i) \in S
    BY DEF FileUnits
  <2> WITNESS {Byte(f, j) : j \in 1..Size[f]} \in
                  {{Byte(g, j) : j \in 1..Size[g]} : g \in Files}
  <2> QED OBVIOUS
<1>2. ASSUME NEW u \in FileUnits PROVE u.k = "byte"
  <2>1. PICK f \in Files : u \in {Byte(f, i) : i \in 1..Size[f]}
    BY DEF FileUnits
  <2>2. PICK i \in 1..Size[f] : u = Byte(f, i)
    BY <2>1
  <2> QED BY <2>2 DEF Byte
<1>3. FileUnits \subseteq Units
  BY DEF Units
<1> QED BY <1>1, <1>2, <1>3

LEMMA LineUnit == CtrlB \in Units /\ \A c \in Commands : Line(c) \in Units
<1> DEFINE L == {Line(c) : c \in Commands}
<1>1. Units = FileUnits \cup {CtrlB} \cup L
  BY DEF Units
<1>2. \A c \in Commands : Line(c) \in L
  OBVIOUS
<1> HIDE DEF L
<1> QED BY <1>1, <1>2

\* A unit that is the rest of a command line carries a command.
LEMMA UnitLine ==
    ASSUME NEW u \in Units
    PROVE  /\ u.k \in {"byte", "stx", "line"}
           /\ u.k = "line" => u.cmd \in Commands
<1>1. CASE u \in FileUnits
  BY <1>1, ByteUnit
<1>2. CASE u = CtrlB
  BY <1>2 DEF CtrlB
<1>3. CASE u \in {Line(c) : c \in Commands}
  BY <1>3 DEF Line
<1> QED BY <1>1, <1>2, <1>3 DEF Units

LEMMA BytesUnits == \A f \in Files : Bytes(f) \in Seq(Units) /\ Len(Bytes(f)) = Size[f]
<1> TAKE f \in Files
<1>1. Size[f] \in Nat
  BY UploadAssumption
<1> QED BY <1>1, ByteUnit DEF Bytes

\* The task reads a unit.
LEMMA ReadUnit ==
    ASSUME toDev \in Seq(Units), Read
    PROVE  Head(toDev) \in Units /\ toDev' \in Seq(Units) /\ Len(toDev') = Len(toDev) - 1
  BY DEF Read

LEMMA AskedCommand ==
    ASSUME toDev \in Seq(Units), NEW op, Asked(op)
    PROVE  /\ Head(toDev).cmd \in Commands /\ Head(toDev).cmd.op = op
           /\ toDev' \in Seq(Units)
  BY ReadUnit, UnitLine DEF Asked

LEMMA SaysAnswer == \A r \in {"OK", "READY", "ERR"} : Says(r) \in Answers
  BY DEF Answers

LEMMA FoundAnswer == Listed \subseteq Answers
<1>1. \A p \in Paths : Found(p, FALSE) \in Answers /\ Found(p, TRUE) \in Answers
  BY DEF Answers
<1> QED BY <1>1 DEF Listed

LEMMA AnswerSeq ==
    ASSUME toHost \in Seq(Answers), NEW r \in {"OK", "READY", "ERR"}, Answer(Says(r))
    PROVE  toHost' \in Seq(Answers)
  BY SaysAnswer DEF Answer

LEMMA SendSeq ==
    ASSUME toDev \in Seq(Units), NEW c \in Commands, Send(c)
    PROVE  toDev' \in Seq(Units)
<1>1. <<CtrlB, Line(c)>> \in Seq(Units)
  BY LineUnit
<1> QED BY <1>1, ConcatProperties DEF Send

\* A directory holds finitely many files.
LEMMA ListedFinite == IsFiniteSet(Listed) /\ Cardinality(Listed) \in Nat
<1> DEFINE whole == {q \in Paths : inbox[q] # None}
           half == {q \in Paths : part[q] # None}
<1>1. IsFiniteSet(whole) /\ IsFiniteSet(half)
  BY FS_Subset, UploadAssumption
<1>2. ASSUME NEW S, IsFiniteSet(S), NEW h PROVE IsFiniteSet({Found(p, h) : p \in S})
  <2> DEFINE f == [p \in S |-> Found(p, h)]
             T == {Found(p, h) : p \in S}
  <2>1. f \in Surjection(S, T)
    BY DEF Surjection
  <2> HIDE DEF f, T
  <2>2. IsFiniteSet(T)
    BY <1>2, <2>1, FS_Surjection
  <2> QED BY <2>2 DEF T
<1>3. /\ IsFiniteSet({Found(p, FALSE) : p \in whole})
      /\ IsFiniteSet({Found(p, TRUE) : p \in half})
  <2> HIDE DEF whole, half
  <2> QED BY <1>1, <1>2
<1>4. IsFiniteSet(Listed)
  BY <1>3, FS_Union DEF Listed
<1> QED BY <1>4, FS_CardinalityType

LEMMA TypeInvType == TypeInv => TypeOK
<1> SUFFICES ASSUME TypeInv PROVE TypeOK
  OBVIOUS
<1>1. \A p \in Paths : {inbox[p], part[p]} \subseteq Seq(Units) \cup {None}
  BY DEF TypeInv, DevType, StoreInv
<1>2. cur \in Commands \cup {None} /\ (cur # None <=> dev \in {"data", "drain", "swap"})
  BY KindsCommand, NoneAssumption DEF TypeInv, DevType, PutInv
<1>3. {late, typed} \subseteq BOOLEAN
  BY DEF TypeInv, FlagType
<1> QED
  BY <1>1, <1>2, <1>3 DEF TypeInv, PortType, DevType, HostType, TypeOK

LEMMA InitType == Init => TypeInv
<1> SUFFICES ASSUME Init PROVE TypeInv
  OBVIOUS
<1>1. PortType
  BY EmptySeq DEF Init, PortType
<1>2. DevType /\ FlagType
  BY DEF Init, DevType, StoreInv, PutInv, FlagType
<1>3. HostType
  BY EmptySeq, UploadAssumption DEF Init, HostType, HostInv
<1> QED BY <1>1, <1>2, <1>3 DEF TypeInv

\* The store after one file of it has changed
LEMMA StoreSet ==
    ASSUME NEW fs \in [Paths -> Seq(Units) \cup {None}], NEW p \in Paths,
           NEW v \in Seq(Units) \cup {None}
    PROVE  /\ [fs EXCEPT ![p] = v] \in [Paths -> Seq(Units) \cup {None}]
           /\ [fs EXCEPT ![p] = v][p] = v
  OBVIOUS

\* The task goes back to the keys.
LEMMA IdleType ==
    ASSUME TypeInv, Idle, dirs' \subseteq Folders, StoreInv'
    PROVE  DevType'
  BY DEF Idle, DevType, PutInv

\* unlink(part), and an answer of ERR
LEMMA FailsType ==
    ASSUME TypeInv, dev \in {"data", "drain", "swap"}, PutFails, UNCHANGED inbox
    PROVE  PortType' /\ DevType'
<1>1. cur.path \in Paths
  BY DEF TypeInv, DevType, PutInv, Puts
<1>2. part' \in [Paths -> Seq(Units) \cup {None}]
  BY <1>1, StoreSet DEF PutFails, TypeInv, DevType, StoreInv
<1>3. DevType'
  BY <1>2, IdleType DEF PutFails, TypeInv, DevType, StoreInv
<1>4. PortType'
  BY AnswerSeq DEF PutFails, TypeInv, PortType
<1> QED BY <1>3, <1>4

LEMMA DeviceType == ASSUME TypeInv, Device PROVE TypeInv'
<1> USE DEF TypeInv
<1>0. ASSUME PortType', DevType', FlagType', UNCHANGED hostVars PROVE TypeInv'
  BY <1>0 DEF hostVars, HostType, HostInv
<1> USE DEF PortType
<1>1. CASE StepKeys
  <2>1. PortType' /\ FlagType'
    BY <1>1, ReadUnit DEF StepKeys, FlagType
  <2>2. DevType'
    BY <1>1 DEF StepKeys, DevType, StoreInv, PutInv, storeVars
  <2> QED BY <1>0, <1>1, <2>1, <2>2 DEF StepKeys
<1>2. CASE CommandGarbled
  <2>1. PortType'
    BY <1>2, ReadUnit, AnswerSeq DEF CommandGarbled
  <2>2. DevType' /\ FlagType'
    BY <1>2 DEF CommandGarbled, DevType, StoreInv, PutInv, FlagType, storeVars, histVars
  <2> QED BY <1>0, <1>2, <2>1, <2>2 DEF CommandGarbled
<1>3. CASE CommandTimeout
  <2>1. PortType' /\ FlagType'
    BY <1>3 DEF CommandTimeout, portVars, FlagType
  <2>2. DevType'
    BY <1>3 DEF CommandTimeout, DevType, StoreInv, PutInv, storeVars
  <2> QED BY <1>0, <1>3, <2>1, <2>2 DEF CommandTimeout
<1>4. CASE ServeHello
  <2>1. PortType' /\ FlagType'
    BY <1>4, AskedCommand, AnswerSeq DEF ServeHello, FlagType, histVars
  <2>2. DevType'
    BY <1>4, IdleType DEF ServeHello, DevType, StoreInv, storeVars
  <2> QED BY <1>0, <1>4, <2>1, <2>2 DEF ServeHello
<1>5. CASE ServeList
  <2>1. PICK order \in [1..Cardinality(Listed) -> Listed] :
            toHost' = toHost \o order \o <<Says("OK")>>
    BY <1>5 DEF ServeList
  <2>2. order \in Seq(Answers)
    BY FoundAnswer, ListedFinite
  <2>3. toHost' \in Seq(Answers)
    BY <2>1, <2>2, SaysAnswer
  <2>4. PortType' /\ FlagType'
    BY <1>5, <2>3, AskedCommand DEF ServeList, FlagType, histVars
  <2>5. DevType'
    BY <1>5, IdleType DEF ServeList, DevType, StoreInv, storeVars
  <2> QED BY <1>0, <1>5, <2>4, <2>5 DEF ServeList
<1>6. CASE DelFile
  <2>1. PortType' /\ FlagType'
    BY <1>6, AskedCommand, AnswerSeq DEF DelFile, FlagType
  <2>2. StoreInv'
    BY <1>6, StoreSet DEF DelFile, DevType, StoreInv
  <2>3. DevType'
    BY <1>6, <2>2, IdleType DEF DelFile, DevType
  <2> QED BY <1>0, <1>6, <2>1, <2>3 DEF DelFile
<1>7. CASE DelFolder
  <2>1. PortType' /\ FlagType'
    BY <1>7, AskedCommand, AnswerSeq DEF DelFolder, FlagType
  <2>2. StoreInv' /\ dirs' \subseteq Folders
    BY <1>7 DEF DelFolder, DevType, StoreInv
  <2>3. DevType'
    BY <1>7, <2>2, IdleType DEF DelFolder
  <2> QED BY <1>0, <1>7, <2>1, <2>3 DEF DelFolder
<1>8. CASE DelNoFolder
  <2>1. PortType' /\ FlagType'
    BY <1>8, AskedCommand, AnswerSeq DEF DelNoFolder, FlagType, histVars
  <2>2. DevType'
    BY <1>8, IdleType DEF DelNoFolder, DevType, StoreInv, storeVars
  <2> QED BY <1>0, <1>8, <2>1, <2>2 DEF DelNoFolder
<1>9. CASE PutRefused
  <2>1. PortType' /\ FlagType'
    BY <1>9, AskedCommand, AnswerSeq DEF PutRefused, FlagType, histVars
  <2>2. dirs' \subseteq Folders
    BY <1>9, AskedCommand, CommandKinds, UploadAssumption DEF PutRefused, Puts, DevType
  <2>3. DevType'
    BY <1>9, <2>2, IdleType DEF PutRefused, DevType, StoreInv
  <2> QED BY <1>0, <1>9, <2>1, <2>3 DEF PutRefused
<1>10. CASE PutReady
  <2> DEFINE c == Head(toDev).cmd
  <2>1. PortType' /\ FlagType'
    BY <1>10, AskedCommand, AnswerSeq DEF PutReady, FlagType, histVars
  <2>2. c \in Puts /\ c.path \in Paths /\ c.file \in Files
    BY <1>10, AskedCommand, CommandKinds DEF PutReady, Puts
  <2>3. /\ dirs' = (IF FolderOf[c.path] = None THEN dirs ELSE dirs \cup {FolderOf[c.path]})
        /\ part' = [part EXCEPT ![c.path] = <<>>]
        /\ cur' = c /\ left' = Size[c.file] /\ dev' = "data" /\ inbox' = inbox
    BY <1>10 DEF PutReady
  <2> HIDE DEF c
  <2>4. dirs' \subseteq Folders /\ left' \in Nat
    BY <2>2, <2>3, UploadAssumption DEF DevType
  <2>5. StoreInv' /\ part'[c.path] = <<>>
    BY <2>2, <2>3, EmptySeq, StoreSet DEF DevType, StoreInv
  <2>6. DevType'
    BY <2>2, <2>3, <2>4, <2>5, EmptySeq DEF DevType, PutInv
  <2> QED BY <1>0, <1>10, <2>1, <2>6 DEF PutReady
<1>11. CASE PutChunk
  <2>1. PortType' /\ FlagType' /\ Head(toDev) \in Units
    BY <1>11, ReadUnit DEF PutChunk, FlagType, histVars
  <2>2. cur \in Puts /\ cur.path \in Paths /\ part[cur.path] \in Seq(Units)
    BY <1>11 DEF PutChunk, DevType, PutInv, Puts
  <2>3. part' = [part EXCEPT ![cur.path] = Append(part[cur.path], Head(toDev))]
    BY <1>11 DEF PutChunk
  <2>4. Append(part[cur.path], Head(toDev)) \in Seq(Units)
    BY <2>1, <2>2
  <2>5. /\ part' \in [Paths -> Seq(Units) \cup {None}]
        /\ part'[cur.path] \in Seq(Units)
    BY <2>2, <2>3, <2>4, StoreSet DEF DevType, StoreInv
  <2>6. DevType'
    BY <1>11, <2>2, <2>5 DEF PutChunk, DevType, StoreInv, PutInv
  <2> QED BY <1>0, <1>11, <2>1, <2>6 DEF PutChunk
<1>12. CASE PutWriteFails
  <2>1. PortType' /\ FlagType'
    BY <1>12, ReadUnit DEF PutWriteFails, FlagType, histVars
  <2>2. DevType'
    BY <1>12 DEF PutWriteFails, DevType, StoreInv, PutInv, storeVars
  <2> QED BY <1>0, <1>12, <2>1, <2>2 DEF PutWriteFails
<1>13. CASE PutDrain
  <2>1. PortType' /\ FlagType'
    BY <1>13, ReadUnit DEF PutDrain, FlagType, histVars
  <2>2. DevType'
    BY <1>13 DEF PutDrain, DevType, StoreInv, PutInv, storeVars
  <2> QED BY <1>0, <1>13, <2>1, <2>2 DEF PutDrain
<1>14. CASE PutTimeout
  <2>1. PortType' /\ DevType'
    BY <1>14, FailsType DEF PutTimeout
  <2> QED BY <1>0, <1>14, <2>1 DEF PutTimeout, PutFails, FlagType
<1>15. CASE PutWrong
  <2>1. PortType' /\ DevType'
    BY <1>15, FailsType DEF PutWrong
  <2> QED BY <1>0, <1>15, <2>1 DEF PutWrong, PutFails, FlagType, histVars
<1>16. CASE PutChecked
  <2>1. cur \in Puts /\ cur.path \in Paths
    BY <1>16 DEF PutChecked, DevType, PutInv, Puts
  <2>2. StoreInv'
    BY <1>16, <2>1, StoreSet DEF PutChecked, DevType, StoreInv
  <2>3. DevType'
    BY <1>16, <2>1, <2>2 DEF PutChecked, DevType, PutInv
  <2> QED BY <1>0, <1>16, <2>3 DEF PutChecked, FlagType, histVars, portVars
<1>17. CASE PutRenamed
  <2>1. cur.path \in Paths
    BY <1>17 DEF PutRenamed, DevType, PutInv, Puts
  <2>2. StoreInv'
    BY <1>17, <2>1, StoreSet DEF PutRenamed, DevType, StoreInv
  <2>3. DevType'
    BY <1>17, <2>2, IdleType DEF PutRenamed, DevType
  <2>4. PortType' /\ FlagType'
    BY <1>17, AnswerSeq DEF PutRenamed, FlagType
  <2> QED BY <1>0, <1>17, <2>3, <2>4 DEF PutRenamed
<1>18. CASE PutRenameFails
  <2>1. PortType' /\ DevType'
    BY <1>18, FailsType DEF PutRenameFails
  <2> QED BY <1>0, <1>18, <2>1 DEF PutRenameFails, PutFails, FlagType
<1> QED
  BY <1>1, <1>2, <1>3, <1>4, <1>5, <1>6, <1>7, <1>8, <1>9, <1>10, <1>11, <1>12,
     <1>13, <1>14, <1>15, <1>16, <1>17, <1>18 DEF Device

\* What is left once the first is done
LEMMA TodoTail ==
    ASSUME HostType, todo # <<>>
    PROVE  /\ Tail(todo) \in Seq(Commands) /\ Head(todo) \in Commands
           /\ \A i \in 1..Len(Tail(todo)) : Tail(todo)[i].op # "HELLO"
           /\ Head(todo).op \in {"LS", "PUT", "DEL"}
<1>1. todo \in Seq(Commands) /\ \A i \in 1..Len(todo) : todo[i].op # "HELLO"
  BY DEF HostType, HostInv
<1>2. Head(todo) \in Commands /\ Head(todo).op # "HELLO"
  BY <1>1
<1>3. Tail(todo) \in Seq(Commands) /\ \A i \in 1..Len(Tail(todo)) : Tail(todo)[i] = todo[i + 1]
      /\ i + 1 \in 1..Len(todo)
  BY <1>1
<1> QED BY <1>1, <1>2, <1>3, CommandKinds

LEMMA HostStepType == ASSUME TypeInv, Host PROVE TypeInv'
<1> USE DEF TypeInv
<1>0. ASSUME PortType', HostType', FlagType', UNCHANGED <<storeVars, devVars>>
      PROVE  TypeInv'
  BY <1>0 DEF storeVars, devVars, DevType, StoreInv, PutInv
<1>a. ASSUME toHost # <<>>, toHost' = Tail(toHost)
      PROVE  toHost' \in Seq(Answers) /\ Head(toHost) \in Answers
  BY <1>a DEF PortType
<1>b. <<>> \in Seq(Commands) /\ Len(<<>>) = 0
  BY EmptySeq
<1>c. ASSUME HelloAgain, UNCHANGED <<sent, listing, claim>>, host = "hello"
      PROVE  HostType' /\ toDev' \in Seq(Units)
  <2>1. CASE tries < BOOT_TRIES
    <3>1. Send(Hello) /\ tries' = tries + 1 /\ UNCHANGED <<host, todo>>
      BY <1>c, <2>1 DEF HelloAgain
    <3>2. tries' \in 0..BOOT_TRIES
      BY <2>1, <3>1, UploadAssumption DEF HostType
    <3> QED BY <1>c, <3>1, <3>2, SendSeq, KindsCommand DEF HostType, HostInv, PortType
  <2>2. CASE ~(tries < BOOT_TRIES)
    BY <1>c, <2>2, <1>b DEF HelloAgain, HostType, HostInv, PortType
  <2> QED BY <2>1, <2>2
<1>1. CASE HelloAnswered
  <2>1. HostType' /\ toDev' \in Seq(Units)
    <3>1. CASE Head(toHost) = Says("OK")
      BY <1>1, <3>1 DEF HelloAnswered, HostType, HostInv, PortType
    <3>2. CASE Head(toHost) # Says("OK")
      BY <1>1, <1>c, <3>2 DEF HelloAnswered
    <3> QED BY <3>1, <3>2
  <2>2. PortType' /\ FlagType'
    BY <1>1, <1>a, <2>1 DEF HelloAnswered, PortType, FlagType, histVars
  <2> QED BY <1>0, <1>1, <2>1, <2>2 DEF HelloAnswered
<1>2. CASE HelloTimeout
  <2>1. HostType' /\ toDev' \in Seq(Units)
    BY <1>2, <1>c DEF HelloTimeout
  <2>2. PortType' /\ FlagType'
    BY <1>2, <2>1 DEF HelloTimeout, PortType, FlagType
  <2> QED BY <1>0, <1>2, <2>1, <2>2 DEF HelloTimeout
<1>3. CASE NextCommand
  <2>1. Head(todo) \in Commands /\ Head(todo).op \in {"LS", "PUT", "DEL"}
    BY <1>3, TodoTail DEF NextCommand
  <2>2. PortType' /\ FlagType'
    BY <1>3, <2>1, SendSeq DEF NextCommand, PortType, FlagType, histVars
  <2>3. HostType'
    BY <1>3, <2>1, CommandKinds DEF NextCommand, HostType, HostInv
  <2> QED BY <1>0, <1>3, <2>2, <2>3 DEF NextCommand
<1>4. CASE CallEnds
  <2>1. PortType' /\ FlagType' /\ HostType'
    BY <1>4 DEF CallEnds, PortType, FlagType, HostType, HostInv, portVars, histVars
  <2> QED BY <1>0, <1>4, <2>1 DEF CallEnds
<1>5. CASE PutAnswered
  <2>1. PortType' /\ FlagType'
    BY <1>5, <1>a DEF PutAnswered, PortType, FlagType, histVars
  <2>2. HostType'
    <3>1. CASE Head(toHost) = Says("READY")
      <4>1. sent <= Size[Head(todo).file]
        BY <1>5, UploadAssumption DEF PutAnswered, HostType, HostInv, Puts
      <4> QED BY <1>5, <3>1, <4>1 DEF PutAnswered, HostType, HostInv
    <3>2. CASE Head(toHost) # Says("READY")
      BY <1>5, <3>2, TodoTail DEF PutAnswered, HostType, HostInv
    <3> QED BY <3>1, <3>2
  <2> QED BY <1>0, <1>5, <2>1, <2>2 DEF PutAnswered
<1>6. CASE SendChunk
  <2>1. Head(todo) \in Puts /\ Head(todo).file \in Files /\ Size[Head(todo).file] \in Nat
    BY <1>6, UploadAssumption DEF SendChunk, HostType, HostInv, Puts
  <2>2. CASE sent < Size[Head(todo).file]
    <3>1. Byte(Head(todo).file, sent + 1) \in Units /\ sent + 1 \in Nat
      BY <2>1, <2>2, ByteUnit DEF HostType
    <3>2. PortType' /\ FlagType'
      BY <1>6, <2>2, <3>1 DEF SendChunk, PortType, FlagType, histVars
    <3>3. HostType'
      BY <1>6, <2>1, <2>2, <3>1 DEF SendChunk, HostType, HostInv
    <3> QED BY <1>0, <1>6, <3>2, <3>3 DEF SendChunk
  <2>3. CASE ~(sent < Size[Head(todo).file])
    <3>1. PortType' /\ FlagType' /\ HostType'
      BY <1>6, <2>3 DEF SendChunk, PortType, FlagType, HostType, HostInv, histVars
    <3> QED BY <1>0, <1>6, <3>1 DEF SendChunk
  <2> QED BY <2>2, <2>3
<1>7. CASE Answered
  <2>1. PortType' /\ FlagType'
    BY <1>7, <1>a DEF Answered, PortType, FlagType, histVars
  <2>2. HostType'
    BY <1>7, TodoTail DEF Answered, HostType, HostInv
  <2> QED BY <1>0, <1>7, <2>1, <2>2 DEF Answered
<1>8. CASE ListAnswered
  <2>1. PortType' /\ FlagType' /\ Head(toHost) \in Answers
    BY <1>8, <1>a DEF ListAnswered, PortType, FlagType, histVars
  <2>2. HostType'
    BY <1>8, <2>1, TodoTail DEF ListAnswered, HostType, HostInv
  <2> QED BY <1>0, <1>8, <2>1, <2>2 DEF ListAnswered
<1>9. CASE AnswerTimeout
  <2>1. PortType' /\ FlagType'
    BY <1>9 DEF AnswerTimeout, PortType, FlagType, portVars
  <2>2. HostType'
    BY <1>9, <1>b, TodoTail DEF AnswerTimeout, HostType, HostInv
  <2> QED BY <1>0, <1>9, <2>1, <2>2 DEF AnswerTimeout
<1> QED
  BY <1>1, <1>2, <1>3, <1>4, <1>5, <1>6, <1>7, <1>8, <1>9 DEF Host

LEMMA StepType == TypeInv /\ [Next]_vars => TypeInv'
<1> SUFFICES ASSUME TypeInv, [Next]_vars PROVE TypeInv'
  OBVIOUS
<1> USE DEF TypeInv
<1>b. <<>> \in Seq(Commands) /\ Len(<<>>) = 0 /\ <<>> \in Seq(Units) /\ <<>> \in Seq(Answers)
  BY EmptySeq
<1>1. CASE Device
  BY <1>1, DeviceType
<1>2. CASE Host
  BY <1>2, HostStepType
<1>3. CASE Call
  <2>1. PortType' /\ FlagType'
    BY <1>3, <1>b, SendSeq, KindsCommand DEF Call, PortType, FlagType, histVars
  <2>2. DevType'
    BY <1>3 DEF Call, DevType, StoreInv, PutInv, storeVars, devVars
  <2>3. HostType'
    BY <1>3, BatchAssumption, UploadAssumption DEF Call, HostType, HostInv
  <2> QED BY <2>1, <2>2, <2>3
<1>4. CASE Interrupted
  <2>1. PortType' /\ FlagType'
    BY <1>4 DEF Interrupted, PortType, FlagType, portVars
  <2>2. DevType'
    BY <1>4 DEF Interrupted, DevType, StoreInv, PutInv, storeVars, devVars
  <2>3. HostType'
    BY <1>4, <1>b DEF Interrupted, HostType, HostInv
  <2> QED BY <2>1, <2>2, <2>3
<1>5. CASE PowerCut
  <2>1. PortType' /\ FlagType'
    BY <1>5, <1>b DEF PowerCut, PortType, FlagType
  <2>2. DevType'
    BY <1>5, IdleType DEF PowerCut, DevType, StoreInv, storeVars
  <2>3. HostType'
    BY <1>5 DEF PowerCut, HostType, HostInv, hostVars
  <2> QED BY <2>1, <2>2, <2>3
<1>6. CASE UNCHANGED vars
  BY <1>6 DEF vars, portVars, storeVars, devVars, hostVars, histVars, PortType, DevType,
              StoreInv, PutInv, HostType, HostInv, FlagType
<1> QED BY <1>1, <1>2, <1>3, <1>4, <1>5, <1>6 DEF Next

\* The variables keep their types; the task serves one PUT at a time, and one that
\* is about to rename holds the whole file under the .part name.
THEOREM TypeCorrect == Spec => []TypeOK
<1>1. Init => TypeInv
  BY InitType
<1>2. TypeInv /\ [Next]_vars => TypeInv'
  BY StepType
<1>3. TypeInv => TypeOK
  BY TypeInvType
<1> QED BY <1>1, <1>2, <1>3, PTL DEF Spec
-----------------------------------------------------------------------------
(* The inbox that is promised *)

\* A step that leaves the files alone, and is not about to put one in place
LEMMA InboxStutters ==
    ASSUME UNCHANGED inbox, dev # "swap", dev' # "swap"
    PROVE  UNCHANGED Promised!inboxVars
  BY DEF Promised!inboxVars, Placing

\* The file that was to take a place does not get there.
LEMMA InboxLoses ==
    ASSUME TypeInv, dev = "swap", dev' # "swap", UNCHANGED inbox
    PROVE  Promised!LosePlace
<1>1. Placing # None
  BY NoneAssumption DEF Placing, TypeInv, DevType, PutInv, Puts
<1> QED BY <1>1 DEF Promised!LosePlace, Placing

LEMMA InboxRemoves ==
    ASSUME NEW ps \in SUBSET Paths, dev # "swap", dev' # "swap",
           inbox' = [p \in Paths |-> IF p \in ps THEN None ELSE inbox[p]]
    PROVE  Promised!InboxNext
  BY DEF Promised!InboxNext, Promised!Remove, Placing

LEMMA StepInbox ==
    ASSUME TypeInv, [Next]_vars
    PROVE  [Promised!InboxNext]_(Promised!inboxVars)
<1> USE DEF TypeInv
<1>1. CASE UNCHANGED <<storeVars, devVars>>
  BY <1>1 DEF storeVars, devVars, Promised!inboxVars, Placing
<1>2. CASE Host \/ Call \/ Interrupted
  BY <1>1, <1>2 DEF Host, Call, Interrupted, HelloAnswered, HelloTimeout, NextCommand,
         CallEnds, PutAnswered, SendChunk, Answered, ListAnswered, AnswerTimeout
<1>3. CASE PowerCut
  <2>1. dev' # "swap" /\ UNCHANGED inbox
    BY <1>3 DEF PowerCut, Idle, storeVars
  <2> QED BY <2>1, InboxStutters, InboxLoses DEF Promised!InboxNext
<1>4. CASE StepKeys \/ CommandGarbled \/ CommandTimeout \/ PutChunk \/ PutWriteFails
           \/ PutDrain
  BY <1>4, InboxStutters
     DEF StepKeys, CommandGarbled, CommandTimeout, PutChunk, PutWriteFails, PutDrain,
         storeVars
<1>5. CASE ServeHello \/ ServeList \/ DelNoFolder \/ PutRefused \/ PutReady
  BY <1>5, InboxStutters
     DEF ServeHello, ServeList, DelNoFolder, PutRefused, PutReady, Asked, Idle, storeVars
<1>6. CASE PutTimeout \/ PutWrong
  BY <1>6, InboxStutters DEF PutTimeout, PutWrong, PutFails, Idle
<1>7. CASE PutRenameFails
  BY <1>7, InboxLoses DEF PutRenameFails, PutFails, Idle, Promised!InboxNext
<1>8. CASE DelFile
  <2>1. dev # "swap" /\ dev' # "swap"
    BY <1>8 DEF DelFile, Asked, Idle
  <2>2. CASE UNCHANGED inbox
    BY <2>1, <2>2, InboxStutters
  <2>3. CASE ~UNCHANGED inbox
    <3> DEFINE at == Head(toDev).cmd.name
    <3>1. at \in Paths /\ inbox' = [inbox EXCEPT ![at] = None]
      BY <1>8, <2>3 DEF DelFile
    <3> HIDE DEF at
    <3>2. inbox' = [p \in Paths |-> IF p \in {at} THEN None ELSE inbox[p]]
      BY <3>1 DEF DevType, StoreInv
    <3> QED BY <2>1, <3>1, <3>2, InboxRemoves
  <2> QED BY <2>2, <2>3
<1>9. CASE DelFolder
  <2>1. dev # "swap" /\ dev' # "swap"
    BY <1>9 DEF DelFolder, Asked, Idle
  <2>2. \E files \in SUBSET Paths :
            inbox' = [p \in Paths |-> IF p \in files THEN None ELSE inbox[p]]
    BY <1>9 DEF DelFolder
  <2> QED BY <2>1, <2>2, InboxRemoves
<1>10. CASE PutChecked
  <2>1. /\ cur.path \in Paths /\ cur.file \in Files /\ dev # "swap" /\ dev' = "swap"
        /\ cur' = cur /\ inbox' = [inbox EXCEPT ![cur.path] = None]
    BY <1>10 DEF PutChecked, DevType, PutInv, Puts
  <2>2. Promised!MakeRoom(cur.path, Bytes(cur.file))
    BY <2>1 DEF Promised!MakeRoom, Placing
  <2> QED BY <2>1, <2>2 DEF Promised!InboxNext
<1>11. CASE PutRenamed
  <2>1. /\ cur.path \in Paths /\ cur.file \in Files /\ dev = "swap" /\ dev' = "idle"
        /\ inbox' = [inbox EXCEPT ![cur.path] = Bytes(cur.file)]
    BY <1>11 DEF PutRenamed, Idle, DevType, PutInv, Puts
  <2>2. Placing = [path |-> cur.path, what |-> Bytes(cur.file)] /\ Placing # None
        /\ Placing' = None
    BY <2>1, NoneAssumption DEF Placing
  <2>3. Promised!TakePlace
    BY <2>1, <2>2 DEF Promised!TakePlace
  <2> QED BY <2>3 DEF Promised!InboxNext
<1>12. CASE UNCHANGED vars
  BY <1>1, <1>12 DEF vars
<1> QED
  BY <1>2, <1>3, <1>4, <1>5, <1>6, <1>7, <1>8, <1>9, <1>10, <1>11, <1>12
     DEF Next, Device

\* The serial console implements the inbox it promises, but for its fairness: at
\* every step of put(), del() and the power, a path holds one of the files whole or
\* nothing, and a file gives way only to a whole one or when it is removed.
THEOREM InboxSafety == Spec => Promised!InboxSafe
<1>1. Init => Promised!InboxInit
  BY DEF Init, Promised!InboxInit, Placing
<1>2. Spec => []TypeInv
  BY InitType, StepType, PTL DEF Spec
<1>3. TypeInv /\ [Next]_vars => [Promised!InboxNext]_(Promised!inboxVars)
  BY StepInbox
<1> QED BY <1>1, <1>2, <1>3, PTL DEF Spec, Promised!InboxSafe
-----------------------------------------------------------------------------
(* What qdosctl says was done is so *)

LEMMA AppendEmpty == ASSUME NEW y PROVE Append(<<>>, y) = <<y>>
  OBVIOUS

\* What qdosctl is waiting to have answered
Pending == IF host = "hello" THEN Hello ELSE Head(todo)

\* A task that is in a command, or has something to read at the keys, has exactly
\* the command that qdosctl waits on before it.
LEMMA TalkAsking ==
    ASSUME TypeInv, Talk, dev \in {"idle", "line", "garbled"},
           toDev # <<>> \/ dev # "idle"
    PROVE  /\ host \in {"hello", "DEL", "LS", "PUT"} /\ Asking(Pending)
           /\ claim = None /\ (host = "LS" => listing = {})
<1>1. ~Rest
  BY DEF Rest
<1>2. host \in {"hello", "DEL", "LS", "PUT", "sending", "final"}
  BY <1>1 DEF Talk, TypeInv, HostType
<1>3. \A c, answers : ~Uploading(c, answers)
  BY <1>1 DEF Uploading
<1>4. ~Showing
  BY <1>1 DEF Showing
<1> QED BY <1>1, <1>2, <1>3, <1>4 DEF Talk, Pending

\* The task has read that command's line.
LEMMA TalkAsked ==
    ASSUME TypeInv, Talk, NEW op, Asked(op)
    PROVE  /\ Head(toDev).cmd = Pending /\ Pending.op = op
           /\ toDev' = <<>> /\ toHost = <<>> /\ claim = None
           /\ op = "HELLO" => host = "hello"
           /\ op \in {"DEL", "LS", "PUT"} => host = op /\ Pending = Head(todo)
           /\ host = "LS" => listing = {}
<1>1. dev = "line" /\ Read /\ Head(toDev).cmd.op = op /\ toDev # <<>>
  BY DEF Asked, Read
<1>2. /\ host \in {"hello", "DEL", "LS", "PUT"} /\ Asking(Pending)
      /\ claim = None /\ (host = "LS" => listing = {})
  BY <1>1, TalkAsking
<1>3. toDev = <<Line(Pending)>> /\ toHost = <<>>
  BY <1>1, <1>2 DEF Asking
<1>4. Head(toDev).cmd = Pending /\ toDev' = <<>>
  BY <1>1, <1>3 DEF Line, Read
<1>5. host = "hello" => Pending.op = "HELLO"
  BY DEF Pending, Hello
<1>6. host \in {"DEL", "LS", "PUT"} => Pending = Head(todo) /\ Head(todo).op = host
  BY DEF Pending, TypeInv, HostType, HostInv, Puts, Dels
<1> QED BY <1>1, <1>2, <1>3, <1>4, <1>5, <1>6

\* A task that is taking a file is taking the one qdosctl is sending.
LEMMA TalkUploading ==
    ASSUME TypeInv, Talk, dev \in {"data", "drain", "swap"}
    PROVE  /\ host \in {"PUT", "sending", "final"} /\ claim = None
           /\ cur = Head(todo) /\ cur \in Puts /\ Size[cur.file] \in Nat
           /\ host = "PUT" => Head(toHost) = Says("READY") /\ Tail(toHost) = <<>>
                              /\ toHost # <<>>
           /\ host # "PUT" => toHost = <<>>
           /\ Uploading(cur, <<>>)
<1>1. ~Rest /\ \A c : ~Asking(c)
  BY DEF Rest, Asking
<1>2. host \in {"PUT", "sending", "final"} /\ claim = None
  BY <1>1 DEF Talk, TypeInv, HostType, Showing
<1>3. /\ host = "PUT" => toHost # <<>> /\ Head(toHost) = Says("READY")
                         /\ Uploading(Head(todo), Tail(toHost))
      /\ host # "PUT" => Uploading(Head(todo), toHost)
  BY <1>1, <1>2 DEF Talk
<1>4. \A c, answers : Uploading(c, answers) => answers = <<>> /\ cur = c
  BY <1>1 DEF Uploading
<1>5. cur \in Puts /\ Size[cur.file] \in Nat
  BY UploadAssumption DEF TypeInv, DevType, PutInv, Puts
<1> QED BY <1>2, <1>3, <1>4, <1>5

\* The upload goes on, and the task has said nothing.
LEMMA UploadGoesOn ==
    ASSUME TypeInv, Talk, dev \in {"data", "drain", "swap"},
           UNCHANGED <<toHost, hostVars, typed, cur>>, Uploading(cur, <<>>)'
    PROVE  Talk'
<1>1. /\ host' \in {"PUT", "sending", "final"} /\ claim' = None /\ cur' = Head(todo')
      /\ host' = "PUT" => Head(toHost') = Says("READY") /\ Tail(toHost') = <<>>
                          /\ toHost' # <<>>
      /\ host' # "PUT" => toHost' = <<>>
      /\ host' = "final" => sent' = Size[Head(todo').file]
      /\ ~typed'
  BY TalkUploading DEF hostVars, Talk
<1> QED BY <1>1 DEF Talk

\* The task answers for the upload.
LEMMA UploadAnswered ==
    ASSUME TypeInv, Talk, dev \in {"data", "drain", "swap"}, NEW r \in {"OK", "ERR"},
           Answer(Says(r)), Rest', sent = Size[cur.file],
           UNCHANGED <<hostVars, typed>>, r = "OK" => Done(Head(todo))'
    PROVE  Talk'
<1>1. /\ host' \in {"PUT", "sending", "final"} /\ claim' = None /\ ~typed'
      /\ sent' = Size[Head(todo').file]
  BY TalkUploading DEF hostVars, Talk
<1>2. CASE host = "PUT"
  <2>1. toHost \in Seq(Answers) /\ toHost # <<>> /\ Tail(toHost) = <<>>
        /\ Head(toHost) = Says("READY") /\ Says(r) \in Answers
    BY <1>2, TalkUploading, SaysAnswer DEF TypeInv, PortType
  <2>4. toHost' # <<>> /\ Head(toHost') = Says("READY") /\ Tail(toHost') = <<Says(r)>>
    <3> DEFINE a == Says(r)
               s == toHost
    <3>1. /\ s \in Seq(Answers) /\ s # <<>> /\ Tail(s) = <<>> /\ a \in Answers
          /\ Head(s) = Says("READY")
      BY <2>1
    <3> HIDE DEF a, s
    <3>2. Head(Append(s, a)) = Says("READY") /\ Tail(Append(s, a)) = Append(<<>>, a)
      BY <3>1, HeadTailAppend, Zenon
    <3>3. Append(s, a) # <<>>
      BY <3>1, AppendProperties, Zenon
    <3>4. toHost' = Append(s, a)
      BY DEF Answer, a, s
    <3> QED BY <3>2, <3>3, <3>4, AppendEmpty, Zenon DEF a
  <2>5. Uploading(Head(todo), Tail(toHost))'
    BY <1>1, <2>4 DEF Uploading
  <2> QED BY <1>1, <1>2, <2>4, <2>5 DEF Talk, hostVars
<1>3. CASE host # "PUT"
  <2>1. toHost' = <<Says(r)>>
    BY <1>3, TalkUploading, AppendEmpty DEF Answer
  <2>2. Uploading(Head(todo), toHost)'
    BY <1>1, <2>1 DEF Uploading
  <2> QED BY <1>1, <1>3, <2>2 DEF Talk, hostVars
<1> QED BY <1>2, <1>3

\* Where nothing is left to come, everything was sent and has been read.
LEMMA AllRead ==
    ASSUME TypeInv, Talk, dev \in {"data", "drain"}, left = 0
    PROVE  sent = Size[cur.file] /\ toDev = <<>>
<1>1. sent <= Size[cur.file] /\ left + sent = Size[cur.file] + Len(toDev)
  BY TalkUploading DEF Uploading, Rest
<1>2. sent \in Nat /\ Size[cur.file] \in Nat /\ toDev \in Seq(Units) /\ Len(toDev) \in Nat
  BY TalkUploading DEF TypeInv, HostType, PortType
<1>3. sent = Size[cur.file] /\ Len(toDev) = 0
  BY <1>1, <1>2
<1> QED BY <1>2, <1>3, EmptySeq

\* The task keeps to the conversation.
LEMMA TalkDevice ==
    ASSUME TypeInv, Talk, Device, ~late'
    PROVE  Talk'
<1> USE DEF TypeInv
<1>1. CASE StepKeys
  <2>1. toDev # <<>> /\ dev = "idle" /\ toDev' = Tail(toDev)
    BY <1>1 DEF StepKeys, Read
  <2>2. /\ host \in {"hello", "DEL", "LS", "PUT"} /\ Asking(Pending)
        /\ claim = None /\ (host = "LS" => listing = {})
    BY <2>1, TalkAsking
  <2>3. toDev = <<CtrlB, Line(Pending)>> /\ toHost = <<>>
    BY <2>1, <2>2 DEF Asking
  <2>4. Head(toDev).k = "stx" /\ toDev' = <<Line(Pending)>>
    BY <2>1, <2>3 DEF CtrlB
  <2>5. dev' = "line" /\ UNCHANGED <<toHost, hostVars, typed>>
    BY <1>1, <2>4 DEF StepKeys
  <2>6. Asking(Pending)'
    BY <2>3, <2>4, <2>5 DEF Asking, Pending, hostVars
  <2> QED BY <2>2, <2>5, <2>6 DEF Talk, Pending, hostVars
<1>2. CASE CommandGarbled
  <2>1. toDev # <<>> /\ dev \in {"line", "garbled"} /\ (dev = "line" => Head(toDev).k # "line")
    BY <1>2 DEF CommandGarbled, Read
  <2>2. Asking(Pending)
    BY <2>1, TalkAsking
  <2> QED BY <2>1, <2>2 DEF Asking, Line
<1>3. CASE CommandTimeout \/ PutTimeout
  BY <1>3 DEF CommandTimeout, PutTimeout
<1>4. CASE ServeHello
  <2>1. host = "hello" /\ toDev' = <<>> /\ toHost = <<>> /\ claim = None
    BY <1>4, TalkAsked DEF ServeHello
  <2>2. toHost' = <<Says("OK")>> /\ Rest' /\ UNCHANGED <<hostVars, typed>>
    BY <1>4, <2>1, AppendEmpty DEF ServeHello, Answer, Idle, Rest, histVars
  <2> QED BY <2>1, <2>2 DEF Talk, hostVars
<1>5. CASE ServeList
  <2>1. host = "LS" /\ toDev' = <<>> /\ toHost = <<>> /\ claim = None /\ listing = {}
    BY <1>5, TalkAsked DEF ServeList
  <2>2. PICK order \in [1..Cardinality(Listed) -> Listed] :
            /\ {order[i] : i \in DOMAIN order} = Listed
            /\ toHost' = toHost \o order \o <<Says("OK")>>
    BY <1>5 DEF ServeList
  <2> DEFINE n == Cardinality(Listed)
  <2>3. n \in Nat /\ order \in Seq(Answers) /\ Len(order) = n
    BY ListedFinite, FoundAnswer
  <2>4. toHost' = Append(order, Says("OK"))
    <3>1. toHost \o order = order
      BY <2>1, <2>3, ConcatEmptySeq
    <3>2. order \o <<Says("OK")>> = Append(order, Says("OK"))
      BY <2>3, SaysAnswer, AppendIsConcat
    <3> QED BY <2>2, <3>1, <3>2
  <2>5. /\ toHost' \in Seq(Answers) /\ Len(toHost') = n + 1 /\ toHost' # <<>>
        /\ \A i \in 1..n : toHost'[i] = order[i]
        /\ toHost'[n + 1] = Says("OK")
    BY <2>3, <2>4, SaysAnswer, AppendProperties
  <2>6. UNCHANGED <<storeVars, hostVars, typed>> /\ Rest' /\ Listed' = Listed
    BY <1>5, <2>1 DEF ServeList, Idle, Rest, histVars, storeVars, Listed
  <2>7. \A i \in 1..n : toHost'[i].says = "F"
    <3>1. \A a \in Listed : a.says = "F"
      BY DEF Listed, Found
    <3> QED BY <2>5, <3>1
  <2>8. {toHost'[i] : i \in 1..n} = Listed
    <3>1. DOMAIN order = 1..n
      OBVIOUS
    <3>2. {toHost'[i] : i \in 1..n} = {order[i] : i \in 1..n}
      BY <2>5
    <3> QED BY <2>2, <3>1, <3>2
  <2>9. Len(toHost') - 1 = n /\ toHost'[Len(toHost')] = Says("OK")
    BY <2>3, <2>5
  <2>10. Showing'
    <3> HIDE DEF n
    <3> QED BY <2>1, <2>5, <2>6, <2>7, <2>8, <2>9 DEF Showing, hostVars
  <2> QED BY <2>1, <2>6, <2>10 DEF Talk, hostVars
<1>6. CASE DelFile
  <2>1. /\ host = "DEL" /\ toDev' = <<>> /\ toHost = <<>> /\ claim = None
        /\ Head(toDev).cmd = Head(todo) /\ Head(todo).op = "DEL"
    BY <1>6, TalkAsked DEF DelFile
  <2>2. Rest' /\ UNCHANGED <<hostVars, typed>>
    BY <1>6, <2>1 DEF DelFile, Idle, Rest
  <2>3. CASE Answer(Says("ERR"))
    <3>1. toHost' = <<Says("ERR")>>
      BY <2>1, <2>3, AppendEmpty DEF Answer
    <3> QED BY <2>1, <2>2, <3>1 DEF Talk, hostVars
  <2>4. CASE ~Answer(Says("ERR"))
    <3>1. /\ Head(todo).name \in Paths /\ inbox' = [inbox EXCEPT ![Head(todo).name] = None]
          /\ Answer(Says("OK"))
      BY <1>6, <2>1, <2>4 DEF DelFile
    <3>2. toHost' = <<Says("OK")>>
      BY <2>1, <3>1, AppendEmpty DEF Answer
    <3>3. inbox'[Head(todo).name] = None
      BY <3>1 DEF DevType, StoreInv
    <3>4. Done(Head(todo))'
      BY <2>1, <2>2, <3>1, <3>3 DEF Done, hostVars
    <3> QED BY <2>1, <2>2, <3>2, <3>4 DEF Talk, hostVars
  <2> QED BY <2>3, <2>4
<1>7. CASE DelFolder
  <2>1. /\ host = "DEL" /\ toDev' = <<>> /\ toHost = <<>> /\ claim = None
        /\ Head(toDev).cmd = Head(todo) /\ Head(todo).op = "DEL"
    BY <1>7, TalkAsked DEF DelFolder
  <2>2. Rest' /\ UNCHANGED <<hostVars, typed>>
    BY <1>7, <2>1 DEF DelFolder, Idle, Rest
  <2>3. CASE Answer(Says("ERR"))
    <3>1. toHost' = <<Says("ERR")>>
      BY <2>1, <2>3, AppendEmpty DEF Answer
    <3> QED BY <2>1, <2>2, <3>1 DEF Talk, hostVars
  <2>4. CASE ~Answer(Says("ERR"))
    <3>1. /\ Head(todo).name \in dirs /\ Answer(Says("OK"))
          /\ \A p \in Paths : FolderOf[p] = Head(todo).name => inbox'[p] = None
      BY <1>7, <2>1, <2>4 DEF DelFolder
    <3>2. toHost' = <<Says("OK")>>
      BY <2>1, <3>1, AppendEmpty DEF Answer
    <3>3. Head(todo).name \notin Paths
      BY <3>1, UploadAssumption DEF DevType
    <3>4. Done(Head(todo))'
      BY <2>1, <2>2, <3>1, <3>3 DEF Done, hostVars
    <3> QED BY <2>1, <2>2, <3>2, <3>4 DEF Talk, hostVars
  <2> QED BY <2>3, <2>4
<1>8. CASE DelNoFolder
  <2>1. host = "DEL" /\ toDev' = <<>> /\ toHost = <<>> /\ claim = None
    BY <1>8, TalkAsked DEF DelNoFolder
  <2>2. toHost' = <<Says("ERR")>> /\ Rest' /\ UNCHANGED <<hostVars, typed>>
    BY <1>8, <2>1, AppendEmpty DEF DelNoFolder, Answer, Idle, Rest, histVars
  <2> QED BY <2>1, <2>2 DEF Talk, hostVars
<1>9. CASE PutRefused
  <2>1. host = "PUT" /\ toDev' = <<>> /\ toHost = <<>> /\ claim = None
    BY <1>9, TalkAsked DEF PutRefused
  <2>2. toHost' = <<Says("ERR")>> /\ Rest' /\ UNCHANGED <<hostVars, typed>>
    BY <1>9, <2>1, AppendEmpty DEF PutRefused, Answer, Idle, Rest, histVars
  <2> QED BY <2>1, <2>2 DEF Talk, hostVars
<1>10. CASE PutReady
  <2>1. /\ host = "PUT" /\ toDev' = <<>> /\ toHost = <<>> /\ claim = None
        /\ Head(toDev).cmd = Head(todo)
    BY <1>10, TalkAsked DEF PutReady
  <2>2. /\ dev' = "data" /\ cur' = Head(todo) /\ left' = Size[Head(todo).file]
        /\ UNCHANGED <<hostVars, typed>>
    BY <1>10, <2>1 DEF PutReady, histVars
  <2>3. toHost' = <<Says("READY")>>
    BY <1>10, <2>1, AppendEmpty DEF PutReady, Answer
  <2>4. toHost' # <<>> /\ Head(toHost') = Says("READY") /\ Tail(toHost') = <<>>
    BY <2>3
  <2>5. sent' = 0 /\ Size[Head(todo).file] \in Nat /\ Len(toDev') = 0
    BY <2>1, <2>2, UploadAssumption DEF HostType, HostInv, Puts, hostVars
  <2>6. Uploading(Head(todo), <<>>)'
    BY <2>2, <2>5 DEF Uploading, hostVars
  <2> QED BY <2>1, <2>2, <2>4, <2>6 DEF Talk, hostVars
<1>11. CASE PutChunk \/ PutWriteFails \/ PutDrain
  <2>1. /\ dev \in {"data", "drain"} /\ left > 0 /\ Read /\ dev' \in {"data", "drain"}
        /\ left' = left - 1 /\ UNCHANGED <<toHost, hostVars, typed, cur>>
    BY <1>11 DEF PutChunk, PutWriteFails, PutDrain, histVars
  <2>2. /\ sent <= Size[cur.file] /\ left + sent = Size[cur.file] + Len(toDev)
    BY <2>1, TalkUploading DEF Uploading, Rest
  <2>3. Len(toDev') = Len(toDev) - 1 /\ Len(toDev) \in Nat
    BY <2>1, ReadUnit DEF PortType
  <2>4. sent \in Nat /\ left \in Nat /\ Size[cur.file] \in Nat
    BY <2>1, TalkUploading DEF DevType, HostType
  <2>5. left' + sent = Size[cur.file] + Len(toDev')
    BY <2>1, <2>2, <2>3, <2>4
  <2>6. Uploading(cur, <<>>)'
    BY <2>1, <2>2, <2>5 DEF Uploading, hostVars
  <2> QED BY <2>1, <2>6, UploadGoesOn
<1>12. CASE PutWrong
  <2>1. /\ dev \in {"data", "drain"} /\ left = 0 /\ PutFails
        /\ UNCHANGED <<toDev, hostVars, typed>>
    BY <1>12 DEF PutWrong, PutFails, histVars
  <2>2. sent = Size[cur.file] /\ toDev = <<>>
    BY <2>1, AllRead
  <2> QED BY <2>1, <2>2, UploadAnswered DEF PutFails, Idle, Rest
<1>13. CASE PutChecked
  <2>1. /\ dev = "data" /\ left = 0 /\ dev' = "swap"
        /\ UNCHANGED <<toDev, toHost, hostVars, typed, cur>>
    BY <1>13 DEF PutChecked, portVars, histVars
  <2>2. sent = Size[cur.file] /\ toDev = <<>>
    BY <2>1, AllRead
  <2>3. Uploading(cur, <<>>)'
    BY <2>1, <2>2 DEF Uploading, hostVars
  <2> QED BY <2>1, <2>3, UploadGoesOn
<1>14. CASE PutRenamed \/ PutRenameFails
  <2>1. dev = "swap" /\ UNCHANGED <<toDev, hostVars, typed>> /\ Idle
    BY <1>14 DEF PutRenamed, PutRenameFails, PutFails
  <2>2. sent = Size[cur.file] /\ toDev = <<>> /\ cur = Head(todo)
    BY <2>1, TalkUploading DEF Uploading, Rest
  <2>3. Rest'
    BY <2>1, <2>2 DEF Idle, Rest
  <2>4. CASE PutRenameFails
    BY <2>1, <2>2, <2>3, <2>4, UploadAnswered DEF PutRenameFails, PutFails
  <2>5. CASE PutRenamed
    <3>1. /\ cur.op = "PUT" /\ cur.path \in Paths /\ part[cur.path] = Bytes(cur.file)
          /\ inbox' = [inbox EXCEPT ![cur.path] = part[cur.path]] /\ Answer(Says("OK"))
      BY <2>5 DEF PutRenamed, DevType, PutInv, Puts
    <3>2. inbox'[cur.path] = Bytes(cur.file)
      BY <3>1 DEF DevType, StoreInv
    <3>3. Done(Head(todo))'
      BY <2>1, <2>2, <3>1, <3>2 DEF Done, hostVars
    <3> QED BY <2>1, <2>2, <2>3, <3>1, <3>3, UploadAnswered
  <2> QED BY <1>14, <2>4, <2>5
<1> QED
  BY <1>1, <1>2, <1>3, <1>4, <1>5, <1>6, <1>7, <1>8, <1>9, <1>10, <1>11, <1>12,
     <1>13, <1>14 DEF Device

\* What is done stays done while neither the store nor the listing changes.
LEMMA DoneKept ==
    ASSUME UNCHANGED <<inbox, part, listing>>, NEW c, Done(c)
    PROVE  /\ c.op = "PUT" => inbox'[c.path] = Bytes(c.file)
           /\ c.op = "DEL" => IF c.name \in Paths THEN inbox'[c.name] = None
                              ELSE \A p \in Paths : FolderOf[p] = c.name => inbox'[p] = None
           /\ c.op = "LS" => listing' = Listed'
  BY DEF Done, Listed

LEMMA ClaimKept ==
    ASSUME UNCHANGED <<inbox, part, listing>>, NEW c, Done(c), claim' = c,
           c.op \in {"PUT", "DEL", "LS"}
    PROVE  Done(claim)'
  BY DoneKept DEF Done

\* Where there are several, there is one before the last.
LEMMA OneBelow == \A n \in Nat \ {0} : n # 1 => 1 \in 1..(n - 1)
  OBVIOUS

\* An answer that is alone on its way is read.
LEMMA OneRead ==
    ASSUME NEW a, toHost = <<a>>, toHost' = Tail(toHost)
    PROVE  Head(toHost) = a /\ toHost' = <<>>
  OBVIOUS

LEMMA SaysApart == /\ Says("OK") # Says("ERR") /\ Says("OK") # Says("READY")
                   /\ Says("READY") # Says("ERR")
  BY DEF Says

\* qdosctl keeps to the conversation.
LEMMA TalkHost ==
    ASSUME TypeInv, Talk, Host, ~late'
    PROVE  Talk'
<1> USE DEF TypeInv
<1>1. CASE HelloAnswered
  <2>1. host = "hello" /\ toHost # <<>> /\ toHost' = Tail(toHost)
    BY <1>1 DEF HelloAnswered
  <2>2. Rest /\ toHost = <<Says("OK")>>
    BY <2>1 DEF Talk, Asking
  <2>3. Head(toHost) = Says("OK") /\ toHost' = <<>>
    BY <2>1, <2>2, OneRead
  <2>4. host' = "next" /\ UNCHANGED <<toDev, dev, claim, typed>>
    BY <1>1, <2>3 DEF HelloAnswered, devVars, histVars
  <2>5. Rest' /\ claim' = None
    BY <2>1, <2>2, <2>4 DEF Rest, Talk
  <2> QED BY <2>3, <2>4, <2>5 DEF Talk
<1>2. CASE HelloTimeout \/ AnswerTimeout
  BY <1>2 DEF HelloTimeout, AnswerTimeout
<1>3. CASE NextCommand
  <2>1. /\ host' = Head(todo).op /\ claim' = None /\ listing' = {}
        /\ UNCHANGED <<toHost, dev, todo, typed>> /\ Send(Head(todo))
    BY <1>3 DEF NextCommand, devVars, histVars
  <2>2. host' \in {"LS", "PUT", "DEL"}
    BY <1>3, <2>1, TodoTail DEF NextCommand
  <2>3. Rest /\ toHost = <<>>
    BY <1>3 DEF NextCommand, Talk
  <2>4. toDev' = <<CtrlB, Line(Head(todo))>>
    BY <2>1, <2>3 DEF Send, Rest
  <2>5. Asking(Head(todo))'
    BY <2>1, <2>3, <2>4 DEF Asking, Rest
  <2> QED BY <2>1, <2>2, <2>5 DEF Talk
<1>4. CASE CallEnds
  <2>1. /\ host = "next" /\ host' = "off"
        /\ UNCHANGED <<toDev, toHost, dev, inbox, part, listing, claim, typed>>
    BY <1>4 DEF CallEnds, portVars, storeVars, devVars, histVars
  <2>2. Done(claim) => Done(claim)'
    BY <2>1 DEF Done, Listed
  <2> QED BY <2>1, <2>2 DEF Talk, Rest
<1>5. CASE PutAnswered
  <2>1. /\ host = "PUT" /\ toHost # <<>> /\ toHost' = Tail(toHost)
        /\ UNCHANGED <<toDev, inbox, part, dev, cur, left, sent, listing, claim, typed>>
    BY <1>5 DEF PutAnswered, storeVars, devVars, histVars
  <2>2. claim = None /\ ~typed
    BY <2>1 DEF Talk
  <2>3. CASE Head(toHost) = Says("READY")
    <3>1. host' = "sending" /\ todo' = todo
      BY <1>5, <2>3 DEF PutAnswered
    <3>2. toHost # <<Says("ERR")>>
      BY <2>3, SaysApart
    <3>3. Uploading(Head(todo), Tail(toHost))
      BY <2>1, <3>2 DEF Talk, Asking
    <3>4. Uploading(Head(todo), toHost)'
      <4>1. Rest' <=> Rest
        BY <2>1 DEF Rest
      <4>2. Done(Head(todo)) => Done(Head(todo))'
        BY <2>1, <3>1 DEF Done, Listed
      <4> QED BY <2>1, <3>1, <3>3, <4>1, <4>2 DEF Uploading
    <3> QED BY <2>1, <2>2, <3>1, <3>4 DEF Talk
  <2>4. CASE Head(toHost) # Says("READY")
    <3>1. host' = "next"
      BY <1>5, <2>4 DEF PutAnswered
    <3>2. Rest /\ toHost = <<Says("ERR")>>
      BY <2>1, <2>4 DEF Talk, Asking
    <3>3. toHost' = <<>> /\ Rest'
      BY <2>1, <3>2 DEF Rest
    <3> QED BY <2>1, <2>2, <3>1, <3>3 DEF Talk
  <2> QED BY <2>3, <2>4
<1>6. CASE SendChunk
  <2>1. /\ host = "sending"
        /\ UNCHANGED <<toHost, inbox, part, dev, cur, left, todo, listing, claim, typed>>
    BY <1>6 DEF SendChunk, storeVars, devVars, histVars
  <2>2. claim = None /\ ~typed /\ Uploading(Head(todo), toHost)
    BY <2>1 DEF Talk
  <2>3. /\ Size[Head(todo).file] \in Nat /\ sent \in Nat /\ left \in Nat
        /\ sent <= Size[Head(todo).file] /\ toDev \in Seq(Units)
    BY <2>1, UploadAssumption DEF HostType, HostInv, DevType, PortType, Puts
  <2>4. CASE sent < Size[Head(todo).file]
    <3>1. /\ toDev' = Append(toDev, Byte(Head(todo).file, sent + 1))
          /\ sent' = sent + 1 /\ host' = host
      BY <1>6, <2>4 DEF SendChunk
    <3>2. /\ dev \in {"data", "drain"} /\ cur = Head(todo) /\ toHost = <<>>
          /\ left + sent = Size[Head(todo).file] + Len(toDev)
      BY <2>2, <2>3, <2>4 DEF Uploading
    <3>3. Len(toDev') = Len(toDev) + 1 /\ Len(toDev) \in Nat
      BY <2>3, <3>1
    <3>4. sent' <= Size[Head(todo).file] /\ left + sent' = Size[Head(todo).file] + Len(toDev')
      BY <2>3, <2>4, <3>1, <3>2, <3>3
    <3>5. Uploading(Head(todo), toHost)'
      BY <2>1, <3>2, <3>4 DEF Uploading
    <3> QED BY <2>1, <2>2, <3>1, <3>5 DEF Talk
  <2>5. CASE ~(sent < Size[Head(todo).file])
    <3>1. host' = "final" /\ UNCHANGED <<toDev, sent>>
      BY <1>6, <2>5 DEF SendChunk
    <3>2. sent' = Size[Head(todo').file]
      BY <2>1, <2>3, <2>5, <3>1
    <3>3. Uploading(Head(todo), toHost)'
      <4>1. Rest' <=> Rest
        BY <2>1, <3>1 DEF Rest
      <4>2. Done(Head(todo)) => Done(Head(todo))'
        BY <2>1 DEF Done, Listed
      <4> QED BY <2>1, <2>2, <3>1, <4>1, <4>2 DEF Uploading
    <3> QED BY <2>1, <2>2, <3>1, <3>2, <3>3 DEF Talk
  <2> QED BY <2>4, <2>5
<1>7. CASE Answered
  <2>1. /\ host \in {"final", "DEL"} /\ toHost # <<>> /\ toHost' = Tail(toHost)
        /\ claim' = IF Head(toHost) = Says("OK") THEN Head(todo) ELSE None
        /\ host' = "next" /\ UNCHANGED <<toDev, inbox, part, dev, listing, typed>>
    BY <1>7 DEF Answered, storeVars, devVars, histVars
  <2>2. /\ Rest
        /\ \/ toHost = <<Says("ERR")>>
           \/ toHost = <<Says("OK")>> /\ Done(Head(todo))
    BY <2>1 DEF Talk, Asking, Uploading
  <2>3. toHost' = <<>> /\ Rest'
    BY <2>1, <2>2 DEF Rest
  <2>4. claim' # None => Done(claim)'
    <3> SUFFICES ASSUME claim' # None PROVE Done(claim)'
      OBVIOUS
    <3>1. Head(toHost) = Says("OK") /\ claim' = Head(todo)
      BY <2>1
    <3>2. Done(Head(todo))
      BY <2>2, <3>1, SaysApart
    <3>3. Head(todo).op \in {"PUT", "DEL", "LS"}
      BY <2>1, TodoTail DEF HostType, HostInv
    <3> QED BY <2>1, <3>1, <3>2, <3>3, ClaimKept
  <2>5. ~typed'
    BY <2>1 DEF Talk
  <2> QED BY <2>1, <2>3, <2>4, <2>5 DEF Talk
<1>8. CASE ListAnswered
  <2>1. /\ host = "LS" /\ toHost # <<>> /\ toHost' = Tail(toHost)
        /\ UNCHANGED <<toDev, inbox, part, dev, typed>>
    BY <1>8 DEF ListAnswered, storeVars, devVars, histVars
  <2>2. Showing /\ claim = None /\ ~typed
    BY <2>1 DEF Talk, Asking
  <2>3. Rest' /\ Listed' = Listed
    BY <2>1, <2>2 DEF Showing, Rest, Listed
  <2>4. toHost \in Seq(Answers) /\ Len(toHost) \in Nat \ {0} /\ Head(toHost) = toHost[1]
    BY <2>1, EmptySeq DEF PortType
  <2>5. CASE Head(toHost) = Says("OK")
    <3>1. /\ claim' = Head(todo) /\ host' = "next" /\ listing' = listing
      BY <1>8, <2>5 DEF ListAnswered
    <3>2. Len(toHost) = 1
      <4> SUFFICES ASSUME Len(toHost) # 1 PROVE FALSE
        OBVIOUS
      <4>1. toHost[1].says = "F"
        <5>1. \A i \in 1..(Len(toHost) - 1) : toHost[i].says = "F"
          BY <2>2 DEF Showing
        <5>2. 1 \in 1..(Len(toHost) - 1)
          BY <2>4, OneBelow
        <5> QED BY <5>1, <5>2
      <4> QED BY <2>4, <2>5, <4>1 DEF Says
    <3>3. toHost' = <<>>
      <4>1. toHost' \in Seq(Answers) /\ Len(toHost') = 0
        BY <2>1, <2>4, <3>2
      <4> QED BY <4>1, EmptySeq
    <3>4. listing' = Listed'
      <4>1. 1..(Len(toHost) - 1) = {}
        BY <3>2
      <4>2. listing = Listed
        BY <2>2, <4>1 DEF Showing
      <4> QED BY <2>3, <3>1, <4>2
    <3>5. Done(claim)'
      BY <2>1, <3>1, <3>4 DEF Done, HostType, HostInv
    <3> QED BY <2>1, <2>2, <2>3, <3>1, <3>3, <3>5 DEF Talk
  <2>6. CASE Head(toHost) # Says("OK")
    <3>1. Len(toHost) # 1
      BY <2>2, <2>4, <2>6 DEF Showing
    <3>2. toHost[1].says = "F"
      <4>1. \A i \in 1..(Len(toHost) - 1) : toHost[i].says = "F"
        BY <2>2 DEF Showing
      <4>2. 1 \in 1..(Len(toHost) - 1)
        BY <2>4, <3>1, OneBelow
      <4> QED BY <4>1, <4>2
    <3>3. /\ listing' = listing \cup {toHost[1]} /\ UNCHANGED <<host, todo, claim>>
      BY <1>8, <2>4, <2>6, <3>2 DEF ListAnswered
    <3>4. /\ toHost' \in Seq(Answers) /\ Len(toHost') = Len(toHost) - 1
          /\ \A i \in 1..Len(toHost') : toHost'[i] = toHost[i + 1]
      BY <2>1, <2>4, HeadTailProperties
    <3>5. toHost' # <<>> /\ toHost'[Len(toHost')] = Says("OK")
      <4>1. Len(toHost') \in 1..Len(toHost') /\ Len(toHost') + 1 = Len(toHost)
        BY <2>4, <3>1, <3>4
      <4>2. toHost'[Len(toHost')] = toHost[Len(toHost)]
        BY <3>4, <4>1
      <4> QED BY <2>2, <4>1, <4>2, EmptySeq DEF Showing
    <3>6. \A i \in 1..(Len(toHost') - 1) : toHost'[i].says = "F"
      BY <2>2, <2>4, <3>4 DEF Showing
    <3>7. listing' \cup {toHost'[i] : i \in 1..(Len(toHost') - 1)} = Listed
      <4> DEFINE A == {toHost[i] : i \in 1..(Len(toHost) - 1)}
                 B == {toHost'[i] : i \in 1..(Len(toHost') - 1)}
      <4>1. ASSUME NEW a \in A PROVE a \in B \cup {toHost[1]}
        <5>1. PICK i \in 1..(Len(toHost) - 1) : a = toHost[i]
          OBVIOUS
        <5>2. CASE i = 1
          BY <5>1, <5>2
        <5>3. CASE i # 1
          <6>1. i - 1 \in 1..(Len(toHost') - 1) /\ i - 1 \in 1..Len(toHost') /\ (i - 1) + 1 = i
            BY <2>4, <3>4, <5>3
          <6>2. a = toHost'[i - 1]
            BY <3>4, <5>1, <6>1
          <6> QED BY <6>1, <6>2
        <5> QED BY <5>2, <5>3
      <4>2. ASSUME NEW b \in B PROVE b \in A
        <5>1. PICK i \in 1..(Len(toHost') - 1) : b = toHost'[i]
          OBVIOUS
        <5>2. i + 1 \in 1..(Len(toHost) - 1) /\ i \in 1..Len(toHost')
          BY <2>4, <3>4
        <5>3. b = toHost[i + 1]
          BY <3>4, <5>1, <5>2
        <5> QED BY <5>2, <5>3
      <4>3. toHost[1] \in A
        <5>1. 1 \in 1..(Len(toHost) - 1)
          BY <2>4, <3>1, OneBelow
        <5> QED BY <5>1
      <4>4. listing \cup A = Listed
        BY <2>2 DEF Showing
      <4> HIDE DEF A, B
      <4>5. listing' \cup B = Listed
        BY <3>3, <4>1, <4>2, <4>3, <4>4
      <4> QED BY <4>5 DEF B
    <3>8. Showing'
      BY <2>3, <3>5, <3>6, <3>7 DEF Showing
    <3> QED BY <2>1, <2>2, <3>3, <3>8 DEF Talk
  <2> QED BY <2>5, <2>6
<1> QED
  BY <1>1, <1>2, <1>3, <1>4, <1>5, <1>6, <1>7, <1>8 DEF Host

LEMMA TalkCall == ASSUME TypeInv, Talk, Call PROVE Talk'
<1>1. /\ host = "off" /\ host' = "hello" /\ Send(Hello) /\ claim' = None
      /\ toHost' \in {toHost, <<>>} /\ UNCHANGED <<dev, typed>>
  BY DEF Call, devVars, histVars
<1>2. Rest /\ toHost = <<>> /\ ~typed
  BY <1>1 DEF Talk
<1>3. toDev' = <<CtrlB, Line(Hello)>>
  BY <1>1, <1>2 DEF Send, Rest
<1>4. Asking(Hello)'
  BY <1>1, <1>2, <1>3 DEF Asking, Rest, Hello
<1> QED BY <1>1, <1>2, <1>4 DEF Talk

LEMMA StepTalk ==
    ASSUME TypeInv, late \/ Talk, [Next]_vars
    PROVE  (late \/ Talk)'
<1>1. CASE late
  <2>1. late'
    BY <1>1 DEF Next, Device, Host, vars, histVars, Call, Interrupted, PowerCut,
           StepKeys, CommandGarbled, CommandTimeout, ServeHello, ServeList, DelFile,
           DelFolder, DelNoFolder, PutRefused, PutReady, PutChunk, PutWriteFails, PutDrain,
           PutTimeout, PutWrong, PutChecked, PutRenamed, PutRenameFails, HelloAnswered,
           HelloTimeout, NextCommand, CallEnds, PutAnswered, SendChunk, Answered,
           ListAnswered, AnswerTimeout
  <2> QED BY <2>1
<1>2. CASE Talk
  <2>1. CASE Interrupted \/ PowerCut
    BY <2>1 DEF Interrupted, PowerCut
  <2>2. CASE UNCHANGED vars
    <3>1. /\ toDev' = toDev /\ toHost' = toHost /\ inbox' = inbox /\ part' = part
          /\ dev' = dev /\ cur' = cur /\ left' = left /\ host' = host /\ todo' = todo
          /\ sent' = sent /\ listing' = listing /\ claim' = claim /\ typed' = typed
      BY <2>2 DEF vars, portVars, storeVars, devVars, hostVars, histVars
    <3>2. Rest' <=> Rest
      BY <3>1 DEF Rest
    <3>3. Listed' = Listed
      BY <3>1 DEF Listed
    <3>4. Done(Head(todo))' <=> Done(Head(todo))
      BY <3>1, <3>3 DEF Done
    <3>5. claim # None => (Done(claim)' <=> Done(claim))
      BY <3>1, <3>3 DEF Done
    <3>6. Showing' <=> Showing
      BY <3>1, <3>2, <3>3 DEF Showing
    <3>7. /\ Asking(Hello)' <=> Asking(Hello)
          /\ Asking(Head(todo))' <=> Asking(Head(todo))
      BY <3>1 DEF Asking
    <3>8. /\ Uploading(Head(todo), toHost)' <=> Uploading(Head(todo), toHost)
          /\ Uploading(Head(todo), Tail(toHost))' <=> Uploading(Head(todo), Tail(toHost))
      BY <3>1, <3>2, <3>4 DEF Uploading
    <3> QED BY <1>2, <3>1, <3>2, <3>4, <3>5, <3>6, <3>7, <3>8 DEF Talk
  <2> QED BY <1>2, <2>1, <2>2, TalkDevice, TalkHost, TalkCall DEF Next
<1> QED BY <1>1, <1>2

\* So long as no wait has run out and nothing was interrupted, nothing of a command
\* or a file is ever typed at the calculator, and what qdosctl says was done is so:
\* for every batch of files, whatever their sizes, a refused write included.
THEOREM SaidIsSoCorrect == Spec => []SaidIsSo
<1>1. Init => IInv
  BY InitType DEF Init, IInv, Talk, Rest
<1>2. IInv /\ [Next]_vars => IInv'
  BY StepType, StepTalk DEF IInv
<1>3. IInv => SaidIsSo
  BY DEF IInv, Talk, SaidIsSo, Done
<1> QED BY <1>1, <1>2, <1>3, PTL DEF Spec
=============================================================================
