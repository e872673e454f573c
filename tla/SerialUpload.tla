---------------------------- MODULE SerialUpload ----------------------------
(***************************************************************************)
(* The serial console's uploads: qdosctl on the host, the calculator's     *)
(* serial task, and the two directions of the port between them.  The port *)
(* is a terminal too, so whatever the task reads outside a command is      *)
(* typed at the calculator.                                                *)
(*                                                                         *)
(* The port carries units: a Ctrl-B, the rest of a command line, or a run  *)
(* of a file's bytes.  A checksum holds where the bytes read are the file's *)
(* own; that two files may share one is left out.  The names qdosctl sends *)
(* have passed valid_name, which takes no more than good_path does.        *)
(***************************************************************************)
EXTENDS Naturals, Sequences, FiniteSets

CONSTANTS
    Files,        \* files on the host
    Size,         \* how many units each is
    SIZE_MAX,     \* the largest put() takes (SIZE_MAX_BYTES)
    Paths,        \* where a file may be put
    Folders,      \* the apps' folders
    FolderOf,     \* the folder of each path, or None
    Batches,      \* what one call of qdosctl may be asked to do
    BOOT_TRIES,   \* times hello() asks
    MaxCalls,     \* bound: calls of qdosctl
    MaxMishaps,   \* bound: calls interrupted, and power cuts
    None

ASSUME UploadAssumption ==
    /\ Size \in [Files -> Nat] /\ SIZE_MAX \in Nat
    /\ FolderOf \in [Paths -> Folders \cup {None}]
    /\ None \notin Folders \cup Paths /\ Paths \cap Folders = {}
    /\ IsFiniteSet(Paths)
    /\ BOOT_TRIES \in Nat \ {0} /\ MaxCalls \in Nat /\ MaxMishaps \in Nat

Commands ==
    [op : {"HELLO", "LS"}]
      \cup [op : {"PUT"}, path : Paths, file : Files]
      \cup [op : {"DEL"}, name : Paths \cup Folders]

ASSUME BatchAssumption ==
    \A b \in Batches : b \in Seq(Commands) /\ \A i \in 1..Len(b) : b[i].op # "HELLO"

VARIABLES
    toDev,    \* units on their way to the calculator
    toHost,   \* answers on their way back
    inbox,    \* what is at each path: units, or None
    part,     \* the same with ".part" after the name
    dirs,     \* the folders there are
    dev,      \* where the serial task is
    cur,      \* the PUT it is serving
    left,     \* units still to come
    host,     \* where qdosctl is
    todo,     \* what it has left to do, the first under way
    sent,     \* units of the file it has sent
    tries,    \* times hello() has asked
    listing,  \* what LS has shown so far
    calls,    \* calls of qdosctl so far
    mishaps,  \* interruptions and power cuts so far
    claim,    \* what qdosctl last said was done
    late,     \* whether either end has given up waiting, or a mishap came
    typed     \* whether any part of a command or a file has been typed

portVars == <<toDev, toHost>>
storeVars == <<inbox, part, dirs>>
devVars == <<dev, cur, left>>
hostVars == <<host, todo, sent, tries, listing, calls, claim>>
histVars == <<mishaps, late, typed>>
vars == <<portVars, storeVars, devVars, hostVars, histVars>>

-----------------------------------------------------------------------------
(* Units and answers *)

Byte(f, i) == [k |-> "byte", of |-> f, at |-> i]
Bytes(f) == [i \in 1..Size[f] |-> Byte(f, i)]
Line(c) == [k |-> "line", cmd |-> c]
CtrlB == [k |-> "stx"]

\* No command, file or place is None.
ASSUME NoneAssumption ==
    /\ None \notin Commands
    /\ \A f \in Files : None # Bytes(f)
    /\ \A p \in Paths, f \in Files : None # [path |-> p, what |-> Bytes(f)]

Answer(r) == toHost' = Append(toHost, r)
Found(p, half) == [says |-> "F", path |-> p, half |-> half]
Says(r) == [says |-> r]

Init ==
    /\ toDev = <<>> /\ toHost = <<>>
    /\ inbox = [p \in Paths |-> None] /\ part = [p \in Paths |-> None] /\ dirs = {}
    /\ dev = "idle" /\ cur = None /\ left = 0
    /\ host = "off" /\ todo = <<>> /\ sent = 0 /\ tries = 0 /\ listing = {}
    /\ calls = 0 /\ claim = None /\ mishaps = 0
    /\ late = FALSE /\ typed = FALSE

-----------------------------------------------------------------------------
(* The calculator *)

\* The task has read the first unit of the port.
Read == toDev # <<>> /\ toDev' = Tail(toDev)

Idle == dev' = "idle" /\ cur' = None /\ left' = 0

\* qdos_serial_step: a Ctrl-B opens a command, anything else is typed.  Among
\* a file's bytes there may be a Ctrl-B.
StepKeys ==
    /\ dev = "idle" /\ Read
    /\ \/ Head(toDev).k # "stx" /\ dev' = "idle" /\ typed' = TRUE
       \/ Head(toDev).k # "line" /\ dev' = "line" /\ UNCHANGED typed
    /\ UNCHANGED <<toHost, storeVars, cur, left, hostVars, mishaps, late>>

\* command(), where what follows the Ctrl-B is no command: the line goes on,
\* or ends with ERR COMMAND or ERR LONG.
CommandGarbled ==
    /\ dev \in {"line", "garbled"} /\ Read
    /\ dev = "line" => Head(toDev).k # "line"
    /\ \/ Head(toDev).k # "line" /\ dev' = "garbled" /\ UNCHANGED toHost
       \/ Head(toDev).k # "stx" /\ dev' = "idle" /\ Answer(Says("ERR"))
    /\ UNCHANGED <<storeVars, cur, left, hostVars, histVars>>

\* command(), a Ctrl-B with nothing after it
CommandTimeout ==
    /\ dev \in {"line", "garbled"} /\ toDev = <<>>
    /\ dev' = "idle" /\ late' = TRUE
    /\ UNCHANGED <<portVars, storeVars, cur, left, hostVars, mishaps, typed>>

Asked(op) ==
    dev = "line" /\ Read /\ Head(toDev).k = "line" /\ Head(toDev).cmd.op = op

ServeHello ==
    /\ Asked("HELLO") /\ Answer(Says("OK")) /\ Idle
    /\ UNCHANGED <<storeVars, hostVars, histVars>>

\* What list_dir finds: a file half written is a file
Listed == {Found(p, FALSE) : p \in {q \in Paths : inbox[q] # None}}
            \cup {Found(p, TRUE) : p \in {q \in Paths : part[q] # None}}

\* list_dir, in whatever order the directory gives, then OK
ServeList ==
    /\ Asked("LS") /\ Idle
    /\ \E order \in [1..Cardinality(Listed) -> Listed] :
          /\ {order[i] : i \in DOMAIN order} = Listed
          /\ toHost' = toHost \o order \o <<Says("OK")>>
    /\ UNCHANGED <<storeVars, hostVars, histVars>>

\* put(), up to READY: too large, or the folder or the file cannot be made
PutRefused ==
    /\ Asked("PUT") /\ Answer(Says("ERR")) /\ Idle
    /\ LET d == FolderOf[Head(toDev).cmd.path]
       IN dirs' \in IF Size[Head(toDev).cmd.file] > SIZE_MAX \/ d = None
                    THEN {dirs} ELSE {dirs, dirs \cup {d}}
    /\ UNCHANGED <<inbox, part, hostVars, histVars>>

PutReady ==
    /\ Asked("PUT") /\ Size[Head(toDev).cmd.file] <= SIZE_MAX
    /\ LET c == Head(toDev).cmd
       IN /\ dirs' = IF FolderOf[c.path] = None THEN dirs ELSE dirs \cup {FolderOf[c.path]}
          /\ part' = [part EXCEPT ![c.path] = <<>>]
          /\ cur' = c /\ left' = Size[c.file]
    /\ dev' = "data" /\ Answer(Says("READY"))
    /\ UNCHANGED <<inbox, hostVars, histVars>>

\* put(), a chunk written
PutChunk ==
    /\ dev = "data" /\ left > 0 /\ Read
    /\ part' = [part EXCEPT ![cur.path] = Append(@, Head(toDev))]
    /\ left' = left - 1
    /\ UNCHANGED <<toHost, inbox, dirs, dev, cur, hostVars, histVars>>

\* put(), a chunk the store does not take: the rest is read all the same
PutWriteFails ==
    /\ dev = "data" /\ left > 0 /\ Read
    /\ dev' = "drain" /\ left' = left - 1
    /\ UNCHANGED <<toHost, storeVars, cur, hostVars, histVars>>

PutDrain ==
    /\ dev = "drain" /\ left > 0 /\ Read
    /\ left' = left - 1
    /\ UNCHANGED <<toHost, storeVars, dev, cur, hostVars, histVars>>

\* unlink(part), and an answer of ERR
PutFails ==
    /\ part' = [part EXCEPT ![cur.path] = None]
    /\ Answer(Says("ERR")) /\ Idle
    /\ UNCHANGED <<toDev, dirs, hostVars>>

\* Mutant of PutTimeout: the read waits until something comes.
PutTimeoutNever ==
    /\ FALSE
    /\ UNCHANGED vars

\* put(), nothing within DATA_MS: ERR SHORT
PutTimeout ==
    /\ dev \in {"data", "drain"} /\ left > 0 /\ toDev = <<>>
    /\ PutFails /\ late' = TRUE
    /\ UNCHANGED <<inbox, mishaps, typed>>

\* put(), all read: ERR WRITE after a write or a close that failed, ERR CRC
\* where the bytes are not the ones announced
PutWrong ==
    /\ dev \in {"data", "drain"} /\ left = 0
    /\ PutFails /\ UNCHANGED <<inbox, histVars>>

\* Mutant of PutChecked: the checksum is not compared.
PutUnchecked ==
    /\ dev = "data" /\ left = 0
    /\ inbox' = [inbox EXCEPT ![cur.path] = None] /\ dev' = "swap"
    /\ UNCHANGED <<portVars, part, dirs, cur, left, hostVars, histVars>>

\* put(), unlink(dest), FAT not renaming over a file
PutChecked ==
    /\ dev = "data" /\ left = 0 /\ part[cur.path] = Bytes(cur.file)
    /\ inbox' = [inbox EXCEPT ![cur.path] = None] /\ dev' = "swap"
    /\ UNCHANGED <<portVars, part, dirs, cur, left, hostVars, histVars>>

PutRenamed ==
    /\ dev = "swap"
    /\ inbox' = [inbox EXCEPT ![cur.path] = part[cur.path]]
    /\ part' = [part EXCEPT ![cur.path] = None]
    /\ Answer(Says("OK")) /\ Idle
    /\ UNCHANGED <<toDev, dirs, hostVars, mishaps, late, typed>>

PutRenameFails ==
    /\ dev = "swap" /\ PutFails
    /\ UNCHANGED <<inbox, mishaps, late, typed>>

\* del() of a file
DelFile ==
    /\ Asked("DEL") /\ Idle
    /\ LET at == Head(toDev).cmd.name
       IN /\ at \in Paths
          /\ \/ inbox[at] # None /\ inbox' = [inbox EXCEPT ![at] = None]
                /\ Answer(Says("OK"))
             \/ Answer(Says("ERR")) /\ UNCHANGED inbox
    /\ UNCHANGED <<part, dirs, hostVars, mishaps, late, typed>>

\* del() of a folder: what is in it, as far as it will go, then the folder
\* itself if nothing is left in it
DelFolder ==
    /\ Asked("DEL") /\ Idle
    /\ LET d == Head(toDev).cmd.name
           inside == {p \in Paths : FolderOf[p] = d}
           without(fs, gone) == [p \in Paths |-> IF p \in gone THEN None ELSE fs[p]]
       IN /\ d \in dirs
          /\ \E files \in SUBSET inside, halves \in SUBSET inside :
                /\ inbox' = without(inbox, files) /\ part' = without(part, halves)
                /\ \/ /\ \A p \in inside : inbox'[p] = None /\ part'[p] = None
                      /\ dirs' = dirs \ {d} /\ Answer(Says("OK"))
                   \/ Answer(Says("ERR")) /\ UNCHANGED dirs
    /\ UNCHANGED <<hostVars, mishaps, late, typed>>

DelNoFolder ==
    /\ Asked("DEL") /\ Idle
    /\ Head(toDev).cmd.name \in Folders \ dirs
    /\ Answer(Says("ERR"))
    /\ UNCHANGED <<storeVars, hostVars, histVars>>

\* The power goes: the task starts again, what was on the port is lost, and
\* the store is as it was left.
PowerCut ==
    /\ mishaps < MaxMishaps
    /\ mishaps' = mishaps + 1 /\ late' = TRUE
    /\ toDev' = <<>> /\ Idle
    /\ UNCHANGED <<toHost, storeVars, hostVars, typed>>

Device ==
    \/ StepKeys \/ CommandGarbled \/ CommandTimeout
    \/ ServeHello \/ ServeList \/ DelFile \/ DelFolder \/ DelNoFolder
    \/ PutRefused \/ PutReady \/ PutChunk \/ PutWriteFails \/ PutDrain
    \/ PutTimeout \/ PutWrong \/ PutChecked \/ PutRenamed \/ PutRenameFails

-----------------------------------------------------------------------------
(* qdosctl *)

Send(c) == toDev' = toDev \o <<CtrlB, Line(c)>>
Hello == [op |-> "HELLO"]

\* open_port and the first hello().  What an earlier call left unread may be
\* dropped by the port, or still be there.
Call ==
    /\ host = "off" /\ calls < MaxCalls
    /\ calls' = calls + 1
    /\ todo' \in Batches
    /\ host' = "hello" /\ tries' = 1 /\ Send(Hello)
    /\ toHost' \in {toHost, <<>>}
    /\ claim' = None
    /\ UNCHANGED <<storeVars, devVars, sent, listing, histVars>>

\* hello() asks again, until it has asked BOOT_TRIES times.
HelloAgain ==
    IF tries < BOOT_TRIES
    THEN Send(Hello) /\ tries' = tries + 1 /\ UNCHANGED <<host, todo>>
    ELSE host' = "off" /\ todo' = <<>> /\ UNCHANGED <<toDev, tries>>

HelloAnswered ==
    /\ host = "hello" /\ toHost # <<>> /\ toHost' = Tail(toHost)
    /\ IF Head(toHost) = Says("OK")
       THEN host' = "next" /\ UNCHANGED <<toDev, tries, todo>>
       ELSE HelloAgain
    /\ UNCHANGED <<storeVars, devVars, sent, listing, calls, claim, histVars>>

HelloTimeout ==
    /\ host = "hello" /\ toHost = <<>> /\ HelloAgain /\ late' = TRUE
    /\ UNCHANGED <<toHost, storeVars, devVars, sent, listing, calls, claim,
                   mishaps, typed>>

\* The next file, name or listing
NextCommand ==
    /\ host = "next" /\ todo # <<>>
    /\ Send(Head(todo)) /\ host' = Head(todo).op
    /\ sent' = 0 /\ listing' = {} /\ claim' = None
    /\ UNCHANGED <<toHost, storeVars, devVars, todo, tries, calls, histVars>>

CallEnds ==
    /\ host = "next" /\ todo = <<>> /\ host' = "off"
    /\ UNCHANGED <<portVars, storeVars, devVars, todo, sent, tries, listing, calls,
                   claim, histVars>>

\* cmd_upload, the answer to PUT
PutAnswered ==
    /\ host = "PUT" /\ toHost # <<>> /\ toHost' = Tail(toHost)
    /\ IF Head(toHost) = Says("READY")
       THEN host' = "sending" /\ UNCHANGED todo
       ELSE host' = "next" /\ todo' = Tail(todo)
    /\ UNCHANGED <<toDev, storeVars, devVars, sent, tries, listing, calls, claim,
                   histVars>>

\* cmd_upload, cat
SendChunk ==
    /\ host = "sending"
    /\ IF sent < Size[Head(todo).file]
       THEN /\ toDev' = Append(toDev, Byte(Head(todo).file, sent + 1))
            /\ sent' = sent + 1 /\ UNCHANGED host
       ELSE host' = "final" /\ UNCHANGED <<toDev, sent>>
    /\ UNCHANGED <<toHost, storeVars, devVars, todo, tries, listing, calls, claim,
                   histVars>>

\* Mutant of Answered: any answer will do.
AnsweredAny ==
    /\ host \in {"final", "DEL"} /\ toHost # <<>> /\ toHost' = Tail(toHost)
    /\ claim' = Head(todo)
    /\ host' = "next" /\ todo' = Tail(todo)
    /\ UNCHANGED <<toDev, storeVars, devVars, sent, tries, listing, calls, histVars>>

\* cmd_upload after the file, and cmd_remove
Answered ==
    /\ host \in {"final", "DEL"} /\ toHost # <<>> /\ toHost' = Tail(toHost)
    /\ claim' = IF Head(toHost) = Says("OK") THEN Head(todo) ELSE None
    /\ host' = "next" /\ todo' = Tail(todo)
    /\ UNCHANGED <<toDev, storeVars, devVars, sent, tries, listing, calls, histVars>>

\* cmd_list: every F up to OK, and whatever else comes is passed over
ListAnswered ==
    /\ host = "LS" /\ toHost # <<>> /\ toHost' = Tail(toHost)
    /\ IF Head(toHost) = Says("OK")
       THEN /\ claim' = Head(todo) /\ host' = "next" /\ todo' = Tail(todo)
            /\ UNCHANGED listing
       ELSE /\ listing' = IF Head(toHost).says = "F" THEN listing \cup {Head(toHost)}
                          ELSE listing
            /\ UNCHANGED <<host, todo, claim>>
    /\ UNCHANGED <<toDev, storeVars, devVars, sent, tries, calls, histVars>>

\* reply() gives up: the file or the name has failed, a listing ends the call
AnswerTimeout ==
    /\ host \in {"PUT", "final", "DEL", "LS"} /\ toHost = <<>>
    /\ late' = TRUE
    /\ host' = IF host = "LS" THEN "off" ELSE "next"
    /\ todo' = IF host = "LS" THEN <<>> ELSE Tail(todo)
    /\ UNCHANGED <<portVars, storeVars, devVars, sent, tries, listing, calls, claim,
                   mishaps, typed>>

\* qdosctl is interrupted, or the cable pulled.
Interrupted ==
    /\ host # "off" /\ mishaps < MaxMishaps
    /\ mishaps' = mishaps + 1 /\ late' = TRUE
    /\ host' = "off" /\ todo' = <<>>
    /\ UNCHANGED <<portVars, storeVars, devVars, sent, tries, listing, calls, claim,
                   typed>>

Host ==
    \/ HelloAnswered \/ HelloTimeout \/ NextCommand \/ CallEnds
    \/ PutAnswered \/ SendChunk \/ Answered \/ ListAnswered \/ AnswerTimeout

Next == Device \/ Host \/ Call \/ Interrupted \/ PowerCut

Spec == Init /\ [][Next]_vars

\* The serial task and qdosctl each run, and a wait with a timeout ends.
FairSpec == Spec /\ WF_vars(Device) /\ WF_vars(Host)

-----------------------------------------------------------------------------
(* Properties *)

FileUnits == UNION {{Byte(f, i) : i \in 1..Size[f]} : f \in Files}
Units == FileUnits \cup {CtrlB} \cup {Line(c) : c \in Commands}
Answers == {Says(r) : r \in {"OK", "READY", "ERR"}}
             \cup {Found(p, FALSE) : p \in Paths} \cup {Found(p, TRUE) : p \in Paths}

TypeOK ==
    /\ toDev \in Seq(Units) /\ toHost \in Seq(Answers)
    /\ \A p \in Paths : {inbox[p], part[p]} \subseteq Seq(Units) \cup {None}
    /\ dirs \subseteq Folders
    /\ dev \in {"idle", "line", "garbled", "data", "drain", "swap"}
    /\ cur \in Commands \cup {None} /\ (cur # None <=> dev \in {"data", "drain", "swap"})
    /\ left \in Nat
    /\ host \in {"off", "hello", "next", "PUT", "sending", "final", "DEL", "LS"}
    /\ todo \in Seq(Commands) /\ sent \in Nat /\ tries \in 0..BOOT_TRIES
    /\ listing \subseteq Answers /\ claim \in Commands \cup {None}
    /\ {late, typed} \subseteq BOOLEAN

\* The serial console implements the inbox it promises: through every timeout,
\* refused write, interruption and power cut, a path holds one of the files whole
\* or nothing, and a file gives way only to a whole one or when it is removed.
Placing == IF dev = "swap" THEN [path |-> cur.path, what |-> Bytes(cur.file)] ELSE None
Promised == INSTANCE Inbox WITH
    Contents <- {Bytes(f) : f \in Files}, at <- inbox, next <- Placing
ImplementsInbox == Promised!InboxSpec

\* While no wait has run out and nothing was interrupted, no part of a command
\* or a file is taken for typing, a full store included, and what qdosctl says
\* was done is so: the file is there, the name is gone, the listing is what the
\* inbox holds.
SaidIsSo ==
    ~late =>
        /\ ~typed
        /\ claim # None =>
             CASE claim.op = "PUT" -> inbox[claim.path] = Bytes(claim.file)
               [] claim.op = "DEL" -> IF claim.name \in Paths THEN inbox[claim.name] = None
                                      ELSE \A p \in Paths : FolderOf[p] = claim.name => inbox[p] = None
               [] claim.op = "LS" -> listing = Listed

\* Files are framed so they are never taken for typing.
NeverTyped == ~typed

\* The serial task always comes back to the keys, and a call of qdosctl ends.
AlwaysBack == []<>(dev = "idle") /\ []<>(host = "off")
=============================================================================
