--------------------------- MODULE ProgramsProofs ---------------------------
(***************************************************************************)
(* What Programs keeps for any names, any texts in the firmware and on the *)
(* card, and however many words the prompt remembers.                      *)
(***************************************************************************)
EXTENDS Programs, FiniteSetTheorems, SequenceTheorems, TLAPS

Stored == [Names -> Nat]

-----------------------------------------------------------------------------
(* The rows of the APPS page.                                              *)

\* How near the nearest text of a name is.
Nearness(u, i, n) == IF u[n] # 0 THEN 0 ELSE IF i[n] # 0 THEN 1 ELSE 2

LEMMA RankOf ==
    ASSUME NEW u, NEW i, NEW n
    PROVE  /\ Rank(Entry(u, i, n)) = Nearness(u, i, n)
           /\ Entry(u, i, n).name = n /\ (Entry(u, i, n).user <=> u[n] # 0)
           /\ Nearness(u, i, n) \in 0..2
<1> DEFINE e == Entry(u, i, n)
<1>1. e.name = n /\ e.user = (u[n] # 0) /\ e.inbox = (i[n] # 0)
  BY DEF Entry
<1> HIDE DEF e
<1>2. (e.user <=> u[n] # 0) /\ (e.inbox <=> i[n] # 0)
  BY <1>1, Zenon
<1>3. Rank(e) = Nearness(u, i, n)
  BY <1>2 DEF Rank, Nearness
<1>4. Nearness(u, i, n) \in 0..2
  BY DEF Nearness
<1> QED BY <1>1, <1>2, <1>3, <1>4 DEF e

\* The order of two rows, by their names.
LEMMA OrderOf ==
    ASSUME NEW u, NEW i, NEW m, NEW n
    PROVE  EntryOrder(Entry(u, i, m), Entry(u, i, n)) <=>
             \/ Nearness(u, i, m) < Nearness(u, i, n)
             \/ Nearness(u, i, m) = Nearness(u, i, n) /\ m < n
  BY RankOf DEF EntryOrder

\* What is before a row is before every row after it, and the row itself is not
\* before it.
LEMMA BeforeGrows ==
    ASSUME NEW u, NEW i, NEW m \in There(u, i), NEW n \in There(u, i), m # n
    PROVE  \/ m \in Before(u, i, n) /\ Before(u, i, m) \subseteq Before(u, i, n) /\ m \notin Before(u, i, m)
           \/ n \in Before(u, i, m) /\ Before(u, i, n) \subseteq Before(u, i, m) /\ n \notin Before(u, i, n)
<1> DEFINE R(p) == Nearness(u, i, p)
           Less(p, q) == R(p) < R(q) \/ (R(p) = R(q) /\ p < q)
<1>1. /\ Before(u, i, m) = {p \in There(u, i) : Less(p, m)}
      /\ Before(u, i, n) = {p \in There(u, i) : Less(p, n)}
  BY OrderOf DEF Before
<1>2. \A p \in There(u, i) : p \in Nat /\ R(p) \in Nat
  BY RankOf, ProgramsAssumption DEF There
<1> HIDE DEF R
<1>3. Less(m, n) \/ Less(n, m)
  BY <1>2
<1>4. ~Less(m, m) /\ ~Less(n, n)
  BY <1>2
<1>5. Less(m, n) => \A p \in There(u, i) : Less(p, m) => Less(p, n)
  BY <1>2
<1>6. Less(n, m) => \A p \in There(u, i) : Less(p, n) => Less(p, m)
  BY <1>2
<1> HIDE DEF Less
<1> QED BY <1>1, <1>3, <1>4, <1>5, <1>6

LEMMA FiniteRows ==
    ASSUME NEW u, NEW i
    PROVE  /\ IsFiniteSet(There(u, i)) /\ Cardinality(There(u, i)) \in Nat
           /\ \A n : IsFiniteSet(Before(u, i, n)) /\ Cardinality(Before(u, i, n)) \in Nat
<1>1. There(u, i) \in SUBSET Names /\ IsFiniteSet(Names)
  BY ProgramsAssumption DEF There
<1>2. IsFiniteSet(There(u, i))
  BY <1>1, FS_Subset
<1>3. \A n : Before(u, i, n) \in SUBSET There(u, i)
  BY DEF Before
<1>4. \A n : IsFiniteSet(Before(u, i, n))
  BY <1>2, <1>3, FS_Subset
<1> QED BY <1>2, <1>4, FS_CardinalityType

\* No two rows have as many before them.
LEMMA BeforeApart ==
    ASSUME NEW u, NEW i, NEW m \in There(u, i), NEW n \in There(u, i),
           Cardinality(Before(u, i, m)) = Cardinality(Before(u, i, n))
    PROVE  m = n
<1> SUFFICES ASSUME m # n PROVE FALSE
  OBVIOUS
<1>1. CASE m \in Before(u, i, n) /\ Before(u, i, m) \subseteq Before(u, i, n) /\ m \notin Before(u, i, m)
  BY <1>1, FiniteRows, FS_Subset
<1>2. CASE n \in Before(u, i, m) /\ Before(u, i, n) \subseteq Before(u, i, m) /\ n \notin Before(u, i, n)
  BY <1>2, FiniteRows, FS_Subset
<1> QED BY <1>1, <1>2, BeforeGrows

\* There is a row for every place: as many places as names, and no two names
\* with the same.
LEMMA EveryPlace ==
    ASSUME NEW u, NEW i, NEW k \in 1..Cardinality(There(u, i))
    PROVE  \E n \in There(u, i) : Cardinality(Before(u, i, n)) = k - 1
<1> DEFINE T == There(u, i)
           N == Cardinality(T)
           f == [n \in T |-> Cardinality(Before(u, i, n))]
           P == 0..(N - 1)
           Q == P \ {k - 1}
<1>1. IsFiniteSet(T) /\ N \in Nat /\ N > 0 /\ k - 1 \in P
  BY FiniteRows
<1>2. \A n \in T : f[n] \in P
  <2> SUFFICES ASSUME NEW n \in T PROVE f[n] \in P
    OBVIOUS
  <2>1. n \notin Before(u, i, n)
    BY OrderOf, RankOf, ProgramsAssumption DEF Before, There
  <2>2. Before(u, i, n) \in SUBSET (T \ {n})
    BY <2>1 DEF Before
  <2>3. IsFiniteSet(T \ {n}) /\ Cardinality(T \ {n}) = N - 1
    BY <1>1, FS_RemoveElement
  <2>4. Cardinality(Before(u, i, n)) <= N - 1
    BY <2>2, <2>3, FS_Subset
  <2> QED BY <1>1, <2>4, FiniteRows
<1> SUFFICES ASSUME \A n \in T : f[n] # k - 1 PROVE FALSE
  OBVIOUS
<1>3. f \in [T -> Q]
  BY <1>2
<1>4. IsFiniteSet(P) /\ Cardinality(P) = N
  BY <1>1, FS_Interval
<1>5. IsFiniteSet(Q) /\ Cardinality(Q) = N - 1
  <2> HIDE DEF P, N
  <2> QED BY <1>1, <1>4, FS_RemoveElement
<1>6. \E x, y \in T : x # y /\ f[x] = f[y]
  <2> HIDE DEF f, Q
  <2> QED BY <1>1, <1>3, <1>5, FS_PigeonHole
<1> QED BY <1>6, BeforeApart

\* The rows are a sequence, each the entry of the name whose place it is.
LEMMA RowAt ==
    ASSUME NEW u, NEW i
    PROVE  /\ Len(Gather(u, i)) = Cardinality(There(u, i)) /\ Len(Gather(u, i)) \in Nat
           /\ DOMAIN Gather(u, i) = 1..Len(Gather(u, i))
           /\ \A k \in 1..Len(Gather(u, i)) : \E n \in There(u, i) :
                  /\ Gather(u, i)[k] = Entry(u, i, n)
                  /\ Cardinality(Before(u, i, n)) = k - 1
<1> DEFINE N == Cardinality(There(u, i))
           at(k) == CHOOSE n \in There(u, i) : Cardinality(Before(u, i, n)) = k - 1
<1>1. N \in Nat
  BY FiniteRows
<1>2. Gather(u, i) = [k \in 1..N |-> Entry(u, i, at(k))]
  BY DEF Gather
<1>3. \A k \in 1..N : at(k) \in There(u, i) /\ Cardinality(Before(u, i, at(k))) = k - 1
  BY EveryPlace
<1> HIDE DEF at, N
<1>4. Len(Gather(u, i)) = N /\ DOMAIN Gather(u, i) = 1..N
  BY <1>1, <1>2
<1>5. \A k \in 1..N : Gather(u, i)[k] = Entry(u, i, at(k))
  BY <1>2
<1> QED BY <1>1, <1>3, <1>4, <1>5 DEF N

\* The user's rows come first, and where each is does not depend on the card.
LEMMA UserRowsStay ==
    ASSUME NEW u, NEW i, NEW j, NEW k \in 1..Len(Gather(u, i)), Gather(u, i)[k].user
    PROVE  /\ k \in 1..Len(Gather(u, j))
           /\ Gather(u, j)[k].name = Gather(u, i)[k].name
           /\ Gather(u, j)[k].user
<1>1. PICK n \in There(u, i) : Gather(u, i)[k] = Entry(u, i, n) /\ Cardinality(Before(u, i, n)) = k - 1
  BY RowAt
<1>2. u[n] # 0 /\ n \in Names
  BY <1>1, RankOf DEF There
<1>3. \A m : u[m] # 0 => Nearness(u, i, m) = 0 /\ Nearness(u, j, m) = 0
  BY DEF Nearness
<1>4. \A m : u[m] = 0 => Nearness(u, i, m) > 0 /\ Nearness(u, j, m) > 0
  BY DEF Nearness
<1>5. Before(u, i, n) = {m \in Names : u[m] # 0 /\ m < n}
  BY <1>2, <1>3, <1>4, OrderOf, RankOf DEF Before, There, Nearest
<1>6. Before(u, j, n) = {m \in Names : u[m] # 0 /\ m < n}
  BY <1>2, <1>3, <1>4, OrderOf, RankOf DEF Before, There, Nearest
<1>7. n \in There(u, j)
  BY <1>2 DEF There, Nearest
<1>8. Cardinality(Before(u, j, n)) = k - 1 /\ k \in Nat \ {0}
  BY <1>1, <1>5, <1>6, RowAt
<1>9. k \in 1..Len(Gather(u, j))
  <2>1. n \notin Before(u, j, n)
    BY <1>2, <1>6, ProgramsAssumption
  <2>2. Before(u, j, n) \in SUBSET (There(u, j) \ {n})
    BY <2>1 DEF Before
  <2>3. /\ IsFiniteSet(There(u, j) \ {n})
        /\ Cardinality(There(u, j) \ {n}) = Cardinality(There(u, j)) - 1
    BY <1>7, FiniteRows, FS_RemoveElement
  <2>4. k - 1 <= Cardinality(There(u, j)) - 1
    BY <1>8, <2>2, <2>3, FS_Subset
  <2> QED BY <1>8, <2>4, RowAt
<1>10. PICK p \in There(u, j) : Gather(u, j)[k] = Entry(u, j, p) /\ Cardinality(Before(u, j, p)) = k - 1
  BY <1>9, RowAt
<1>11. p = n
  BY <1>7, <1>8, <1>10, BeforeApart
<1> QED BY <1>1, <1>2, <1>9, <1>10, <1>11, RankOf

-----------------------------------------------------------------------------
(* What a start would declare.                                             *)

Good(t) == t # 0 /\ t \notin Bad

\* The text of the nearest scope that evaluates.
Boots(u, i, n) ==
    IF Good(u[n]) THEN u[n] ELSE IF Good(i[n]) THEN i[n]
    ELSE IF Good(System[n]) THEN System[n] ELSE 0

LEMMA RestoredAt ==
    ASSUME NEW w \in Stored, NEW scope \in Stored
    PROVE  /\ Restored(w, scope) \in Stored
           /\ \A n \in Names \ AppNames :
                  Restored(w, scope)[n] = IF Good(scope[n]) THEN scope[n] ELSE w[n]
  BY DEF Restored, Stored, Good

LEMMA BootAt ==
    ASSUME NEW u \in Stored, NEW i \in Stored
    PROVE  /\ BootWords(u, i) \in Stored
           /\ \A n \in Names \ AppNames : BootWords(u, i)[n] = Boots(u, i, n)
<1> DEFINE s == Restored(NothingThere, System)
           c == Restored(s, i)
<1>1. NothingThere \in Stored /\ \A n \in Names : NothingThere[n] = 0
  BY DEF NothingThere, Stored
<1>2. System \in Stored
  BY ProgramsAssumption DEF Stored
<1>3. /\ s \in Stored
      /\ \A n \in Names \ AppNames : s[n] = IF Good(System[n]) THEN System[n] ELSE 0
  BY <1>1, <1>2, RestoredAt
<1> HIDE DEF s
<1>4. /\ c \in Stored
      /\ \A n \in Names \ AppNames : c[n] = IF Good(i[n]) THEN i[n] ELSE s[n]
  BY <1>3, RestoredAt
<1> HIDE DEF c
<1>5. /\ Restored(c, u) \in Stored
      /\ \A n \in Names \ AppNames : Restored(c, u)[n] = IF Good(u[n]) THEN u[n] ELSE c[n]
  BY <1>4, RestoredAt
<1>6. BootWords(u, i) = Restored(c, u)
  BY DEF BootWords, c, s
<1> QED BY <1>3, <1>4, <1>5, <1>6 DEF Boots

LEMMA DeclaredAt ==
    ASSUME NEW w \in Stored, NEW n \in Names, NEW t \in Nat
    PROVE  /\ Declared(w, n, t) \in Stored
           /\ \A m \in Names : Declared(w, n, t)[m] =
                  IF m = n /\ Good(t) /\ n \notin AppNames THEN t ELSE w[m]
  BY DEF Declared, Stored, Good

\* Dropping declares what the card or else the firmware has.
LEMMA RedeclaredAt ==
    ASSUME NEW w \in Stored, NEW i \in Stored, NEW n \in Names
    PROVE  LET d == RedeclareShadowed([w EXCEPT ![n] = 0], i, n)
           IN  /\ d \in Stored /\ \A m \in Names \ {n} : d[m] = w[m]
               /\ n \notin AppNames /\ i[n] \notin Bad =>
                    d[n] = IF Good(i[n]) THEN i[n] ELSE IF Good(System[n]) THEN System[n] ELSE 0
<1> DEFINE v == [w EXCEPT ![n] = 0]
           t == IF i[n] # 0 THEN i[n] ELSE System[n]
<1>1. v \in Stored /\ v[n] = 0 /\ \A m \in Names \ {n} : v[m] = w[m]
  BY DEF Stored
<1>2. t \in Nat
  BY ProgramsAssumption DEF Stored
<1>3. RedeclareShadowed(v, i, n) = Declared(v, n, t)
  BY DEF RedeclareShadowed
<1> HIDE DEF v
<1>4. /\ Declared(v, n, t) \in Stored
      /\ \A m \in Names : Declared(v, n, t)[m] = IF m = n /\ Good(t) /\ n \notin AppNames THEN t ELSE v[m]
  BY <1>1, <1>2, DeclaredAt
<1>5. n \notin AppNames /\ i[n] \notin Bad =>
          Declared(v, n, t)[n] = IF Good(i[n]) THEN i[n] ELSE IF Good(System[n]) THEN System[n] ELSE 0
  BY <1>1, <1>4 DEF Good
<1> QED BY <1>1, <1>3, <1>4, <1>5 DEF v

-----------------------------------------------------------------------------
(* The invariant.                                                          *)

TypeInv ==
    /\ user \in Stored /\ inbox \in Stored /\ words \in Stored
    /\ page \in {"home", "list", "over", "edit"} /\ sel \in Nat \ {0}
    /\ page = "edit" => editing.name \in Names /\ editing.back \in {"home", "list"}
    /\ asked \in Nat

\* The page, shown or covered, has the rows of some card under the user's own
\* programs as they are: of the card as it is, unless there is something unread.
Shown == page \in {"list", "over"} /\ Free
RowsInv ==
    /\ Shown => \E card \in Stored : rows = Gather(user, card)
    /\ Shown /\ ~landed /\ ~usb /\ ~behind => rows = Gather(user, inbox)

\* A question is open about the row selected, which is one of the user's.
AskInv ==
    asked # 0 => /\ page = "list" /\ Free /\ sel \in 1..Len(rows)
                 /\ rows[sel].user /\ rows[sel].name = asked

\* Half way through a rename both names have the text, and the new one is no
\* word yet and is nowhere else, unless it has just landed on the card.
JobInv ==
    job # NoJob =>
        /\ job.from \in Names /\ job.to \in Names /\ job.from # job.to
        /\ user[job.to] = user[job.from] /\ user[job.from] # 0 /\ System[job.to] = 0
        /\ job.to \notin touched => inbox[job.to] = 0 /\ words[job.to] = 0

\* The words are as a start would declare them, but the new name of a rename.
WordsInv ==
    \A n \in Names \ (here \cup touched \cup AppNames) :
        n # job.to /\ inbox[n] \notin Bad => words[n] = Boots(user, inbox, n)

IInv == TypeInv /\ RowsInv /\ AskInv /\ JobInv /\ WordsInv

LEMMA InitInv == ASSUME Init PROVE IInv
<1>1. NothingThere \in Stored
  BY DEF NothingThere, Stored
<1>2. user \in Stored /\ inbox \in Stored /\ words = BootWords(user, inbox)
  BY <1>1 DEF Init
<1>3. words \in Stored /\ \A n \in Names \ AppNames : words[n] = Boots(user, inbox, n)
  BY <1>2, BootAt
<1>4. TypeInv
  BY <1>2, <1>3 DEF Init, TypeInv
<1>5. RowsInv /\ AskInv /\ JobInv
  BY DEF Init, RowsInv, Shown, AskInv, JobInv
<1> QED BY <1>3, <1>4, <1>5 DEF WordsInv, IInv

\* The row selected is a name's, and says whether the user has it.
LEMMA SelectedIs ==
    ASSUME IInv, OnProgram
    PROVE  /\ page = "list" /\ Free /\ sel \in 1..Len(rows) /\ Selected.name \in Names
           /\ Selected.user <=> user[Selected.name] # 0
<1>1. page = "list" /\ Free /\ sel \in DOMAIN rows
  BY DEF OnProgram
<1>2. PICK card \in Stored : rows = Gather(user, card)
  BY <1>1 DEF IInv, RowsInv, Shown
<1>3. sel \in 1..Len(rows)
  BY <1>1, <1>2, RowAt
<1>4. PICK n \in There(user, card) : rows[sel] = Entry(user, card, n)
  BY <1>2, <1>3, RowAt
<1> QED BY <1>1, <1>3, <1>4, RankOf DEF Selected, There

\* Taking the rows again.
LEMMA Refreshed ==
    ASSUME NEW u, NEW i \in Stored, NEW n, sel \in Nat \ {0}, Refresh(u, i, n)
    PROVE  rows' = Gather(u, i) /\ ~behind' /\ sel' \in Nat \ {0}
<1> DEFINE rs == Gather(u, i)
<1>1. rows' = rs /\ ~behind'
  BY DEF Refresh
<1>2. Len(rs) \in Nat /\ DOMAIN rs = 1..Len(rs)
  BY RowAt
<1>3. sel' = IF RowOf(rs, n) # {} THEN CHOOSE k \in RowOf(rs, n) : TRUE ELSE Clamped(sel, rs)
  BY DEF Refresh
<1> HIDE DEF rs
<1>4. CASE RowOf(rs, n) # {}
  <2>1. sel' \in RowOf(rs, n)
    BY <1>3, <1>4
  <2> QED BY <1>1, <1>2, <2>1 DEF RowOf, rs
<1>5. CASE RowOf(rs, n) = {}
  <2>1. Clamped(sel, rs) \in Nat \ {0}
    BY <1>2 DEF Clamped
  <2> QED BY <1>1, <1>3, <1>5, <2>1 DEF rs
<1> QED BY <1>4, <1>5

\* With the stores and the words left alone, what is said of them stands.
LEMMA WordsStand ==
    ASSUME WordsInv, UNCHANGED <<user, inbox, words>>, here' = here, touched' = touched, job' = job
    PROVE  WordsInv'
  BY DEF WordsInv, Boots

LEMMA JobStands ==
    ASSUME JobInv, UNCHANGED <<user, inbox, words, touched, job>>
    PROVE  JobInv'
  BY DEF JobInv

-----------------------------------------------------------------------------
(* The page's own keys.                                                    *)

LEMMA PageStep ==
    ASSUME IInv, ListOpen \/ ListKey \/ ListCovered \/ ListUncovered \/ ListDropAsks
    PROVE  IInv'
<1>1. UNCHANGED <<user, inbox, words, here, touched, job, landed, usb>> /\ Free /\ editing' = editing
  BY DEF ListOpen, ListKey, ListCovered, ListUncovered, ListDropAsks, OnProgram, Stores, Session, Card
<1>2. WordsInv' /\ JobInv'
  BY <1>1, WordsStand, JobStands DEF IInv
<1>3. CASE ListOpen
  <2>1. page = "home" /\ page' = "list" /\ rows' = Gather(user, inbox) /\ sel' = 1 /\ asked' = asked
    BY <1>3 DEF ListOpen
  <2> QED BY <1>1, <1>2, <2>1 DEF IInv, TypeInv, RowsInv, AskInv
<1>4. CASE ListKey
  <2>1. asked' = 0 /\ page = "list"
    BY <1>4 DEF ListKey
  <2>2. CASE GoesHome
    BY <1>1, <1>2, <2>1, <2>2 DEF GoesHome, IInv, TypeInv, RowsInv, AskInv, Shown
  <2>3. CASE sel' \in 1..Len(rows) /\ UNCHANGED <<page, rows, behind>>
    <3>1. Len(rows) \in Nat
      BY <1>1, <2>1, RowAt DEF IInv, RowsInv, Shown
    <3>2. sel' \in Nat \ {0}
      BY <2>3, <3>1
    <3> QED BY <1>1, <1>2, <2>1, <2>3, <3>2 DEF IInv, TypeInv, RowsInv, AskInv, Shown, Free
  <2> QED BY <1>4, <2>2, <2>3 DEF ListKey
<1>5. CASE ListCovered
  <2>1. page = "list" /\ page' = "over" /\ asked' = 0 /\ UNCHANGED <<rows, sel, behind>>
    BY <1>5 DEF ListCovered
  <2> QED BY <1>1, <1>2, <2>1 DEF IInv, TypeInv, RowsInv, AskInv, Shown, Free
<1>6. CASE ListUncovered
  <2>1. page = "over" /\ asked' = asked
    BY <1>6 DEF ListUncovered
  <2>2. CASE GoesHome
    BY <1>1, <1>2, <2>1, <2>2 DEF GoesHome, IInv, TypeInv, RowsInv, AskInv, Shown
  <2>3. CASE page' = "list" /\ UNCHANGED <<rows, sel, behind>>
    BY <1>1, <1>2, <2>1, <2>3 DEF IInv, TypeInv, RowsInv, AskInv, Shown, Free
  <2> QED BY <1>6, <2>2, <2>3 DEF ListUncovered
<1>7. CASE ListDropAsks
  <2>1. OnProgram /\ Selected.user /\ asked' = Selected.name /\ UNCHANGED <<page, rows, sel, behind>>
    BY <1>7 DEF ListDropAsks
  <2>2. page = "list" /\ sel \in 1..Len(rows) /\ Selected.name \in Nat
    BY <2>1, SelectedIs, ProgramsAssumption
  <2> QED BY <1>1, <1>2, <2>1, <2>2 DEF IInv, TypeInv, RowsInv, AskInv, Shown, Free, Selected
<1> QED BY <1>3, <1>4, <1>5, <1>6, <1>7

-----------------------------------------------------------------------------
(* Dropping.                                                               *)

\* A program dropped leaves its word as a start would declare it.
LEMMA DropWords ==
    ASSUME IInv, NEW n \in Names, ProgramDrop(n), job = NoJob, job' = job
    PROVE  /\ user' \in Stored /\ words' \in Stored /\ WordsInv' /\ JobInv'
           /\ user'[n] = 0 /\ \A m \in Names \ {n} : user'[m] = user[m]
<1>1. /\ words' = RedeclareShadowed([words EXCEPT ![n] = 0], inbox, n)
      /\ here' = here \ {n} /\ user' = [user EXCEPT ![n] = 0] /\ UNCHANGED <<inbox, touched>>
  BY DEF ProgramDrop
<1>2. user \in Stored /\ inbox \in Stored /\ words \in Stored
  BY DEF IInv, TypeInv
<1>3. user' \in Stored /\ user'[n] = 0 /\ \A m \in Names \ {n} : user'[m] = user[m]
  BY <1>1, <1>2 DEF Stored
<1>4. /\ words' \in Stored /\ \A m \in Names \ {n} : words'[m] = words[m]
      /\ n \notin AppNames /\ inbox[n] \notin Bad =>
           words'[n] = IF Good(inbox[n]) THEN inbox[n] ELSE IF Good(System[n]) THEN System[n] ELSE 0
  BY <1>1, <1>2, RedeclaredAt
<1>5. WordsInv'
  <2> SUFFICES ASSUME NEW m \in Names \ (here' \cup touched \cup AppNames), inbox[m] \notin Bad
               PROVE  words'[m] = Boots(user', inbox, m)
    BY <1>1 DEF WordsInv, Boots
  <2>1. CASE m = n
    BY <1>3, <1>4, <2>1 DEF Boots, Good
  <2>2. CASE m # n
    <3>1. words[m] = Boots(user, inbox, m)
      BY <1>1, <2>2, ProgramsAssumption DEF IInv, WordsInv, NoJob
    <3> QED BY <1>3, <1>4, <2>2, <3>1 DEF Boots
  <2> QED BY <2>1, <2>2
<1> QED BY <1>3, <1>4, <1>5 DEF JobInv

LEMMA DropStep ==
    ASSUME IInv, ListDrop \/ \E n \in Names : NativeForget(n)
    PROVE  IInv'
<1>1. CASE ListDrop
  <2>1. /\ OnProgram /\ ProgramDrop(Selected.name) /\ asked' = 0 /\ job' = job /\ page' = page
        /\ editing' = editing
    BY <1>1 DEF ListDrop, Card
  <2>2. page = "list" /\ Free /\ Selected.name \in Names
    BY <2>1, SelectedIs
  <2>3. user' \in Stored /\ words' \in Stored /\ WordsInv' /\ JobInv'
    BY <2>1, <2>2, DropWords DEF Free
  <2>4. user' = [user EXCEPT ![Selected.name] = 0] /\ inbox' = inbox
    BY <2>1 DEF ProgramDrop
  <2>5. rows' = Gather(user', inbox) /\ sel' \in Nat \ {0}
    BY <1>1, <2>4, Refreshed DEF ListDrop, IInv, TypeInv
  <2> QED BY <2>1, <2>2, <2>3, <2>4, <2>5 DEF IInv, TypeInv, RowsInv, AskInv
<1>2. CASE \E n \in Names : NativeForget(n)
  <2>1. PICK n \in Names : NativeForget(n)
    BY <1>2
  <2>2. ProgramDrop(n) /\ Free /\ page = "home" /\ UNCHANGED <<job, page, editing, sel, asked, rows>>
    BY <2>1 DEF NativeForget, Screen
  <2>3. user' \in Stored /\ words' \in Stored /\ WordsInv' /\ JobInv' /\ inbox' = inbox
    BY <2>2, DropWords DEF Free, ProgramDrop
  <2> QED BY <2>2, <2>3 DEF IInv, TypeInv, RowsInv, AskInv, Shown
<1> QED BY <1>1, <1>2

-----------------------------------------------------------------------------
(* Copying and renaming.                                                   *)

\* A name nothing has, with a text put under it.
LEMMA NewName ==
    ASSUME IInv, NEW n \in Names, ~NameRefused(n)
    PROVE  user[n] = 0 /\ inbox[n] = 0 /\ System[n] = 0 /\ words[n] = 0
  BY DEF NameRefused, Nearest

LEMMA CopyStep == ASSUME IInv, NEW n \in Names, NEW rename \in BOOLEAN, Copy(n, rename) PROVE IInv'
<1> DEFINE from == Selected.name
           text == Nearest(user, inbox, from)
<1>1. /\ OnProgram /\ ~NameRefused(n) /\ text # 0 /\ user' = [user EXCEPT ![n] = text]
      /\ asked' = 0 /\ UNCHANGED <<inbox, touched, here, landed, usb, page, editing>>
      /\ rename => Selected.user
  BY DEF Copy, Card
<1>2. page = "list" /\ Free /\ from \in Names /\ (Selected.user <=> user[from] # 0)
  BY <1>1, SelectedIs
<1>3. user \in Stored /\ inbox \in Stored /\ words \in Stored /\ sel \in Nat \ {0}
  BY DEF IInv, TypeInv
<1>4. user[n] = 0 /\ inbox[n] = 0 /\ System[n] = 0 /\ words[n] = 0
  BY <1>1, NewName
<1>5. text \in Nat
  BY <1>2, <1>3, ProgramsAssumption DEF Nearest, Stored
<1>6. user' \in Stored /\ user'[n] = text /\ \A m \in Names \ {n} : user'[m] = user[m]
  BY <1>1, <1>3, <1>5 DEF Stored
<1>7. from # n
  BY <1>1, <1>4 DEF Nearest
<1> HIDE DEF text, from
<1>8. \A m \in Names \ (here \cup touched \cup AppNames \cup {n}) :
          inbox[m] \notin Bad => words[m] = Boots(user', inbox, m)
  BY <1>2, <1>6, ProgramsAssumption DEF IInv, WordsInv, Boots, Free, NoJob
<1>9. CASE rename
  <2>1. job' = [from |-> from, to |-> n] /\ UNCHANGED <<words, rows, sel>>
    BY <1>9 DEF Copy, from
  <2>2. job' # NoJob /\ job'.from = from /\ job'.to = n
    BY <2>1, ProgramsAssumption DEF NoJob
  <2>3. user[from] # 0 /\ text = user[from]
    BY <1>1, <1>2, <1>9 DEF text, Nearest
  <2>4. JobInv'
    BY <1>1, <1>2, <1>4, <1>6, <1>7, <2>1, <2>2, <2>3 DEF JobInv
  <2>5. WordsInv'
    BY <1>1, <1>8, <2>1, <2>2 DEF WordsInv, Boots
  <2>6. ~Free'
    BY <2>2 DEF Free
  <2> QED BY <1>1, <1>2, <1>3, <1>6, <2>1, <2>4, <2>5, <2>6 DEF IInv, TypeInv, RowsInv, Shown, AskInv
<1>10. CASE ~rename
  <2>1. /\ words' = Declared(words, n, Nearest(user', inbox, n)) /\ job' = job
        /\ Refresh(user', inbox, n)
    BY <1>10 DEF Copy, ProgramDeclares
  <2>2. Nearest(user', inbox, n) = text
    BY <1>1, <1>6 DEF Nearest
  <2>3. /\ words' \in Stored
        /\ \A m \in Names : words'[m] = IF m = n /\ Good(text) /\ n \notin AppNames THEN text ELSE words[m]
    BY <1>3, <1>5, <2>1, <2>2, DeclaredAt
  <2>4. WordsInv'
    <3> SUFFICES ASSUME NEW m \in Names \ (here \cup touched \cup AppNames), inbox[m] \notin Bad
                 PROVE  words'[m] = Boots(user', inbox, m)
      BY <1>1 DEF WordsInv, Boots
    <3>1. CASE m = n
      BY <1>4, <1>6, <2>3, <3>1 DEF Boots, Good
    <3>2. CASE m # n
      BY <1>8, <2>3, <3>2
    <3> QED BY <3>1, <3>2
  <2>5. rows' = Gather(user', inbox) /\ sel' \in Nat \ {0}
    BY <1>3, <2>1, Refreshed
  <2>6. JobInv'
    BY <1>2, <2>1 DEF JobInv, Free
  <2> QED BY <1>1, <1>2, <1>3, <1>6, <2>3, <2>4, <2>5, <2>6 DEF IInv, TypeInv, RowsInv, AskInv
<1> QED BY <1>9, <1>10

LEMMA RenameStep == ASSUME IInv, RenameDrop PROVE IInv'
<1> DEFINE u == [user EXCEPT ![job.from] = 0]
           w == RedeclareShadowed([words EXCEPT ![job.from] = 0], inbox, job.from)
           text == user[job.to]
<1>1. /\ job # NoJob /\ user' = u /\ words' = Declared(w, job.to, Nearest(u, inbox, job.to))
      /\ Refresh(u, inbox, job.to) /\ here' = here \ {job.from} /\ job' = NoJob
      /\ UNCHANGED <<inbox, touched, landed, usb, page, editing, asked>>
  BY DEF RenameDrop, ProgramDeclares, Card
<1>2. /\ job.from \in Names /\ job.to \in Names /\ job.from # job.to /\ text # 0
      /\ System[job.to] = 0
      /\ job.to \notin touched => inbox[job.to] = 0 /\ words[job.to] = 0
  BY <1>1 DEF IInv, JobInv
<1>3. user \in Stored /\ inbox \in Stored /\ words \in Stored /\ sel \in Nat \ {0}
  BY DEF IInv, TypeInv
<1>4. u \in Stored /\ u[job.from] = 0 /\ (\A m \in Names \ {job.from} : u[m] = user[m]) /\ text \in Nat
  BY <1>2, <1>3 DEF Stored
<1>5. /\ w \in Stored /\ \A m \in Names \ {job.from} : w[m] = words[m]
      /\ job.from \notin AppNames /\ inbox[job.from] \notin Bad =>
           w[job.from] = IF Good(inbox[job.from]) THEN inbox[job.from]
                         ELSE IF Good(System[job.from]) THEN System[job.from] ELSE 0
  BY <1>2, <1>3, RedeclaredAt
<1> HIDE DEF u, w
<1>6. Nearest(u, inbox, job.to) = text
  BY <1>2, <1>4 DEF Nearest
<1> HIDE DEF text
<1>7. /\ words' \in Stored
      /\ \A m \in Names : words'[m] =
             IF m = job.to /\ Good(text) /\ job.to \notin AppNames THEN text ELSE w[m]
  <2>1. words' = Declared(w, job.to, text)
    BY <1>1, <1>6
  <2> QED BY <1>2, <1>4, <1>5, <2>1, DeclaredAt
<1>8. WordsInv'
  <2> SUFFICES ASSUME NEW m \in Names \ (here' \cup touched \cup AppNames), inbox[m] \notin Bad
               PROVE  words'[m] = Boots(u, inbox, m)
    BY <1>1 DEF WordsInv, Boots
  <2>1. CASE m = job.from
    BY <1>2, <1>4, <1>5, <1>7, <2>1 DEF Boots, Good
  <2>2. CASE m = job.to
    BY <1>2, <1>4, <1>5, <1>7, <2>2 DEF Boots, Good, text
  <2>3. CASE m # job.from /\ m # job.to
    <3>1. words[m] = Boots(user, inbox, m)
      BY <1>1, <2>3 DEF IInv, WordsInv
    <3> QED BY <1>4, <1>5, <1>7, <2>3, <3>1 DEF Boots
  <2> QED BY <2>1, <2>2, <2>3
<1>9. rows' = Gather(user', inbox) /\ sel' \in Nat \ {0}
  BY <1>1, <1>3, Refreshed
<1>10. asked' = 0
  BY <1>1 DEF IInv, AskInv, Free
<1>11. JobInv'
  BY <1>1 DEF JobInv
<1> QED BY <1>1, <1>3, <1>4, <1>7, <1>8, <1>9, <1>10, <1>11 DEF IInv, TypeInv, RowsInv, AskInv

-----------------------------------------------------------------------------
(* The editor and the prompt.                                              *)

LEMMA EditStep ==
    ASSUME IInv, (\E n \in Names : EditOpen(n)) \/ EditLeave
    PROVE  IInv'
<1>1. UNCHANGED <<user, inbox, words, here, touched, job, landed, usb>> /\ Free
  BY DEF EditOpen, EditLeave, Stores, Session, Card
<1>2. WordsInv' /\ JobInv'
  BY <1>1, WordsStand, JobStands DEF IInv
<1>3. ASSUME NEW n \in Names, EditOpen(n) PROVE IInv'
  <2>1. /\ page \in {"home", "list"} /\ page' = "edit" /\ editing' = [name |-> n, back |-> page]
        /\ UNCHANGED <<rows, sel, behind>>
        /\ page = "list" => asked' = 0
        /\ page # "list" => asked' = asked
    BY <1>3 DEF EditOpen
  <2>2. asked' = 0
    BY <2>1 DEF IInv, AskInv
  <2>3. editing'.name \in Names /\ editing'.back \in {"home", "list"}
    BY <2>1
  <2> QED BY <1>1, <1>2, <2>1, <2>2, <2>3 DEF IInv, TypeInv, RowsInv, Shown, AskInv
<1>4. CASE EditLeave
  <2>1. page = "edit" /\ page' = editing.back /\ asked' = asked
    BY <1>4 DEF EditLeave
  <2>2. asked' = 0 /\ page' \in {"home", "list"}
    BY <2>1 DEF IInv, AskInv, TypeInv
  <2>3. CASE editing.back = "list"
    <3>1. rows' = Gather(user, inbox) /\ sel' \in Nat \ {0}
      BY <1>4, <2>3, Refreshed DEF EditLeave, IInv, TypeInv
    <3> QED BY <1>1, <1>2, <2>2, <3>1 DEF IInv, TypeInv, RowsInv, AskInv
  <2>4. CASE editing.back # "list"
    <3>1. sel' = sel /\ page' = "home"
      BY <1>4, <2>1, <2>2, <2>4 DEF EditLeave
    <3> QED BY <1>1, <1>2, <2>2, <3>1 DEF IInv, TypeInv, RowsInv, AskInv, Shown
  <2> QED BY <2>3, <2>4
<1> QED BY <1>3, <1>4

\* A step in the editor or at the prompt, with no rows on the page.
LEMMA Elsewhere ==
    ASSUME IInv, page \in {"home", "edit"}, UNCHANGED <<page, editing, sel, asked, job>>, Free,
           user' \in Stored, inbox' \in Stored, words' \in Stored, WordsInv'
    PROVE  IInv'
  BY DEF IInv, TypeInv, RowsInv, Shown, AskInv, JobInv, Free

LEMMA SaveStep ==
    ASSUME IInv, NEW t \in UserTexts, EditSave(t) \/ EditSaveFails(t)
    PROVE  IInv'
<1> DEFINE n == editing.name
<1>1. /\ page = "edit" /\ Free /\ t \notin Bad /\ words' = Declared(words, n, t) /\ inbox' = inbox
      /\ UNCHANGED <<page, editing, sel, asked, job>>
  BY DEF EditSave, EditSaveFails, Screen
<1>2. n \in Names /\ user \in Stored /\ inbox \in Stored /\ words \in Stored /\ t \in Nat /\ t # 0
  BY <1>1, ProgramsAssumption DEF IInv, TypeInv
<1> HIDE DEF n
<1>3. /\ words' \in Stored
      /\ \A m \in Names : words'[m] = IF m = n /\ Good(t) /\ n \notin AppNames THEN t ELSE words[m]
  BY <1>1, <1>2, DeclaredAt
<1>4. \A m \in Names \ (here \cup touched \cup AppNames) : inbox[m] \notin Bad => words[m] = Boots(user, inbox, m)
  BY <1>1, ProgramsAssumption DEF IInv, WordsInv, Free, NoJob
<1>5. CASE EditSave(t)
  <2>1. user' = [user EXCEPT ![n] = t] /\ here' = here \ {n} /\ touched' = touched
    BY <1>5 DEF EditSave, n
  <2>2. user' \in Stored /\ user'[n] = t /\ \A m \in Names \ {n} : user'[m] = user[m]
    BY <1>2, <2>1 DEF Stored
  <2>3. WordsInv'
    <3> SUFFICES ASSUME NEW m \in Names \ (here' \cup touched \cup AppNames), inbox[m] \notin Bad
                 PROVE  words'[m] = Boots(user', inbox, m)
      BY <1>1, <2>1 DEF WordsInv, Boots
    <3>1. CASE m = n
      BY <1>1, <1>2, <1>3, <2>2, <3>1 DEF Boots, Good
    <3>2. CASE m # n
      <4>1. words[m] = Boots(user, inbox, m)
        BY <1>4, <2>1, <3>2
      <4> QED BY <1>3, <2>2, <3>2, <4>1 DEF Boots
    <3> QED BY <3>1, <3>2
  <2> QED BY <1>1, <1>2, <1>3, <2>2, <2>3, Elsewhere
<1>6. CASE EditSaveFails(t)
  <2>1. user' = user /\ here' = here /\ touched' = touched \cup {n}
    BY <1>6 DEF EditSaveFails, n
  <2>2. WordsInv'
    BY <1>1, <1>3, <1>4, <2>1 DEF WordsInv, Boots
  <2> QED BY <1>1, <1>2, <1>3, <2>1, <2>2, Elsewhere
<1> QED BY <1>5, <1>6

LEMMA LineStep ==
    ASSUME IInv, NEW n \in Names, NEW t \in UserTexts, LineDeclares(n, t)
    PROVE  IInv'
<1>1. /\ page = "home" /\ Free /\ words' = [words EXCEPT ![n] = t] /\ UNCHANGED <<user, inbox>>
      /\ UNCHANGED <<page, editing, sel, asked, job>>
      /\ here' = (IF Cardinality(here) < QDOS_LINE_WORDS THEN here \cup {n} ELSE here)
      /\ touched' = IF n \in here' THEN touched ELSE touched \cup {n}
  BY DEF LineDeclares, Screen
<1>2. user \in Stored /\ inbox \in Stored /\ words \in Stored /\ t \in Nat
  BY ProgramsAssumption DEF IInv, TypeInv
<1>3. words' \in Stored /\ \A m \in Names \ {n} : words'[m] = words[m]
  BY <1>1, <1>2 DEF Stored
<1>4. here \subseteq here' /\ touched \subseteq touched' /\ n \in here' \cup touched'
  BY <1>1
<1>5. WordsInv'
  BY <1>1, <1>3, <1>4 DEF IInv, WordsInv, Boots
<1> QED BY <1>1, <1>2, <1>3, <1>5, Elsewhere

-----------------------------------------------------------------------------
(* The card.                                                               *)

LEMMA CardStep ==
    ASSUME IInv, NEW n \in Names, NEW t \in CardTexts \cup {0}, CardWritten(n, t)
    PROVE  IInv'
<1>1. /\ inbox' = [inbox EXCEPT ![n] = t] /\ touched' = touched \cup {n}
      /\ landed' = (IF usb THEN landed ELSE TRUE)
      /\ UNCHANGED <<user, words, here, page, editing, rows, sel, usb, job, asked, behind>>
  BY DEF CardWritten, Session, Screen
<1>2. inbox' \in Stored /\ \A m \in Names \ {n} : inbox'[m] = inbox[m]
  BY <1>1, ProgramsAssumption DEF IInv, TypeInv, Stored
<1>3. WordsInv'
  BY <1>1, <1>2 DEF IInv, WordsInv, Boots
<1>4. JobInv'
  BY <1>1, <1>2 DEF IInv, JobInv
<1>5. RowsInv'
  BY <1>1 DEF IInv, RowsInv, Shown, Free
<1>6. AskInv'
  BY <1>1 DEF IInv, AskInv, Free
<1> QED BY <1>1, <1>2, <1>3, <1>4, <1>5, <1>6 DEF IInv, TypeInv

\* Reading the card changes the words of what is on it, and no others.
LEMMA RereadWords ==
    ASSUME IInv, Free, Reread, UNCHANGED <<user, inbox, here, job>>
    PROVE  words' \in Stored /\ WordsInv' /\ JobInv'
<1>1. words' = Restored(words, inbox) /\ touched' = touched \cup {n \in Names : inbox[n] # 0}
  BY DEF Reread
<1>2. /\ words' \in Stored
      /\ \A n \in Names \ AppNames : words'[n] = IF Good(inbox[n]) THEN inbox[n] ELSE words[n]
  BY <1>1, RestoredAt DEF IInv, TypeInv
<1>3. WordsInv'
  BY <1>1, <1>2 DEF IInv, WordsInv, Boots, Good
<1> QED BY <1>2, <1>3 DEF JobInv, Free

LEMMA ReloadStep == ASSUME IInv, ReloadCard PROVE IInv'
<1>1. /\ Free /\ Reread /\ UNCHANGED <<user, inbox, here, job, page, editing, asked, usb>>
      /\ landed' = FALSE /\ ~usb
  BY DEF ReloadCard
<1>2. words' \in Stored /\ WordsInv' /\ JobInv'
  BY <1>1, RereadWords
<1>3. sel \in Nat \ {0} /\ inbox \in Stored
  BY DEF IInv, TypeInv
<1>4. CASE page = "list"
  <2>1. Refresh(user, inbox, 0)
    BY <1>4 DEF ReloadCard
  <2>2. rows' = Gather(user, inbox) /\ sel' \in Nat \ {0}
    BY <1>3, <2>1, Refreshed
  <2>3. AskInv'
    <3> SUFFICES ASSUME asked # 0
                 PROVE  sel' \in 1..Len(rows') /\ rows'[sel'].user /\ rows'[sel'].name = asked
      BY <1>1, <1>4 DEF AskInv, Free
    <3>1. PICK card \in Stored : rows = Gather(user, card)
      BY <1>1, <1>4 DEF IInv, RowsInv, Shown
    <3>2. sel \in 1..Len(rows) /\ rows[sel].user /\ rows[sel].name = asked
      BY DEF IInv, AskInv
    <3>3. sel \in 1..Len(rows') /\ rows'[sel].name = rows[sel].name /\ rows'[sel].user
      BY <2>2, <3>1, <3>2, UserRowsStay
    <3>4. RowOf(rows', 0) = {}
      <4> SUFFICES ASSUME NEW k \in DOMAIN rows', rows'[k].name = 0 PROVE FALSE
        BY DEF RowOf
      <4>1. PICK m \in There(user, inbox) : rows'[k] = Entry(user, inbox, m)
        BY <2>2, RowAt
      <4> QED BY <4>1, RankOf, ProgramsAssumption DEF There
    <3>5. sel' = Clamped(sel, rows')
      BY <2>1, <2>2, <3>4 DEF Refresh
    <3>6. sel <= Len(rows')
      BY <2>2, <3>3, RowAt
    <3>7. sel' = sel
      BY <3>5, <3>6 DEF Clamped
    <3> QED BY <3>2, <3>3, <3>7
  <2> QED BY <1>1, <1>2, <1>3, <1>4, <2>2, <2>3 DEF IInv, TypeInv, RowsInv
<1>5. CASE page # "list"
  <2>1. behind' = (behind \/ page = "over") /\ UNCHANGED <<rows, sel>>
    BY <1>5 DEF ReloadCard
  <2>2. page = "over" => behind'
    BY <2>1, Zenon
  <2>3. RowsInv'
    BY <1>1, <1>5, <2>1, <2>2 DEF IInv, RowsInv, Shown, Free
  <2> QED BY <1>1, <1>2, <1>3, <1>5, <2>1, <2>3 DEF IInv, TypeInv, AskInv
<1> QED BY <1>4, <1>5

LEMMA UsbStep == ASSUME IInv, UsbHand \/ UsbTake PROVE IInv'
<1>1. /\ Free /\ page \in {"over", "home"}
      /\ UNCHANGED <<user, inbox, here, page, editing, rows, sel, job, asked>>
  BY DEF UsbHand, UsbTake, Stores, Session, Screen
<1>2. CASE UsbHand
  <2>1. usb' = TRUE /\ UNCHANGED <<words, touched>>
    BY <1>2 DEF UsbHand, Stores, Session
  <2>2. WordsInv' /\ JobInv'
    BY <1>1, <2>1, WordsStand, JobStands DEF IInv
  <2> QED BY <1>1, <2>1, <2>2 DEF IInv, TypeInv, RowsInv, Shown, Free, AskInv
<1>3. CASE UsbTake
  <2>1. Reread /\ behind' = (behind \/ page = "over")
    BY <1>3 DEF UsbTake
  <2>2. words' \in Stored /\ WordsInv' /\ JobInv'
    BY <1>1, <2>1, RereadWords
  <2>3. page = "over" => behind'
    BY <2>1, Zenon
  <2> QED BY <1>1, <2>2, <2>3 DEF IInv, TypeInv, RowsInv, Shown, Free, AskInv
<1> QED BY <1>2, <1>3

LEMMA RestartStep == ASSUME IInv, Restart PROVE IInv'
<1>1. /\ words' = BootWords(user, inbox) /\ here' = {} /\ touched' = {} /\ job' = NoJob
      /\ page' = "home" /\ sel' = 1 /\ asked' = 0 /\ UNCHANGED <<user, inbox>>
  BY DEF Restart
<1>2. words' \in Stored /\ \A n \in Names \ AppNames : words'[n] = Boots(user, inbox, n)
  BY <1>1, BootAt DEF IInv, TypeInv
<1>3. WordsInv'
  BY <1>1, <1>2 DEF WordsInv, Boots
<1> QED BY <1>1, <1>2, <1>3 DEF IInv, TypeInv, RowsInv, Shown, AskInv, JobInv

LEMMA StepInv == ASSUME IInv, [Next]_vars PROVE IInv'
<1>1. CASE UNCHANGED vars
  <2>1. UNCHANGED <<user, inbox, words, here, page, editing, rows, sel, landed, usb, job, asked, touched, behind>>
    BY <1>1 DEF vars
  <2>2. WordsInv' /\ JobInv'
    BY <2>1, WordsStand, JobStands DEF IInv
  <2> QED BY <2>1, <2>2 DEF IInv, TypeInv, RowsInv, Shown, Free, AskInv
<1> QED
  BY <1>1, PageStep, DropStep, CopyStep, RenameStep, EditStep, SaveStep, LineStep, CardStep,
     ReloadStep, UsbStep, RestartStep DEF Next

-----------------------------------------------------------------------------
(* Theorems.                                                               *)

LEMMA Always == Spec => []IInv
  BY InitInv, StepInv, PTL DEF Spec

\* The words of the session are what a start would declare, through every drop,
\* rename, copy, save and card read: for any texts in any scope, those that do not
\* evaluate among the firmware's and the user's included.
THEOREM WordsAsAtBootCorrect == Spec => []WordsAsAtBoot
<1>1. IInv => WordsAsAtBoot
  <2> SUFFICES ASSUME IInv, Free,
                      NEW n \in Names \ (here \cup touched \cup AppNames), inbox[n] \notin Bad
               PROVE  words[n] = BootWords(user, inbox)[n]
    BY DEF WordsAsAtBoot
  <2>1. words[n] = Boots(user, inbox, n)
    BY ProgramsAssumption DEF IInv, WordsInv, Free, NoJob
  <2> QED BY <2>1, BootAt DEF IInv, TypeInv
<1> QED BY <1>1, Always, PTL

\* The APPS page shows what there is.
THEOREM RowsAreTrueCorrect == Spec => []RowsAreTrue
<1>1. IInv => RowsAreTrue
  BY DEF IInv, RowsInv, Shown, RowsAreTrue
<1> QED BY <1>1, Always, PTL

\* The user's text goes only by being forgotten, by a DEL that asked about it or by
\* a rename that has already put it under its new name, whatever landed on the card
\* between the question and the answer.
THEOREM GivenUpAsAskedCorrect == Spec => GivenUpAsAsked
<1> DEFINE Goes(n) == \/ NativeForget(n)
                      \/ ListDrop /\ asked \in {0, n}
                      \/ n = job.from /\ user[job.to] = user[n]
           Asked == \A n \in Names : user[n] # 0 /\ user'[n] = 0 => Goes(n)
<1>1. IInv /\ [Next]_vars => [Asked]_vars
  <2> SUFFICES ASSUME IInv, Next, NEW n \in Names, user[n] # 0, user'[n] = 0 PROVE Goes(n)
    BY DEF vars
  <2>1. user \in Stored
    BY DEF IInv, TypeInv
  <2>2. user' # user
    OBVIOUS
  <2>3. CASE ListDrop
    <3>1. OnProgram /\ user' = [user EXCEPT ![Selected.name] = 0]
      BY <2>3 DEF ListDrop, ProgramDrop
    <3>2. n = Selected.name
      BY <2>1, <3>1, SelectedIs DEF Stored
    <3>3. asked \in {0, n}
      BY <3>2 DEF IInv, AskInv, Selected
    <3> QED BY <2>3, <3>3
  <2>4. ASSUME NEW m \in Names, NativeForget(m) PROVE Goes(n)
    <3>1. user' = [user EXCEPT ![m] = 0]
      BY <2>4 DEF NativeForget, ProgramDrop
    <3>2. m = n
      BY <2>1, <3>1 DEF Stored
    <3> QED BY <2>4, <3>2
  <2>5. CASE RenameDrop
    <3>1. job # NoJob /\ user' = [user EXCEPT ![job.from] = 0]
      BY <2>5 DEF RenameDrop
    <3>2. n = job.from
      BY <2>1, <3>1 DEF Stored
    <3> QED BY <3>1, <3>2 DEF IInv, JobInv
  <2>6. ASSUME NEW m \in Names, NEW rename \in BOOLEAN, Copy(m, rename) PROVE FALSE
    <3>1. PICK t : t # 0 /\ user' = [user EXCEPT ![m] = t]
      BY <2>6 DEF Copy
    <3> QED BY <2>1, <3>1 DEF Stored
  <2>7. ASSUME NEW t \in UserTexts, EditSave(t) PROVE FALSE
    <3>1. user' = [user EXCEPT ![editing.name] = t] /\ t # 0
      BY <2>7, ProgramsAssumption DEF EditSave
    <3> QED BY <2>1, <3>1 DEF Stored
  <2> HIDE DEF Goes
  <2> QED
    BY <2>2, <2>3, <2>4, <2>5, <2>6, <2>7
       DEF Next, ListOpen, ListKey, ListCovered, ListUncovered, ListDropAsks, EditOpen,
           EditSaveFails, EditLeave, LineDeclares, CardWritten, ReloadCard, UsbHand, UsbTake,
           Restart, Stores
<1>2. Spec => [][Asked]_vars
  BY <1>1, Always, PTL DEF Spec
<1> QED BY <1>2 DEF GivenUpAsAsked
=============================================================================
