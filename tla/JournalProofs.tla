---------------------------- MODULE JournalProofs ----------------------------
(***************************************************************************)
(* For any number of processes, passes, limits and broken appends: the     *)
(* lock guards the unfinished line and the rotated file keeps its limits,  *)
(* what a reader finds is a tail of what was appended with each event      *)
(* once, and a completed pass whose start is known has all its actions.    *)
(* What the two files hold is described as a walk through the log; what a  *)
(* reader makes of it needs induction over the lines, which UpTo does for  *)
(* a set of numbers.                                                       *)
(***************************************************************************)
EXTENDS Journal, TLAPS, WellFoundedInduction, SequenceTheorems

Line == Event \cup {Garbage}

\* A set of numbers has a least one,
LEMMA LeastOf ==
  ASSUME NEW S \in SUBSET Nat, S # {}
  PROVE  \E m \in S : \A k \in S : m <= k
<1>1. PICK m \in S : \A k \in S : ~(<<k, m>> \in OpToRel(<, Nat))
  BY NatLessThanWellFounded, WFMin
<1>2. \A k \in S : ~(k < m)
  BY <1>1 DEF OpToRel
<1>3. QED
  BY <1>2

\* Induction over 0..n, for a set.
LEMMA UpTo ==
  ASSUME NEW n \in Nat, NEW S, 0 \in S, \A i \in 1..n : i - 1 \in S => i \in S
  PROVE  \A i \in 0..n : i \in S
<1> DEFINE missing == {i \in 0..n : i \notin S}
<1>1. SUFFICES ASSUME missing # {}
               PROVE  FALSE
  OBVIOUS
<1>2. missing \in SUBSET Nat
  OBVIOUS
<1>3. PICK m \in missing : \A k \in missing : m <= k
  <2> HIDE DEF missing
  <2>1. QED
    BY <1>1, <1>2, LeastOf
<1>4. m \in 1..n /\ m - 1 \in 0..n /\ m - 1 \notin missing
  BY <1>2, <1>3
<1>5. QED
  BY <1>3, <1>4

\* and a bounded one a greatest.
LEMMA GreatestOf ==
  ASSUME NEW n \in Nat, NEW S \in SUBSET (0..n), S # {}
  PROVE  \E m \in S : \A k \in S : k <= m
<1> DEFINE least == {i \in 0..n : n - i \in S}
<1>1. least \in SUBSET Nat /\ least # {}
  <2>1. PICK k \in S : TRUE
    OBVIOUS
  <2>2. k \in 0..n /\ n - k \in 0..n /\ n - (n - k) = k
    BY <2>1
  <2>3. n - k \in least
    BY <2>1, <2>2
  <2>4. least \in SUBSET Nat
    BY SMT
  <2>5. QED
    BY <2>3, <2>4
<1>2. PICK i \in least : \A j \in least : i <= j
  <2> HIDE DEF least
  <2>1. QED
    BY <1>1, LeastOf
<1>3. n - i \in S
  BY <1>2
<1>4. ASSUME NEW k \in S
      PROVE  k <= n - i
  <2>1. k \in 0..n /\ n - k \in 0..n /\ n - (n - k) = k
    OBVIOUS
  <2>2. n - k \in least
    BY <2>1
  <2>3. i <= n - k /\ i \in Nat
    BY <1>2, <2>2
  <2>4. QED
    BY <2>1, <2>3
<1>5. QED
  BY <1>3, <1>4

\* f begins with b and G[i] gives each further value from the one before it.
Follows(f, n, b, G) == f[0] = b /\ \A i \in 1..n : f[i] = G[i][f[i - 1]]

\* There is such a function.
LEMMA Recursion ==
  ASSUME NEW n \in Nat, NEW D, NEW b \in D, NEW G \in [1..n -> [D -> D]]
  PROVE  \E f \in [0..n -> D] : Follows(f, n, b, G)
<1> DEFINE Upto(k) == \E f \in [0..k -> D] : f[0] = b /\ \A i \in 1..k : f[i] = G[i][f[i - 1]]
<1>1. Upto(0)
  <2> DEFINE f == [i \in 0..0 |-> b]
  <2>1. f \in [0..0 -> D] /\ f[0] = b /\ \A i \in 1..0 : f[i] = G[i][f[i - 1]]
    OBVIOUS
  <2>2. QED
    BY <2>1
<1>2. \A k \in 1..n : Upto(k - 1) => Upto(k)
  <2>1. SUFFICES ASSUME NEW k \in 1..n, NEW f \in [0..(k - 1) -> D], f[0] = b,
                        \A i \in 1..(k - 1) : f[i] = G[i][f[i - 1]]
                 PROVE  Upto(k)
    OBVIOUS
  <2> DEFINE g == [i \in 0..k |-> IF i = k THEN G[k][f[k - 1]] ELSE f[i]]
  <2>2. G[k][f[k - 1]] \in D
    BY <2>1
  <2>3. g \in [0..k -> D]
    BY <2>1, <2>2
  <2>4. g[0] = b
    BY <2>1
  <2>5. \A i \in 1..k : g[i] = G[i][g[i - 1]]
    BY <2>1
  <2>6. QED
    BY <2>3, <2>4, <2>5
<1> DEFINE S == {k \in 0..n : Upto(k)}
<1> HIDE DEF Upto
<1>3. 0 \in S /\ \A i \in 1..n : i - 1 \in S => i \in S
  BY <1>1, <1>2
<1>4. n \in S
  <2> HIDE DEF S
  <2>1. \A i \in 0..n : i \in S
    BY <1>3, UpTo
  <2>2. QED
    BY <2>1
<1>5. QED
  BY <1>4 DEF Upto, Follows

-----------------------------------------------------------------------------
(* Lengths *)

\* No line is empty and none is longer than the file may be.
LEMMA LengthPositive ==
  ASSUME NEW line
  PROVE  Length(line) \in Nat /\ Length(line) > 0 /\ Length(line) <= MaxBytes
BY JournalAssumption, LineAssumption DEF Length

\* Size is a sum, line by line.
LEMMA SizeIs ==
  ASSUME NEW lines, Len(lines) \in Nat
  PROVE  \E sum \in [0..Len(lines) -> Nat] :
           /\ sum[0] = 0
           /\ \A i \in 1..Len(lines) : sum[i] = sum[i - 1] + Length(lines[i])
           /\ Size(lines) = sum[Len(lines)]
<1>1. PICK n \in Nat : n = Len(lines)
  OBVIOUS
<1> DEFINE Sums(s) == s = [i \in 0..n |-> IF i = 0 THEN 0 ELSE s[i - 1] + Length(lines[i])]
           G == [i \in 1..n |-> [d \in Nat |-> d + Length(lines[i])]]
           sum == CHOOSE s : Sums(s)
<1>2. PICK f \in [0..n -> Nat] : f[0] = 0 /\ \A i \in 1..n : f[i] = G[i][f[i - 1]]
  <2>1. PICK D : D = Nat
    OBVIOUS
  <2>2. 0 \in D /\ G \in [1..n -> [D -> D]]
    BY <2>1, LengthPositive
  <2> HIDE DEF G
  <2>3. \E f \in [0..n -> D] : Follows(f, n, 0, G)
    BY <2>2, Recursion
  <2>4. QED
    BY <2>1, <2>3 DEF Follows
<1>3. ASSUME NEW i \in 1..n
      PROVE  f[i - 1] \in Nat /\ f[i] = f[i - 1] + Length(lines[i])
  <2>1. i - 1 \in 0..n
    OBVIOUS
  <2>2. f[i - 1] \in Nat
    BY <2>1
  <2>3. QED
    BY <1>2, <2>2
<1>4. Sums(f)
  BY <1>2, <1>3
<1>5. Sums(sum)
  <2> HIDE DEF Sums
  <2>1. QED
    BY <1>4
<1>6. Size(lines) = sum[n]
  BY <1>1 DEF Size
<1> HIDE DEF sum
<1>7. /\ sum[0] = 0
      /\ \A i \in 1..n : sum[i] = sum[i - 1] + Length(lines[i])
  <2>1. sum = [i \in 0..n |-> IF i = 0 THEN 0 ELSE sum[i - 1] + Length(lines[i])]
    BY <1>5
  <2>2. QED
    BY <2>1
<1>8. \A i \in 0..n : sum[i] \in Nat
  <2> DEFINE S == {i \in 0..n : sum[i] \in Nat}
  <2>1. 0 \in S
    BY <1>7
  <2>2. ASSUME NEW i \in 1..n, i - 1 \in S
        PROVE  i \in S
    <3>1. sum[i - 1] \in Nat /\ Length(lines[i]) \in Nat
      BY <2>2, LengthPositive
    <3>2. QED
      BY <1>7, <3>1
  <2>3. \A i \in 0..n : i \in S
    <3> HIDE DEF S
    <3>1. QED
      BY <2>1, <2>2, UpTo
  <2>4. QED
    BY <2>3
<1>9. sum \in [0..n -> Nat]
  <2>1. sum = [i \in 0..n |-> sum[i]]
    BY <1>5
  <2>2. QED
    BY <1>8, <2>1
<1>10. QED
  BY <1>1, <1>6, <1>7, <1>9

LEMMA SizeNat ==
  ASSUME NEW lines, Len(lines) \in Nat
  PROVE  Size(lines) \in Nat
BY SizeIs

LEMMA SizeEmpty ==
  ASSUME NEW lines, Len(lines) = 0
  PROVE  Size(lines) = 0
BY SizeIs

LEMMA SizeOne ==
  ASSUME NEW lines, Len(lines) = 1
  PROVE  Size(lines) = Length(lines[1])
<1>1. PICK sum \in [0..1 -> Nat] :
        sum[0] = 0 /\ sum[1] = sum[0] + Length(lines[1]) /\ Size(lines) = sum[1]
  BY SizeIs
<1>2. QED
  BY <1>1, LengthPositive

\* A line more is its length more.
LEMMA SizeAppend ==
  ASSUME NEW S, NEW s \in Seq(S), NEW t \in Seq(S), Len(t) = Len(s) + 1,
         \A i \in 1..Len(s) : t[i] = s[i]
  PROVE  Size(t) = Size(s) + Length(t[Len(t)])
<1>1. PICK n \in Nat : n = Len(s) /\ Len(t) = n + 1
  OBVIOUS
<1>2. PICK f \in [0..n -> Nat] :
        f[0] = 0 /\ (\A i \in 1..n : f[i] = f[i - 1] + Length(s[i])) /\ Size(s) = f[n]
  BY <1>1, SizeIs
<1>3. PICK g \in [0..(n + 1) -> Nat] :
        g[0] = 0 /\ (\A i \in 1..(n + 1) : g[i] = g[i - 1] + Length(t[i])) /\ Size(t) = g[n + 1]
  BY <1>1, SizeIs
<1> DEFINE E == {i \in 0..n : f[i] = g[i]}
<1>4. 0 \in E
  BY <1>2, <1>3
<1>5. ASSUME NEW i \in 1..n, i - 1 \in E
      PROVE  i \in E
  <2>1. f[i] = f[i - 1] + Length(s[i])
    BY <1>2
  <2>2. g[i] = g[i - 1] + Length(t[i])
    BY <1>3
  <2>3. t[i] = s[i] /\ f[i - 1] = g[i - 1]
    BY <1>1, <1>5
  <2>4. QED
    BY <2>1, <2>2, <2>3
<1>6. \A i \in 0..n : i \in E
  <2> HIDE DEF E
  <2>1. QED
    BY <1>4, <1>5, UpTo
<1>7. f[n] = g[n]
  BY <1>6
<1>8. g[n + 1] = g[n] + Length(t[n + 1])
  BY <1>3
<1>9. QED
  BY <1>1, <1>2, <1>3, <1>7, <1>8

-----------------------------------------------------------------------------
(* The newest lines *)

\* The lines after the first k keep both limits.
Room(lines, k) ==
  Len(lines) - k <= MaxEvents /\ Size(SubSeq(lines, k + 1, Len(lines))) <= MaxBytes

\* The lines after the first k.
After(lines, k) == SubSeq(lines, k + 1, Len(lines))

LEMMA AfterIs ==
  ASSUME NEW S, NEW lines \in Seq(S), NEW k \in 0..Len(lines)
  PROVE  /\ After(lines, k) \in Seq(S)
         /\ Len(After(lines, k)) = Len(lines) - k
         /\ \A i \in 1..(Len(lines) - k) : After(lines, k)[i] = lines[k + i]
BY DEF After

\* What follows the first k lines, as a set.
LEMMA AfterHas ==
  ASSUME NEW S, NEW lines \in Seq(S), NEW k \in 0..Len(lines)
  PROVE  ToSet(After(lines, k)) = {lines[m] : m \in (k + 1)..Len(lines)}
<1>1. /\ DOMAIN After(lines, k) = 1..(Len(lines) - k)
      /\ \A i \in 1..(Len(lines) - k) : After(lines, k)[i] = lines[k + i]
  <2>1. After(lines, k) \in Seq(S) /\ Len(After(lines, k)) = Len(lines) - k
    BY AfterIs
  <2>2. DOMAIN After(lines, k) = 1..Len(After(lines, k))
    BY <2>1
  <2>3. QED
    BY <2>1, <2>2, AfterIs
<1>2. \A i \in 1..(Len(lines) - k) : k + i \in (k + 1)..Len(lines)
  OBVIOUS
<1>3. \A m \in (k + 1)..Len(lines) : m - k \in 1..(Len(lines) - k) /\ k + (m - k) = m
  OBVIOUS
<1>4. ASSUME NEW m \in (k + 1)..Len(lines)
      PROVE  lines[m] \in ToSet(After(lines, k))
  <2>1. m - k \in DOMAIN After(lines, k) /\ After(lines, k)[m - k] = lines[m]
    BY <1>1, <1>3
  <2>2. QED
    BY <2>1 DEF ToSet
<1>5. ASSUME NEW x \in ToSet(After(lines, k))
      PROVE  \E m \in (k + 1)..Len(lines) : x = lines[m]
  <2>1. PICK i \in DOMAIN After(lines, k) : x = After(lines, k)[i]
    BY DEF ToSet
  <2>2. k + i \in (k + 1)..Len(lines) /\ x = lines[k + i]
    BY <1>1, <1>2, <2>1
  <2>3. QED
    BY <2>2
<1>6. QED
  BY <1>4, <1>5

\* retain_newest_lines() returns a tail that keeps both limits, and no longer tail does.
LEMMA NewestIs ==
  ASSUME NEW S, NEW lines \in Seq(S)
  PROVE  \E k \in 0..Len(lines) :
           /\ Newest(lines, MaxEvents, MaxBytes) = After(lines, k)
           /\ Room(lines, k)
           /\ \A j \in 0..(k - 1) : ~Room(lines, j)
<1> DEFINE fitting == {k \in 0..Len(lines) : Room(lines, k)}
<1>1. Len(lines) \in fitting
  <2>1. Len(SubSeq(lines, Len(lines) + 1, Len(lines))) = 0
    OBVIOUS
  <2>2. Size(SubSeq(lines, Len(lines) + 1, Len(lines))) = 0
    BY <2>1, SizeEmpty
  <2>3. Len(lines) \in Nat
    OBVIOUS
  <2>4. QED
    BY <2>2, <2>3, JournalAssumption DEF Room
<1>2. PICK m \in fitting : \A k \in fitting : m <= k
  <2>1. fitting \in SUBSET Nat
    OBVIOUS
  <2> HIDE DEF fitting
  <2>2. QED
    BY <1>1, <2>1, LeastOf
<1> DEFINE First(k) == Room(lines, k) /\ \A j \in 0..(k - 1) : ~Room(lines, j)
           drop == CHOOSE k \in 0..Len(lines) : First(k)
<1>3. m \in 0..Len(lines) /\ First(m)
  <2>1. ASSUME NEW j \in 0..(m - 1)
        PROVE  ~Room(lines, j)
    BY <1>2
  <2>2. QED
    BY <1>2, <2>1
<1>4. drop \in 0..Len(lines) /\ First(drop)
  <2> HIDE DEF First
  <2>1. QED
    BY <1>3
<1>5. Newest(lines, MaxEvents, MaxBytes) = After(lines, drop)
  BY DEF Newest, Room, After
<1>6. QED
  <2> HIDE DEF drop
  <2>1. QED
    BY <1>4, <1>5

\* The newest line is always among them.
LEMMA NewestNotEmpty ==
  ASSUME NEW S, NEW lines \in Seq(S), lines # <<>>,
         NEW k \in 0..Len(lines), \A j \in 0..(k - 1) : ~Room(lines, j)
  PROVE  k < Len(lines)
<1>1. Len(lines) \in Nat \ {0}
  BY EmptySeq
<1>2. Len(SubSeq(lines, Len(lines), Len(lines))) = 1
  BY <1>1
<1>3. Size(SubSeq(lines, Len(lines), Len(lines))) <= MaxBytes
  BY <1>2, SizeOne, LengthPositive
<1>4. Room(lines, Len(lines) - 1)
  BY <1>1, <1>3, JournalAssumption DEF Room
<1>5. QED
  BY <1>1, <1>4

-----------------------------------------------------------------------------
(* The lock and the unfinished line *)

\* The values the variables take.
Types ==
  /\ rotated \in Seq(Line)
  /\ active \in Seq(Line)
  /\ log \in Seq(Line)
  /\ tail = <<>> \/ \E line \in Line : tail = <<line>>
  /\ writer \in Procs \cup {Nobody}
  /\ phase \in {"free", "part", "glued", "whole", "rotating", "renamed"}
  /\ pc \in [Procs -> {"idle", "cleared", "open", "executed"}]
  /\ passes \in [Procs -> Nat]
  /\ total \in [Procs -> Nat]
  /\ seq \in [Procs -> Nat]

\* What the lock, the phase, the unfinished line and the histories say of each other.
Locked ==
  /\ writer = Nobody <=> phase = "free"
  /\ \A p \in Procs : writer = p => pc[p] \in {"cleared", "executed"}
  /\ phase \in {"part", "glued"} => tail = <<Garbage>>
  /\ \A p \in Procs : (writer = p /\ phase = "whole") => tail \in {<<Garbage>>, <<NextEvent(p)>>}
  /\ phase \in {"rotating", "renamed"} => tail = <<>>
  /\ (tail # <<>> /\ writer = Nobody) => torn

\* Only lines that were glued together are garbage.
Clean ==
  ~torn => /\ phase # "glued"
           /\ \A p \in Procs : (writer = p /\ phase = "whole") => tail = <<NextEvent(p)>>
           /\ \A n \in DOMAIN log : log[n] # Garbage

\* The limits of the rotated file.
Limited == Len(rotated) <= MaxEvents /\ Size(rotated) <= MaxBytes

LEMMA NextEventIsEvent ==
  ASSUME Types, NEW p \in Procs
  PROVE  NextEvent(p) \in Event /\ NextEvent(p) # Garbage
<1>1. /\ passes[p] \in Nat
      /\ total[p] \in Nat
      /\ seq[p] \in Nat
  BY DEF Types
<1>2. (CASE seq[p] = 0 -> "start" [] seq[p] > total[p] -> "summary" [] OTHER -> "action")
        \in {"start", "action", "summary"}
  BY <1>1
<1>3. NextEvent(p) \in Event
  BY <1>1, <1>2 DEF NextEvent, Event, Pass
<1>4. QED
  BY <1>3, JournalAssumption

\* The unfinished line is none or one.
LEMMA TailIs ==
  ASSUME Types
  PROVE  tail \in Seq(Line) /\ (tail = <<>> \/ (Len(tail) = 1 /\ tail = <<tail[1]>>))
<1>1. CASE tail = <<>>
  BY <1>1
<1>2. CASE \E line \in Line : tail = <<line>>
  <2>1. PICK line \in Line : tail = <<line>>
    BY <1>2
  <2>2. QED
    BY <2>1
<1>3. QED
  BY <1>1, <1>2 DEF Types

\* What a step leaves alone keeps Types and Locked.
LEMMA LockedStep ==
  ASSUME Types, Locked, [Next]_vars
  PROVE  Types' /\ Locked'
<1> USE JournalAssumption
<1>1. ASSUME NEW p \in Procs, StartPass(p)
      PROVE  Types' /\ Locked'
  BY <1>1 DEF StartPass, Types, Locked, fileVars, lockVars
<1>2. ASSUME NEW p \in Procs, Execute(p)
      PROVE  Types' /\ Locked'
  <2>1. writer # p
    BY <1>2 DEF Execute, Locked
  <2>2. UNCHANGED <<rotated, active, tail, writer, phase, passes, seq, torn, log>>
    BY <1>2 DEF Execute, fileVars, lockVars
  <2>3. PICK n \in Targets : total' = [total EXCEPT ![p] = n]
    BY <1>2 DEF Execute
  <2>4. pc' = [pc EXCEPT ![p] = "executed"]
    BY <1>2 DEF Execute
  <2>5. Types'
    BY <2>2, <2>3, <2>4 DEF Types
  <2>6. \A q \in Procs : q # p => NextEvent(q)' = NextEvent(q)
    BY <2>2, <2>3 DEF NextEvent, Pass, Types
  <2>7. \A q \in Procs : q # p => pc'[q] = pc[q]
    BY <2>4 DEF Types
  <2>8. QED
    BY <2>1, <2>2, <2>5, <2>6, <2>7 DEF Locked
<1>3. ASSUME NEW p \in Procs, BeginAppend(p)
      PROVE  Types' /\ Locked'
  <2>1. Types'
    BY <1>3 DEF BeginAppend, Types, Line, passVars
  <2>2. QED
    BY <1>3, <2>1 DEF BeginAppend, Types, Locked, passVars
<1>4. ASSUME NEW p \in Procs, WriteEvent(p)
      PROVE  Types' /\ Locked'
  <2>1. NextEvent(p)' = NextEvent(p)
    BY <1>4 DEF WriteEvent, passVars, NextEvent, Pass
  <2>2. tail' \in {<<Garbage>>, <<NextEvent(p)>>}
    BY <1>4 DEF WriteEvent
  <2>3. UNCHANGED <<rotated, active, log, writer, pc, passes, total, seq>> /\ phase' = "whole"
    BY <1>4 DEF WriteEvent, passVars
  <2>4. Types'
    BY <2>2, <2>3, NextEventIsEvent DEF Types, Line
  <2>5. writer = p
    BY <1>4 DEF WriteEvent, Appending
  <2>6. QED
    BY <2>1, <2>2, <2>3, <2>4, <2>5 DEF Locked
<1>5. ASSUME NEW p \in Procs, EndLine(p)
      PROVE  Types' /\ Locked'
  <2>1. /\ writer = p /\ phase = "whole" /\ tail' = <<>> /\ rotated' = rotated
        /\ active' = active \o tail /\ log' = log \o tail
        /\ passes' = passes /\ total' = total
    BY <1>5 DEF EndLine, Appending, Advance, passVars
  <2>2. tail \in Seq(Line)
    BY TailIs
  <2>3. active' \in Seq(Line) /\ log' \in Seq(Line)
    BY <2>1, <2>2 DEF Types
  <2>4. \/ phase' = "rotating" /\ writer' = writer /\ pc' = pc /\ seq' = seq
        \/ /\ writer' = Nobody /\ phase' = "free" /\ seq' = [seq EXCEPT ![p] = @ + 1]
           /\ pc' = [pc EXCEPT ![p] = IF seq[p] = 0 THEN "open"
                                      ELSE IF seq[p] > total[p] THEN "idle" ELSE "executed"]
    BY <1>5 DEF EndLine, Advance, passVars
  <2>5. /\ writer' \in Procs \cup {Nobody}
        /\ phase' \in {"free", "part", "glued", "whole", "rotating", "renamed"}
        /\ pc' \in [Procs -> {"idle", "cleared", "open", "executed"}]
        /\ seq' \in [Procs -> Nat]
    <3>1. CASE phase' = "rotating" /\ writer' = writer /\ pc' = pc /\ seq' = seq
      BY <3>1 DEF Types
    <3>2. CASE /\ writer' = Nobody /\ phase' = "free" /\ seq' = [seq EXCEPT ![p] = @ + 1]
               /\ pc' = [pc EXCEPT ![p] = IF seq[p] = 0 THEN "open"
                                          ELSE IF seq[p] > total[p] THEN "idle" ELSE "executed"]
      BY <3>2 DEF Types
    <3>3. QED
      BY <2>4, <3>1, <3>2
  <2>6. Types'
    BY <2>1, <2>3, <2>5 DEF Types
  <2>7. QED
    BY <2>1, <2>4, <2>6 DEF Locked
<1>6. ASSUME NEW p \in Procs, RenameRotated(p)
      PROVE  Types' /\ Locked'
  <2>1. rotated \o active \in Seq(Line)
    BY DEF Types
  <2>2. rotated' \in Seq(Line)
    <3>1. PICK k \in 0..Len(rotated \o active) : rotated' = After(rotated \o active, k)
      BY <1>6, <2>1, NewestIs DEF RenameRotated
    <3>2. QED
      BY <2>1, <3>1, AfterIs
  <2>3. UNCHANGED <<active, tail, log, writer, pc, passes, total, seq>> /\ phase' = "renamed"
    BY <1>6 DEF RenameRotated, passVars
  <2>4. writer = p /\ phase = "rotating"
    BY <1>6 DEF RenameRotated, Appending
  <2>5. QED
    BY <2>2, <2>3, <2>4 DEF Types, Locked
<1>7. ASSUME NEW p \in Procs, TruncateActive(p)
      PROVE  Types' /\ Locked'
  <2>1. /\ writer = p /\ phase = "renamed" /\ active' = <<>>
        /\ UNCHANGED <<rotated, tail, log, passes, total>>
        /\ writer' = Nobody /\ phase' = "free" /\ seq' = [seq EXCEPT ![p] = @ + 1]
        /\ pc' = [pc EXCEPT ![p] = IF seq[p] = 0 THEN "open"
                                   ELSE IF seq[p] > total[p] THEN "idle" ELSE "executed"]
    BY <1>7 DEF TruncateActive, Appending, Advance
  <2>2. Types'
    BY <2>1 DEF Types
  <2>3. QED
    BY <2>1, <2>2 DEF Locked
<1>8. ASSUME NEW p \in Procs, BreakOff(p)
      PROVE  Types' /\ Locked'
  <2>1. /\ UNCHANGED <<rotated, active, tail, passes, total, seq, log>>
        /\ pc' = [pc EXCEPT ![p] = "idle"]
        /\ IF writer = p THEN writer' = Nobody /\ phase' = "free" ELSE UNCHANGED <<writer, phase>>
        /\ torn' = (torn \/ (writer = p /\ tail # <<>>))
    BY <1>8 DEF BreakOff, Appending, fileVars, lockVars
  <2>2. Types'
    BY <2>1 DEF Types
  <2>3. \A q \in Procs : NextEvent(q)' = NextEvent(q)
    BY <2>1 DEF NextEvent, Pass
  <2>4. \A q \in Procs : q # p => pc'[q] = pc[q]
    BY <2>1 DEF Types
  <2>5. QED
    BY <2>1, <2>2, <2>3, <2>4 DEF Locked
<1>9. CASE UNCHANGED vars
  BY <1>9 DEF vars, fileVars, lockVars, passVars, Types, Locked, NextEvent, Pass
<1>10. QED
  BY <1>1, <1>2, <1>3, <1>4, <1>5, <1>6, <1>7, <1>8, <1>9 DEF Next

\* A rotation keeps the limits, and nothing else writes the rotated file.
LEMMA LimitedStep ==
  ASSUME Types, Limited, [Next]_vars
  PROVE  Limited'
<1>1. CASE UNCHANGED rotated
  BY <1>1 DEF Limited
<1>2. ASSUME NEW p \in Procs, RenameRotated(p)
      PROVE  Limited'
  <2>1. rotated \o active \in Seq(Line)
    BY DEF Types
  <2>2. PICK k \in 0..Len(rotated \o active) :
          rotated' = After(rotated \o active, k) /\ Room(rotated \o active, k)
    BY <1>2, <2>1, NewestIs DEF RenameRotated
  <2>3. Len(rotated') = Len(rotated \o active) - k
    BY <2>1, <2>2, AfterIs
  <2>4. Size(rotated') <= MaxBytes
    BY <2>2 DEF Room, After
  <2>5. QED
    BY <2>2, <2>3, <2>4 DEF Limited, Room
<1>3. UNCHANGED rotated \/ \E p \in Procs : RenameRotated(p)
  BY DEF Next, StartPass, Execute, BeginAppend, WriteEvent, EndLine, TruncateActive, BreakOff,
         vars, fileVars
<1>4. QED
  BY <1>1, <1>2, <1>3

\* Nothing is glued until an append leaves an unfinished line.
LEMMA CleanStep ==
  ASSUME Types, Locked, Clean, [Next]_vars
  PROVE  Clean'
<1> USE JournalAssumption
<1>1. CASE torn'
  BY <1>1 DEF Clean
<1>2. CASE UNCHANGED <<writer, phase, tail, torn, log, passes, total, seq>>
  BY <1>2 DEF Clean, NextEvent, Pass
<1>3. ASSUME NEW p \in Procs, Execute(p), ~torn'
      PROVE  Clean'
  <2>1. writer # p /\ UNCHANGED <<writer, phase, tail, torn, log, passes, seq>>
    BY <1>3 DEF Execute, Locked, fileVars, lockVars
  <2>2. \A q \in Procs : q # p => NextEvent(q)' = NextEvent(q)
    BY <1>3, <2>1 DEF Execute, NextEvent, Pass, Types
  <2>3. QED
    BY <1>3, <2>1, <2>2 DEF Clean
<1>4. ASSUME NEW p \in Procs, StartPass(p), ~torn'
      PROVE  Clean'
  BY <1>4 DEF StartPass, Clean, fileVars, lockVars
<1>5. ASSUME NEW p \in Procs, BeginAppend(p), ~torn'
      PROVE  Clean'
  BY <1>5 DEF BeginAppend, Clean, Locked
<1>6. ASSUME NEW p \in Procs, WriteEvent(p), ~torn'
      PROVE  Clean'
  <2>1. NextEvent(p)' = NextEvent(p)
    BY <1>6 DEF WriteEvent, passVars, NextEvent, Pass
  <2>2. phase = "part" /\ writer = p /\ writer' = writer /\ log' = log /\ phase' = "whole"
    BY <1>6 DEF WriteEvent, Clean, Appending
  <2>3. tail' = <<NextEvent(p)>>
    BY <1>6, <2>2 DEF WriteEvent
  <2>4. QED
    BY <1>6, <2>1, <2>2, <2>3 DEF WriteEvent, Clean
<1>7. ASSUME NEW p \in Procs, EndLine(p), ~torn'
      PROVE  Clean'
  <2>1. writer = p /\ phase = "whole" /\ log' = log \o tail /\ ~torn /\ phase' \in {"rotating", "free"}
    BY <1>7 DEF EndLine, Appending, Advance
  <2>2. tail = <<NextEvent(p)>> /\ NextEvent(p) # Garbage
    BY <2>1, NextEventIsEvent DEF Clean
  <2>3. \A n \in DOMAIN log' : log'[n] # Garbage
    BY <2>1, <2>2 DEF Clean, Types
  <2>4. QED
    BY <2>1, <2>3 DEF Clean
<1>8. ASSUME NEW p \in Procs, RenameRotated(p) \/ TruncateActive(p), ~torn'
      PROVE  Clean'
  BY <1>8 DEF RenameRotated, TruncateActive, Advance, Clean
<1>9. ASSUME NEW p \in Procs, BreakOff(p), ~torn'
      PROVE  Clean'
  <2>1. UNCHANGED <<tail, passes, total, seq, log>> /\ ~torn
    BY <1>9 DEF BreakOff, fileVars
  <2>2. UNCHANGED <<writer, phase>> \/ phase' = "free"
    BY <1>9 DEF BreakOff, lockVars
  <2>3. QED
    BY <2>1, <2>2 DEF Clean, NextEvent, Pass
<1>10. QED
  BY <1>1, <1>2, <1>3, <1>4, <1>5, <1>6, <1>7, <1>8, <1>9
     DEF Next, vars, fileVars, lockVars, passVars

\* The lock, the phase and the unfinished line belong together, and the rotated file keeps
\* both limits, whatever breaks off in between: append() and rotate_if_needed() of
\* activity.rs.
THEOREM JournalTypes == Spec => []TypeOK
<1> DEFINE Inv == Types /\ Locked /\ Limited
<1>1. Init => Inv
  <2>1. ASSUME Init
        PROVE  Types /\ Locked
    BY <2>1, JournalAssumption DEF Init, Types, Locked
  <2>2. ASSUME Init
        PROVE  Limited
    BY <2>2, SizeEmpty, JournalAssumption DEF Init, Limited
  <2>3. QED
    BY <2>1, <2>2
<1>2. Inv /\ [Next]_vars => Inv'
  BY LockedStep, LimitedStep
<1>3. Inv => TypeOK
  BY DEF Types, Locked, Limited, TypeOK
<1>4. QED
  BY <1>1, <1>2, <1>3, PTL DEF Spec

-----------------------------------------------------------------------------
(* What stands in the files: a walk through the log *)

\* idx is where each line stands in h: from a line to the next it goes forward by at
\* most one, and it ends at the end of h.
Places(idx, lines, h) ==
  /\ idx \in [1..Len(lines) -> 1..Len(h)]
  /\ \A i \in 1..Len(lines) : lines[i] = h[idx[i]]
  /\ \A i \in 1..(Len(lines) - 1) : idx[i + 1] <= idx[i] + 1
  /\ Len(lines) # 0 => idx[Len(lines)] = Len(h)

Walk(lines, h) == \E idx : Places(idx, lines, h)

\* The same line at the end of both.
LEMMA WalkAppend ==
  ASSUME NEW lines, NEW h, NEW lines2, NEW h2, Walk(lines, h),
         Len(lines) \in Nat, Len(h) \in Nat,
         Len(lines2) = Len(lines) + 1, \A i \in 1..Len(lines) : lines2[i] = lines[i],
         Len(h2) = Len(h) + 1, \A i \in 1..Len(h) : h2[i] = h[i],
         lines2[Len(lines2)] = h2[Len(h2)]
  PROVE  Walk(lines2, h2)
<1>1. PICK n \in Nat, m \in Nat : n = Len(lines) /\ m = Len(h)
  OBVIOUS
<1>2. PICK idx : Places(idx, lines, h)
  BY DEF Walk
<1> DEFINE new == [i \in 1..(n + 1) |-> IF i = n + 1 THEN m + 1 ELSE idx[i]]
<1>3. new \in [1..(n + 1) -> 1..(m + 1)]
  BY <1>1, <1>2 DEF Places
<1>4. \A i \in 1..(n + 1) : lines2[i] = h2[new[i]]
  BY <1>1, <1>2 DEF Places
<1>5. \A i \in 1..n : new[i + 1] <= new[i] + 1
  BY <1>1, <1>2 DEF Places
<1>6. new[n + 1] = m + 1
  OBVIOUS
<1>7. Places(new, lines2, h2)
  <2> HIDE DEF new
  <2>1. QED
    BY <1>1, <1>3, <1>4, <1>5, <1>6 DEF Places
<1>8. QED
  BY <1>7 DEF Walk

\* The last lines of a walk, and after them the last of these again.
LEMMA WalkRepeat ==
  ASSUME NEW lines, NEW h, NEW lines2, Walk(lines, h), Len(lines) \in Nat, Len(h) \in Nat,
         NEW k \in 0..Len(lines), NEW r \in 0..Len(lines),
         Len(lines2) = Len(lines) - k + r,
         \A i \in 1..(Len(lines) - k) : lines2[i] = lines[k + i],
         \A i \in 1..r : lines2[Len(lines) - k + i] = lines[Len(lines) - r + i]
  PROVE  Walk(lines2, h)
<1>1. PICK n \in Nat, m \in Nat : n = Len(lines) /\ m = Len(h) /\ k \in 0..n /\ r \in 0..n
  OBVIOUS
<1>2. PICK idx : Places(idx, lines, h)
  BY DEF Walk
<1>3. /\ idx \in [1..n -> 1..m]
      /\ \A i \in 1..n : lines[i] = h[idx[i]]
      /\ \A i \in 1..(n - 1) : idx[i + 1] <= idx[i] + 1
      /\ n # 0 => idx[n] = m
  BY <1>1, <1>2 DEF Places
<1> DEFINE new == [i \in 1..(n - k + r) |-> IF i <= n - k THEN idx[k + i] ELSE idx[i + k - r]]
<1>4. new \in [1..(n - k + r) -> 1..m]
  <2>1. ASSUME NEW i \in 1..(n - k + r)
        PROVE  new[i] \in 1..m
    <3>1. CASE i <= n - k
      BY <1>1, <1>3, <3>1
    <3>2. CASE i > n - k
      <4>1. i + k - r \in 1..n
        BY <1>1, <3>2
      <4>2. idx[i + k - r] \in 1..m
        BY <1>3, <4>1
      <4>3. new[i] = idx[i + k - r]
        BY <1>1, <3>2
      <4>4. QED
        BY <4>2, <4>3
    <3>3. QED
      BY <1>1, <3>1, <3>2
  <2>2. QED
    BY <2>1
<1>5. \A i \in 1..(n - k + r) : lines2[i] = h[new[i]]
  <2>1. SUFFICES ASSUME NEW i \in 1..(n - k + r)
                 PROVE  lines2[i] = h[new[i]]
    OBVIOUS
  <2>2. CASE i <= n - k
    BY <1>1, <1>3, <2>2
  <2>3. CASE i > n - k
    <3> DEFINE j == i - (n - k)
    <3>1. j \in 1..r /\ i = n - k + j /\ i + k - r = n - r + j /\ n - r + j \in 1..n
      BY <1>1, <2>3
    <3> HIDE DEF j
    <3>2. lines2[i] = lines[n - r + j]
      BY <1>1, <3>1
    <3>3. new[i] = idx[n - r + j]
      BY <1>1, <2>3, <3>1
    <3>4. QED
      BY <1>3, <3>1, <3>2, <3>3
  <2>4. QED
    BY <1>1, <2>2, <2>3
<1>6. \A i \in 1..(n - k + r - 1) : new[i + 1] <= new[i] + 1
  <2>1. SUFFICES ASSUME NEW i \in 1..(n - k + r - 1)
                 PROVE  new[i + 1] <= new[i] + 1
    OBVIOUS
  <2>2. CASE i < n - k
    <3>1. k + i \in 1..(n - 1) /\ (k + i) + 1 = k + (i + 1) /\ i + 1 \in 1..(n - k + r)
      BY <1>1, <2>2
    <3>2. new[i] = idx[k + i] /\ new[i + 1] = idx[k + (i + 1)]
      BY <1>1, <2>2, <3>1
    <3>3. idx[(k + i) + 1] <= idx[k + i] + 1
      BY <1>3, <3>1
    <3>4. QED
      <4> HIDE DEF new
      <4>1. QED
        BY <3>1, <3>2, <3>3
  <2>3. CASE i = n - k
    <3>1. n # 0 /\ n - k + r \in Nat /\ i + 1 \in 1..(n - k + r)
      BY <1>1, <2>3
    <3>2. new[i] = idx[n]
      BY <1>1, <2>3
    <3>3. new[i + 1] \in 1..m
      <4> HIDE DEF new
      <4>1. QED
        BY <1>4, <3>1
    <3>4. QED
      <4> HIDE DEF new
      <4>1. QED
        BY <1>3, <3>1, <3>2, <3>3
  <2>4. CASE i > n - k
    <3>1. i + k - r \in 1..(n - 1) /\ (i + k - r) + 1 = (i + 1) + k - r
      BY <1>1, <2>4
    <3>2. QED
      BY <1>1, <1>3, <2>4, <3>1
  <2>5. QED
    BY <1>1, <2>2, <2>3, <2>4
<1>7. n - k + r # 0 => new[n - k + r] = m
  BY <1>1, <1>3
<1>8. Places(new, lines2, h)
  <2> HIDE DEF new
  <2>1. QED
    BY <1>1, <1>4, <1>5, <1>6, <1>7 DEF Places
<1>9. QED
  BY <1>8 DEF Walk

\* From i to j a walk passes every place between the two.
LEMMA WalkPasses ==
  ASSUME NEW lines, NEW h, NEW idx, Places(idx, lines, h), Len(lines) \in Nat, Len(h) \in Nat,
         NEW i \in 1..Len(lines), NEW j \in i..Len(lines),
         NEW m \in Nat, idx[i] <= m, m <= idx[j]
  PROVE  \E q \in i..j : idx[q] = m
<1>1. PICK n \in Nat : n = Len(lines)
  OBVIOUS
<1> DEFINE S == {q \in i..j : idx[q] <= m}
<1>2. S \in SUBSET (0..n) /\ S # {}
  BY <1>1
<1>3. PICK q \in S : \A k \in S : k <= q
  <2> HIDE DEF S
  <2>1. QED
    BY <1>2, GreatestOf
<1>4. q \in i..j /\ idx[q] <= m /\ idx[q] \in Nat
  <2>1. q \in i..j /\ q \in 1..Len(lines)
    OBVIOUS
  <2>2. QED
    BY <2>1 DEF Places
<1>5. CASE q = j
  BY <1>4, <1>5
<1>6. CASE q # j
  <2>1. q + 1 \in i..j /\ q + 1 \notin S /\ q \in 1..(n - 1)
    BY <1>1, <1>3, <1>4, <1>6
  <2>2. ~(idx[q + 1] <= m)
    BY <2>1
  <2>3. idx[q + 1] <= idx[q] + 1 /\ idx[q + 1] \in Nat
    <3>1. q + 1 \in 1..Len(lines) /\ q \in 1..(Len(lines) - 1)
      BY <1>1, <2>1
    <3>2. QED
      BY <3>1 DEF Places
  <2>4. QED
    BY <1>4, <2>2, <2>3
<1>7. QED
  BY <1>5, <1>6

-----------------------------------------------------------------------------
(* As far back as the limits allow *)

\* lines is what follows the first k lines of h, and nothing longer keeps the limits.
Follow(k, lines, h) ==
  /\ k \in 0..Len(h)
  /\ Len(lines) = Len(h) - k
  /\ \A i \in 1..Len(lines) : lines[i] = h[k + i]
  /\ \A j \in 0..(k - 1) : ~Room(h, j)

Recent(lines, h) == \E k : Follow(k, lines, h)

\* What does not fit does not fit with one line more.
LEMMA RoomShrinks ==
  ASSUME NEW S, NEW h \in Seq(S), NEW h2 \in Seq(S), Len(h2) = Len(h) + 1,
         \A i \in 1..Len(h) : h2[i] = h[i],
         NEW j \in 0..Len(h), Room(h2, j)
  PROVE  Room(h, j)
<1>1. j \in 0..Len(h2) /\ Len(h) \in Nat
  OBVIOUS
<1>2. /\ After(h, j) \in Seq(S)
      /\ Len(After(h, j)) = Len(h) - j
      /\ \A i \in 1..(Len(h) - j) : After(h, j)[i] = h[j + i]
  BY AfterIs
<1>3. /\ After(h2, j) \in Seq(S)
      /\ Len(After(h2, j)) = Len(h2) - j
      /\ \A i \in 1..(Len(h2) - j) : After(h2, j)[i] = h2[j + i]
  BY <1>1, AfterIs
<1>4. Len(After(h2, j)) = Len(After(h, j)) + 1
  BY <1>1, <1>2, <1>3
<1>5. \A i \in 1..Len(After(h, j)) : After(h2, j)[i] = After(h, j)[i]
  <2>1. ASSUME NEW i \in 1..Len(After(h, j))
        PROVE  After(h2, j)[i] = After(h, j)[i]
    <3>1. i \in 1..(Len(h) - j) /\ i \in 1..(Len(h2) - j) /\ j + i \in 1..Len(h)
      BY <1>1, <1>2
    <3>2. QED
      BY <1>2, <1>3, <3>1
  <2>2. QED
    BY <2>1
<1>6. Size(After(h2, j)) = Size(After(h, j)) + Length(After(h2, j)[Len(After(h2, j))])
  BY <1>2, <1>3, <1>4, <1>5, SizeAppend
<1>7. Size(After(h, j)) \in Nat
  BY <1>1, <1>2, SizeNat
<1>8. Size(After(h, j)) <= Size(After(h2, j))
  BY <1>6, <1>7, LengthPositive
<1>9. Len(h2) - j <= MaxEvents /\ Size(After(h2, j)) <= MaxBytes
  BY DEF Room, After
<1>10. Size(After(h2, j)) \in Nat
  BY <1>1, <1>3, SizeNat
<1>11. Len(h) - j <= MaxEvents /\ Size(After(h, j)) <= MaxBytes
  BY <1>1, <1>7, <1>8, <1>9, <1>10, JournalAssumption
<1>12. QED
  BY <1>11 DEF Room, After

\* One more line at the end of both.
LEMMA RecentAppend ==
  ASSUME NEW S, NEW lines \in Seq(S), NEW h \in Seq(S), NEW lines2 \in Seq(S), NEW h2 \in Seq(S),
         Recent(lines, h),
         Len(lines2) = Len(lines) + 1, \A i \in 1..Len(lines) : lines2[i] = lines[i],
         Len(h2) = Len(h) + 1, \A i \in 1..Len(h) : h2[i] = h[i],
         lines2[Len(lines2)] = h2[Len(h2)]
  PROVE  Recent(lines2, h2)
<1>0. PICK k : Follow(k, lines, h)
  BY DEF Recent
<1>1. /\ k \in 0..Len(h)
      /\ Len(lines) = Len(h) - k
      /\ \A i \in 1..Len(lines) : lines[i] = h[k + i]
      /\ \A j \in 0..(k - 1) : ~Room(h, j)
  BY <1>0 DEF Follow
<1>2. k \in 0..Len(h2) /\ Len(lines2) = Len(h2) - k
  BY <1>1
<1>3. \A i \in 1..Len(lines2) : lines2[i] = h2[k + i]
  <2>1. SUFFICES ASSUME NEW i \in 1..Len(lines2)
                 PROVE  lines2[i] = h2[k + i]
    OBVIOUS
  <2>2. CASE i = Len(lines2)
    BY <1>1, <2>2
  <2>3. CASE i # Len(lines2)
    <3>1. i \in 1..Len(lines) /\ k + i \in 1..Len(h)
      BY <1>1, <2>3
    <3>2. QED
      BY <1>1, <3>1
  <2>4. QED
    BY <2>2, <2>3
<1>4. \A j \in 0..(k - 1) : ~Room(h2, j)
  <2>1. ASSUME NEW j \in 0..(k - 1)
        PROVE  ~Room(h2, j)
    <3>1. j \in 0..Len(h) /\ ~Room(h, j)
      BY <1>1
    <3>2. QED
      BY <3>1, RoomShrinks
  <2>2. QED
    BY <2>1
<1>5. QED
  BY <1>2, <1>3, <1>4 DEF Recent, Follow

\* A rotation keeps of them what the limits allow.
LEMMA RecentNewest ==
  ASSUME NEW S, NEW lines \in Seq(S), NEW h \in Seq(S), Recent(lines, h),
         NEW n \in 0..Len(lines), \A j \in 0..(n - 1) : ~Room(lines, j)
  PROVE  Recent(After(lines, n), h)
<1>0. PICK k : Follow(k, lines, h)
  BY DEF Recent
<1>1. /\ k \in 0..Len(h)
      /\ Len(lines) = Len(h) - k
      /\ \A i \in 1..Len(lines) : lines[i] = h[k + i]
      /\ \A j \in 0..(k - 1) : ~Room(h, j)
  BY <1>0 DEF Follow
<1>2. k + n \in 0..Len(h) /\ Len(After(lines, n)) = Len(h) - (k + n)
  <2>1. Len(After(lines, n)) = Len(lines) - n
    BY AfterIs
  <2>2. Len(h) \in Nat /\ Len(lines) \in Nat
    OBVIOUS
  <2>3. QED
    BY <1>1, <2>1, <2>2
<1>3. \A i \in 1..Len(After(lines, n)) : After(lines, n)[i] = h[(k + n) + i]
  <2>1. SUFFICES ASSUME NEW i \in 1..Len(After(lines, n))
                 PROVE  After(lines, n)[i] = h[(k + n) + i]
    OBVIOUS
  <2>2. i \in 1..(Len(lines) - n) /\ n + i \in 1..Len(lines) /\ k + (n + i) = (k + n) + i
    <3>1. Len(After(lines, n)) = Len(lines) - n
      BY AfterIs
    <3>2. Len(lines) \in Nat /\ i \in 1..(Len(lines) - n)
      BY <3>1
    <3>3. QED
      BY <1>1, <3>2
  <2>3. After(lines, n)[i] = lines[n + i]
    BY <2>2, AfterIs
  <2>4. QED
    BY <1>1, <2>2, <2>3
<1>4. \A j \in 0..((k + n) - 1) : ~Room(h, j)
  <2>1. SUFFICES ASSUME NEW j \in 0..((k + n) - 1), j >= k
                 PROVE  ~Room(h, j)
    BY <1>1
  <2>2. j \in 0..Len(h) /\ j - k \in 0..Len(lines) /\ j - k \in 0..(n - 1) /\ ~Room(lines, j - k)
    BY <1>1, <2>1
  <2>3. After(h, j) \in Seq(S) /\ After(lines, j - k) \in Seq(S)
    BY <2>2, AfterIs
  <2>4. Len(After(h, j)) = Len(h) - j /\ Len(After(lines, j - k)) = Len(h) - j
    <3>1. Len(After(h, j)) = Len(h) - j
      BY <2>2, AfterIs
    <3>2. Len(After(lines, j - k)) = Len(lines) - (j - k)
      BY <2>2, AfterIs
    <3>3. Len(h) \in Nat /\ Len(lines) \in Nat /\ k \in Nat /\ j \in Nat
      BY <1>1
    <3>4. Len(lines) - (j - k) = Len(h) - j
      BY <1>1, <3>3
    <3>5. QED
      BY <3>1, <3>2, <3>4
  <2>5. \A i \in 1..(Len(h) - j) : After(h, j)[i] = After(lines, j - k)[i]
    <3>1. SUFFICES ASSUME NEW i \in 1..(Len(h) - j)
                   PROVE  After(h, j)[i] = After(lines, j - k)[i]
      OBVIOUS
    <3>2. After(h, j)[i] = h[j + i]
      BY <2>2, AfterIs
    <3>3. i \in 1..(Len(lines) - (j - k)) /\ (j - k) + i \in 1..Len(lines) /\ k + ((j - k) + i) = j + i
      BY <1>1, <2>1, <2>2
    <3>4. After(lines, j - k)[i] = lines[(j - k) + i]
      BY <2>2, <3>3, AfterIs
    <3>5. QED
      BY <1>1, <3>2, <3>3, <3>4
  <2>6. After(h, j) = After(lines, j - k)
    BY <2>3, <2>4, <2>5, SeqEqual
  <2>7. Len(h) - j = Len(lines) - (j - k)
    BY <1>1, <2>2
  <2>8. QED
    BY <2>2, <2>6, <2>7 DEF Room, After
<1>5. PICK m : m = k + n
  OBVIOUS
<1>6. Follow(m, After(lines, n), h)
  <2>1. m \in 0..Len(h) /\ Len(After(lines, n)) = Len(h) - m
    BY <1>2, <1>5
  <2>2. \A i \in 1..Len(After(lines, n)) : After(lines, n)[i] = h[m + i]
    BY <1>3, <1>5
  <2>3. \A j \in 0..(m - 1) : ~Room(h, j)
    BY <1>4, <1>5
  <2>4. QED
    BY <2>1, <2>2, <2>3 DEF Follow
<1>7. QED
  BY <1>6 DEF Recent

-----------------------------------------------------------------------------
(* The files *)

\* What a reader of both files meets.
Files == rotated \o active

\* The lines of both files are a walk through the log; once the rotated file has taken
\* over, so are its lines alone.
Walked == Walk(Files, log) /\ (phase = "renamed" => Walk(rotated, log))

\* The newest line is there.
NewestThere ==
  Len(log) # 0 => Len(Files) # 0 /\ (phase = "renamed" => Len(rotated) # 0)

\* Unless a rotation was cut short, the files reach back as far as the limits allow.
FarBack ==
  ~cut => IF phase = "renamed" THEN Recent(rotated, log) ELSE Recent(Files, log)

Kept == Walked /\ NewestThere /\ FarBack

\* Concatenation, position by position.
LEMMA Joined ==
  ASSUME NEW S, NEW s \in Seq(S), NEW t \in Seq(S)
  PROVE  /\ s \o t \in Seq(S)
         /\ Len(s \o t) = Len(s) + Len(t)
         /\ \A i \in 1..Len(s) : (s \o t)[i] = s[i]
         /\ \A i \in 1..Len(t) : (s \o t)[Len(s) + i] = t[i]
OBVIOUS

\* The same with a single line behind.
LEMMA JoinedOne ==
  ASSUME NEW S, NEW s \in Seq(S), NEW t \in Seq(S)
  PROVE  Len(t) = 1 => /\ s \o t \in Seq(S)
                       /\ Len(s \o t) = Len(s) + 1
                       /\ \A i \in 1..Len(s) : (s \o t)[i] = s[i]
                       /\ (s \o t)[Len(s \o t)] = t[1]
<1> DEFINE u == s \o t
<1>1. /\ u \in Seq(S)
      /\ Len(u) = Len(s) + Len(t)
      /\ \A i \in 1..Len(s) : u[i] = s[i]
      /\ \A i \in 1..Len(t) : u[Len(s) + i] = t[i]
  BY Joined
<1> HIDE DEF u
<1>2. Len(t) = 1 => /\ u \in Seq(S)
                    /\ Len(u) = Len(s) + 1
                    /\ \A i \in 1..Len(s) : u[i] = s[i]
                    /\ u[Len(u)] = t[1]
  BY <1>1
<1>3. QED
  BY <1>2 DEF u

LEMMA Regrouped ==
  ASSUME NEW S, NEW s \in Seq(S), NEW t \in Seq(S), NEW u \in Seq(S)
  PROVE  s \o (t \o u) = (s \o t) \o u
BY ConcatAssociative

LEMMA KeptInit == Init => Kept
<1> SUFFICES ASSUME Init
             PROVE  Kept
  OBVIOUS
<1>1. Len(Files) = 0 /\ Len(log) = 0 /\ phase # "renamed"
  BY DEF Init, Files
<1>2. Walk(Files, log)
  <2> DEFINE idx == [i \in 1..0 |-> 0]
  <2>1. idx \in [1..0 -> 1..0]
    OBVIOUS
  <2>2. Places(idx, Files, log)
    BY <1>1, <2>1 DEF Places
  <2>3. QED
    BY <2>2 DEF Walk
<1>3. Recent(Files, log)
  <2>1. Follow(0, Files, log)
    BY <1>1 DEF Follow
  <2>2. QED
    BY <2>1 DEF Recent
<1>4. QED
  BY <1>1, <1>2, <1>3 DEF Kept, Walked, NewestThere, FarBack

\* A line that is finished is the last of the files and of the log.
LEMMA KeptEndLine ==
  ASSUME Types, Locked, Kept, NEW p \in Procs, EndLine(p)
  PROVE  Kept'
<1>1. /\ phase = "whole" /\ phase' # "renamed" /\ rotated' = rotated
      /\ active' = active \o tail /\ log' = log \o tail /\ cut' = cut
  BY DEF EndLine, Advance
<1>2. Len(tail) = 1
  <2>1. writer = p
    BY DEF EndLine, Appending
  <2>2. Len(tail) = 1
    BY <1>1, <2>1 DEF Locked
  <2>3. QED
    BY <2>2, TailIs
<1>3. rotated \in Seq(Line) /\ active \in Seq(Line) /\ log \in Seq(Line) /\ tail \in Seq(Line)
  BY TailIs DEF Types
<1>4. Files \in Seq(Line) /\ Files' = Files \o tail
  <2>1. rotated \o (active \o tail) = (rotated \o active) \o tail
    BY <1>3, Regrouped
  <2>2. QED
    BY <1>1, <1>3, <2>1 DEF Files
<1>5. /\ Files' \in Seq(Line)
      /\ Len(Files') = Len(Files) + 1
      /\ \A i \in 1..Len(Files) : Files'[i] = Files[i]
      /\ Files'[Len(Files')] = tail[1]
  <2>1. Len(tail) = 1 => /\ Files \o tail \in Seq(Line)
                         /\ Len(Files \o tail) = Len(Files) + 1
                         /\ \A i \in 1..Len(Files) : (Files \o tail)[i] = Files[i]
                         /\ (Files \o tail)[Len(Files \o tail)] = tail[1]
    BY <1>3, <1>4, JoinedOne
  <2>2. QED
    BY <1>4, <1>2, <2>1
<1>6. /\ log' \in Seq(Line)
      /\ Len(log') = Len(log) + 1
      /\ \A i \in 1..Len(log) : log'[i] = log[i]
      /\ log'[Len(log')] = tail[1]
  <2>1. Len(tail) = 1 => /\ log \o tail \in Seq(Line)
                         /\ Len(log \o tail) = Len(log) + 1
                         /\ \A i \in 1..Len(log) : (log \o tail)[i] = log[i]
                         /\ (log \o tail)[Len(log \o tail)] = tail[1]
    BY <1>3, <1>4, JoinedOne
  <2>2. QED
    BY <1>1, <1>2, <2>1
<1>7. Files'[Len(Files')] = log'[Len(log')]
  BY <1>5, <1>6
<1>8. Walk(Files, log)' /\ (Len(Files') # 0)
  <2>1. Len(Files) \in Nat /\ Len(log) \in Nat
    BY <1>3, <1>4
  <2>2. Walk(Files, log)
    BY DEF Kept, Walked
  <2>3. Walk(Files', log')
    BY <1>5, <1>6, <1>7, <2>1, <2>2, WalkAppend
  <2>4. QED
    BY <1>5, <2>1, <2>3
<1>9. ASSUME ~cut
      PROVE  Recent(Files', log')
  <2>1. Recent(Files, log)
    BY <1>1, <1>9 DEF Kept, FarBack
  <2>2. QED
    BY <1>3, <1>4, <1>5, <1>6, <1>7, <2>1, RecentAppend
<1>10. QED
  BY <1>1, <1>8, <1>9 DEF Kept, Walked, NewestThere, FarBack

\* The rotated file takes the newest lines; the active file still has its own.
LEMMA KeptRenameRotated ==
  ASSUME Types, Kept, NEW p \in Procs, RenameRotated(p)
  PROVE  Kept'
<1>1. /\ phase = "rotating" /\ phase' = "renamed" /\ UNCHANGED <<active, log, cut>>
      /\ rotated' = Newest(Files, MaxEvents, MaxBytes)
  BY DEF RenameRotated, Files
<1>2. rotated \in Seq(Line) /\ active \in Seq(Line) /\ log \in Seq(Line) /\ Files \in Seq(Line)
  BY DEF Types, Files
<1>3. PICK k \in 0..Len(Files) : rotated' = After(Files, k) /\ \A j \in 0..(k - 1) : ~Room(Files, j)
  BY <1>1, <1>2, NewestIs
<1>4. /\ rotated' \in Seq(Line)
      /\ Len(rotated') = Len(Files) - k
      /\ \A i \in 1..(Len(Files) - k) : rotated'[i] = Files[k + i]
  BY <1>2, <1>3, AfterIs
<1>5. PICK n \in Nat, r \in Nat, c \in Nat :
        n = Len(Files) /\ r = Len(active) /\ c = k /\ r <= n /\ c <= n
  BY <1>2 DEF Files
<1>6. Walk(Files, log) /\ n = Len(Files) /\ Len(log) \in Nat
  BY <1>2, <1>5 DEF Kept, Walked
<1>7. Walk(rotated', log)
  <2>1. k \in 0..Len(Files) /\ 0 \in 0..Len(Files) /\ Len(rotated') = Len(Files) - k + 0
    BY <1>4, <1>5
  <2>2. Len(Files) \in Nat /\ \A i \in 1..0 : rotated'[Len(Files) - k + i] = Files[Len(Files) - 0 + i]
    BY <1>5
  <2>3. QED
    BY <1>4, <1>6, <2>1, <2>2, WalkRepeat
<1>8. Walk(Files', log)
  <2>1. /\ Len(Files') = Len(rotated') + r
        /\ \A i \in 1..Len(rotated') : Files'[i] = rotated'[i]
        /\ \A i \in 1..r : Files'[Len(rotated') + i] = active[i]
    <3>1. Files' = rotated' \o active
      BY <1>1 DEF Files
    <3>2. rotated' \in Seq(Line) /\ active \in Seq(Line)
      BY <1>2, <1>4
    <3>3. /\ Len(rotated' \o active) = Len(rotated') + Len(active)
          /\ \A i \in 1..Len(rotated') : (rotated' \o active)[i] = rotated'[i]
          /\ \A i \in 1..Len(active) : (rotated' \o active)[Len(rotated') + i] = active[i]
      BY <3>2
    <3>4. QED
      BY <1>5, <3>1, <3>3
  <2>2. /\ n = Len(rotated) + r
        /\ \A i \in 1..r : Files[Len(rotated) + i] = active[i]
    BY <1>2, <1>5, Joined DEF Files
  <2>3. Len(rotated) = n - r /\ Len(rotated') = n - c
    BY <1>2, <1>4, <1>5, <2>2
  <2>4. /\ Len(Files') = Len(Files) - k + r
        /\ \A i \in 1..(Len(Files) - k) : Files'[i] = Files[k + i]
        /\ \A i \in 1..r : Files'[Len(Files) - k + i] = Files[Len(Files) - r + i]
    BY <1>4, <1>5, <2>1, <2>2, <2>3
  <2>5. Len(Files) \in Nat /\ k \in 0..Len(Files) /\ r \in 0..Len(Files)
    BY <1>5
  <2>6. QED
    BY <1>6, <2>4, <2>5, WalkRepeat
<1>9. Len(log) # 0 => Len(rotated') # 0 /\ Len(Files') # 0
  <2>1. SUFFICES ASSUME Len(log) # 0
                 PROVE  Len(rotated') # 0 /\ Len(Files') # 0
    OBVIOUS
  <2>2. Files # <<>>
    BY <2>1 DEF Kept, NewestThere
  <2>3. k < Len(Files)
    BY <1>2, <1>3, <2>2, NewestNotEmpty
  <2>4. Len(rotated') \in Nat /\ Len(rotated') # 0
    BY <1>4, <1>5, <2>3
  <2>5. QED
    BY <1>1, <1>2, <1>4, <2>4 DEF Files
<1>10. ASSUME ~cut
       PROVE  Recent(rotated', log)
  <2>1. Recent(Files, log)
    BY <1>1, <1>10 DEF Kept, FarBack
  <2>2. QED
    BY <1>2, <1>3, <2>1, RecentNewest
<1>11. QED
  BY <1>1, <1>7, <1>8, <1>9, <1>10 DEF Kept, Walked, NewestThere, FarBack

\* Every other step leaves the files alone, or empties the active one when the rotated one
\* has its lines.
LEMMA KeptStep ==
  ASSUME Types, Locked, Kept, [Next]_vars
  PROVE  Kept'
<1>1. CASE UNCHANGED <<rotated, active, log, cut>> /\ (phase' = "renamed" <=> phase = "renamed")
  BY <1>1 DEF Kept, Walked, NewestThere, FarBack, Files
<1>2. ASSUME NEW p \in Procs, TruncateActive(p)
      PROVE  Kept'
  <2>1. /\ phase = "renamed" /\ phase' = "free" /\ UNCHANGED <<rotated, log, cut>> /\ active' = <<>>
    BY <1>2 DEF TruncateActive, Advance
  <2>2. Files' = rotated
    BY <2>1 DEF Types, Files
  <2>3. QED
    BY <2>1, <2>2 DEF Kept, Walked, NewestThere, FarBack
<1>3. ASSUME NEW p \in Procs, BreakOff(p)
      PROVE  Kept'
  <2>1. UNCHANGED <<rotated, active, log>> /\ phase' \in {phase, "free"}
    BY <1>3 DEF BreakOff, fileVars, lockVars
  <2>2. ~cut' => ~cut /\ (phase' = "renamed" <=> phase = "renamed")
    <3>1. cut' = (cut \/ (writer = p /\ phase = "renamed"))
      BY <1>3 DEF BreakOff, Appending
    <3>2. writer = p \/ phase' = phase
      BY <1>3 DEF BreakOff, Appending, lockVars
    <3>3. QED
      BY <2>1, <3>1, <3>2
  <2>3. QED
    BY <2>1, <2>2 DEF Kept, Walked, NewestThere, FarBack, Files
<1>4. ASSUME NEW p \in Procs, StartPass(p) \/ Execute(p) \/ BeginAppend(p) \/ WriteEvent(p)
      PROVE  UNCHANGED <<rotated, active, log, cut>> /\ (phase' = "renamed" <=> phase = "renamed")
  BY <1>4 DEF StartPass, Execute, BeginAppend, WriteEvent, Locked, fileVars, lockVars
<1>5. QED
  BY <1>1, <1>2, <1>3, <1>4, KeptEndLine, KeptRenameRotated DEF Next, vars, fileVars, lockVars

-----------------------------------------------------------------------------
(* The log *)

\* Where a pass stands.
PassStates ==
  \A p \in Procs :
    /\ pc[p] = "cleared" => seq[p] = 0
    /\ pc[p] = "open" => seq[p] = 1
    /\ pc[p] = "executed" => seq[p] \in 1..(total[p] + 1)

LEMMA PassStatesStep ==
  ASSUME Types, Locked, PassStates, [Next]_vars
  PROVE  PassStates'
<1>1. CASE UNCHANGED <<pc, seq, total>>
  BY <1>1 DEF PassStates
<1>2. ASSUME NEW p \in Procs, StartPass(p)
      PROVE  PassStates'
  BY <1>2 DEF StartPass, PassStates, Types
<1>3. ASSUME NEW p \in Procs, Execute(p)
      PROVE  PassStates'
  <2>1. PICK n \in Targets : total' = [total EXCEPT ![p] = n]
    BY <1>3 DEF Execute
  <2>2. n \in Nat
    BY JournalAssumption
  <2>3. pc[p] = "open" /\ pc' = [pc EXCEPT ![p] = "executed"] /\ seq' = seq
    BY <1>3 DEF Execute
  <2>4. QED
    BY <2>1, <2>2, <2>3 DEF PassStates, Types
<1>4. ASSUME NEW p \in Procs, writer = p, Advance(p)
      PROVE  PassStates'
  <2>1. /\ seq' = [seq EXCEPT ![p] = @ + 1]
        /\ pc' = [pc EXCEPT ![p] = IF seq[p] = 0 THEN "open"
                                   ELSE IF seq[p] > total[p] THEN "idle" ELSE "executed"]
        /\ total' = total
    BY <1>4 DEF Advance
  <2>2. /\ seq[p] \in Nat /\ total[p] \in Nat
        /\ seq[p] = 0 \/ seq[p] \in 1..(total[p] + 1)
    BY <1>4 DEF PassStates, Locked, Types
  <2>3. ASSUME NEW q \in Procs, q # p
        PROVE  pc'[q] = pc[q] /\ seq'[q] = seq[q] /\ total'[q] = total[q]
    BY <2>1, <2>3 DEF Types
  <2>4. /\ seq'[p] = seq[p] + 1 /\ total'[p] = total[p]
        /\ pc'[p] = IF seq[p] = 0 THEN "open" ELSE IF seq[p] > total[p] THEN "idle" ELSE "executed"
    BY <2>1 DEF Types
  <2>5. QED
    BY <2>2, <2>3, <2>4 DEF PassStates
<1>5. ASSUME NEW p \in Procs, BreakOff(p)
      PROVE  PassStates'
  BY <1>5 DEF BreakOff, PassStates, Types
<1>6. ASSUME NEW p \in Procs, EndLine(p) \/ TruncateActive(p)
      PROVE  UNCHANGED <<pc, seq, total>> \/ (writer = p /\ Advance(p))
  BY <1>6 DEF EndLine, TruncateActive, Appending, passVars
<1>7. QED
  BY <1>1, <1>2, <1>3, <1>4, <1>5, <1>6
     DEF Next, vars, passVars, BeginAppend, WriteEvent, RenameRotated

\* e may follow the first n lines of h: its pass has come just so far in them, or has lost
\* an event in a line that was glued.
Fits(e, n, h) ==
  \A a \in 1..n : (h[a] # Garbage /\ h[a].pass = e.pass) =>
    /\ h[a].seq < e.seq
    /\ h[a].seq # 0 => h[a].total = e.total
    /\ h[a].seq = 0 => \A s \in 1..(e.seq - 1) :
         \E m \in (a + 1)..n : h[m] = Garbage \/ (h[m].pass = e.pass /\ h[m].seq = s)

\* A line that stays where it is.
LEMMA FitsSame ==
  ASSUME NEW e, NEW n \in Nat, NEW h, NEW h2, \A i \in 1..n : h2[i] = h[i], Fits(e, n, h)
  PROVE  Fits(e, n, h2)
BY DEF Fits

\* A line of another pass changes nothing.
LEMMA FitsOther ==
  ASSUME NEW e, NEW n \in Nat, NEW h, NEW h2, \A i \in 1..n : h2[i] = h[i], Fits(e, n, h),
         h2[n + 1] = Garbage \/ h2[n + 1].pass # e.pass
  PROVE  Fits(e, n + 1, h2)
<1>1. SUFFICES ASSUME NEW a \in 1..(n + 1), h2[a] # Garbage, h2[a].pass = e.pass
               PROVE  /\ h2[a].seq < e.seq
                      /\ h2[a].seq # 0 => h2[a].total = e.total
                      /\ h2[a].seq = 0 => \A s \in 1..(e.seq - 1) :
                           \E m \in (a + 1)..(n + 1) :
                             h2[m] = Garbage \/ (h2[m].pass = e.pass /\ h2[m].seq = s)
  BY DEF Fits
<1>2. a \in 1..n /\ h2[a] = h[a]
  BY <1>1
<1>3. /\ h[a].seq < e.seq
      /\ h[a].seq # 0 => h[a].total = e.total
      /\ h[a].seq = 0 => \A s \in 1..(e.seq - 1) :
           \E m \in (a + 1)..n : h[m] = Garbage \/ (h[m].pass = e.pass /\ h[m].seq = s)
  BY <1>1, <1>2 DEF Fits
<1>4. \A m \in (a + 1)..n : m \in (a + 1)..(n + 1) /\ h2[m] = h[m]
  BY <1>2
<1>5. QED
  BY <1>2, <1>3, <1>4

\* After an event of the pass, or after the line that swallowed it, the next one fits.
LEMMA FitsNext ==
  ASSUME NEW e, NEW e2, NEW n \in Nat, NEW h, NEW h2, \A i \in 1..n : h2[i] = h[i], Fits(e, n, h),
         e.seq \in Nat, e2.pass = e.pass, e2.seq = e.seq + 1, e2.total = e.total,
         \A i \in 1..n : h[i] # Garbage => h[i].seq \in Nat,
         h2[n + 1] = Garbage \/ (h2[n + 1].pass = e.pass /\ h2[n + 1].seq = e.seq
                                  /\ h2[n + 1].total = e.total)
  PROVE  Fits(e2, n + 1, h2)
<1>1. SUFFICES ASSUME NEW a \in 1..(n + 1), h2[a] # Garbage, h2[a].pass = e.pass
               PROVE  /\ h2[a].seq < e2.seq
                      /\ h2[a].seq # 0 => h2[a].total = e.total
                      /\ h2[a].seq = 0 => \A s \in 1..(e2.seq - 1) :
                           \E m \in (a + 1)..(n + 1) :
                             h2[m] = Garbage \/ (h2[m].pass = e.pass /\ h2[m].seq = s)
  BY DEF Fits
<1>2. CASE a = n + 1
  <2>1. h2[a].seq = e.seq /\ h2[a].total = e.total
    BY <1>1, <1>2
  <2>2. h2[a].seq = 0 => 1..(e2.seq - 1) = {}
    BY <2>1
  <2>3. QED
    BY <2>1, <2>2
<1>3. CASE a # n + 1
  <2>1. a \in 1..n /\ h2[a] = h[a] /\ h[a].seq \in Nat
    BY <1>1, <1>3
  <2>2. /\ h[a].seq < e.seq
        /\ h[a].seq # 0 => h[a].total = e.total
        /\ h[a].seq = 0 => \A s \in 1..(e.seq - 1) :
             \E m \in (a + 1)..n : h[m] = Garbage \/ (h[m].pass = e.pass /\ h[m].seq = s)
    BY <1>1, <2>1 DEF Fits
  <2>3. ASSUME h[a].seq = 0, NEW s \in 1..(e2.seq - 1)
        PROVE  \E m \in (a + 1)..(n + 1) :
                 h2[m] = Garbage \/ (h2[m].pass = e.pass /\ h2[m].seq = s)
    <3>1. CASE s = e.seq
      <4>1. n + 1 \in (a + 1)..(n + 1)
        BY <2>1
      <4>2. QED
        BY <3>1, <4>1
    <3>2. CASE s # e.seq
      <4>1. s \in 1..(e.seq - 1)
        BY <2>3, <3>2
      <4>2. PICK m \in (a + 1)..n : h[m] = Garbage \/ (h[m].pass = e.pass /\ h[m].seq = s)
        BY <2>2, <2>3, <4>1
      <4>3. m \in (a + 1)..(n + 1) /\ h2[m] = h[m]
        BY <2>1
      <4>4. QED
        BY <4>2, <4>3
    <3>3. QED
      BY <3>1, <3>2
  <2>4. QED
    BY <2>1, <2>2, <2>3
<1>4. QED
  BY <1>2, <1>3

\* The fields of an event agree.
Proper(e) ==
  /\ e \in Event
  /\ e.type = CASE e.seq = 0 -> "start" [] e.seq > e.total -> "summary" [] OTHER -> "action"
  /\ e.seq <= e.total + 1

\* Its pass has begun.
Begun(e) == e.pass[2] <= passes[e.pass[1]]

\* How many events of its pass p has finished.
Ahead(p) == IF writer = p /\ phase \in {"rotating", "renamed"} THEN seq[p] + 1 ELSE seq[p]

\* What its next event is, but for the type.
Upcoming(p) == [pass |-> Pass(p), seq |-> Ahead(p), total |-> total[p]]

\* Every event stands behind what it may follow,
Recorded ==
  \A z \in 1..Len(log) : log[z] # Garbage =>
    Proper(log[z]) /\ Begun(log[z]) /\ Fits(log[z], z - 1, log)

\* an unfinished one may follow the log,
TailFits ==
  (Len(tail) = 1 /\ tail[1] # Garbage) =>
    Proper(tail[1]) /\ Begun(tail[1]) /\ Fits(tail[1], Len(log), log)

\* and so may the next event of every pass.
Going == \A p \in Procs : pc[p] # "idle" => Fits(Upcoming(p), Len(log), log)

History == Recorded /\ TailFits /\ Going

LEMMA HistoryInit == Init => History
BY DEF Init, History, Recorded, TailFits, Going, Fits

LEMMA UpcomingIs ==
  ASSUME NEW p
  PROVE  /\ Upcoming(p).pass = Pass(p)
         /\ Upcoming(p).seq = Ahead(p)
         /\ Upcoming(p).total = total[p]
BY DEF Upcoming

\* What the writer is about to append is proper and fits.
LEMMA NextEventFits ==
  ASSUME Types, Locked, PassStates, History, NEW p \in Procs, writer = p, phase \in {"part", "whole"}
  PROVE  /\ Proper(NextEvent(p)) /\ Begun(NextEvent(p))
         /\ Fits(NextEvent(p), Len(log), log)
<1> DEFINE e == NextEvent(p)
<1>1. /\ e.pass = Pass(p) /\ e.seq = seq[p] /\ e.total = total[p]
      /\ e.type = CASE seq[p] = 0 -> "start" [] seq[p] > total[p] -> "summary" [] OTHER -> "action"
  BY DEF NextEvent
<1>2. pc[p] \in {"cleared", "executed"} /\ seq[p] \in Nat /\ total[p] \in Nat
  BY DEF Locked, Types
<1>3. seq[p] <= total[p] + 1
  BY <1>2 DEF PassStates
<1>4. e \in Event
  BY NextEventIsEvent
<1>5. Proper(e)
  <2> HIDE DEF e
  <2>1. QED
    BY <1>1, <1>3, <1>4 DEF Proper
<1>6. Begun(e)
  <2>1. e.pass[1] = p /\ e.pass[2] = passes[p] /\ passes[p] \in Nat
    BY <1>1 DEF Pass, Types
  <2>2. QED
    BY <2>1 DEF Begun
<1>7. Fits(e, Len(log), log)
  <2>1. Fits(Upcoming(p), Len(log), log)
    BY <1>2 DEF History, Going
  <2>2. Upcoming(p).pass = e.pass /\ Upcoming(p).seq = e.seq /\ Upcoming(p).total = e.total
    BY <1>1, UpcomingIs DEF Ahead
  <2>3. QED
    <3> HIDE DEF e
    <3>1. QED
      BY <2>1, <2>2 DEF Fits
<1>8. QED
  BY <1>5, <1>6, <1>7

\* A step that leaves the log alone and starts no pass.
LEMMA HistoryQuiet ==
  ASSUME History, UNCHANGED <<log, passes>>,
         UNCHANGED tail \/ tail' = <<Garbage>>,
         \A q \in Procs : pc'[q] # "idle" =>
           pc[q] # "idle" /\ total'[q] = total[q] /\ Ahead(q)' = Ahead(q)
  PROVE  History'
<1>1. Recorded'
  BY DEF History, Recorded, Begun
<1>2. TailFits'
  BY DEF History, TailFits, Begun
<1>3. ASSUME NEW q \in Procs, pc'[q] # "idle"
      PROVE  Fits(Upcoming(q), Len(log), log)'
  <2>1. Upcoming(q)' = Upcoming(q)
    BY <1>3 DEF Upcoming, Pass
  <2>2. QED
    BY <1>3, <2>1 DEF History, Going
<1>4. QED
  BY <1>1, <1>2, <1>3 DEF History, Going

\* The next pass of a process has nothing in the log yet.
LEMMA HistoryStartPass ==
  ASSUME Types, History, NEW p \in Procs, StartPass(p)
  PROVE  History'
<1>1. /\ UNCHANGED <<log, tail, writer, phase>> /\ passes' = [passes EXCEPT ![p] = @ + 1]
      /\ pc' = [pc EXCEPT ![p] = "cleared"]
      /\ seq' = [seq EXCEPT ![p] = 0] /\ total' = [total EXCEPT ![p] = 0]
  BY DEF StartPass, fileVars, lockVars
<1>2. passes'[p] = passes[p] + 1 /\ passes[p] \in Nat /\ \A q \in Procs : q # p => passes'[q] = passes[q]
  BY <1>1 DEF Types
<1>3. ASSUME NEW e, Proper(e), Begun(e)
      PROVE  Begun(e)' /\ e.pass # <<p, passes[p] + 1>>
  <2>1. e.pass \in Procs \X Nat
    BY <1>3 DEF Proper, Event
  <2>2. e.pass[1] \in Procs /\ e.pass[2] \in Nat
    BY <2>1
  <2>3. passes[e.pass[1]] \in Nat
    BY <2>2 DEF Types
  <2>4. QED
    BY <1>2, <1>3, <2>2, <2>3 DEF Begun
<1>4. Recorded'
  BY <1>1, <1>3 DEF History, Recorded
<1>5. TailFits'
  BY <1>1, <1>3 DEF History, TailFits
<1>6. ASSUME NEW q \in Procs, pc'[q] # "idle"
      PROVE  Fits(Upcoming(q), Len(log), log)'
  <2>1. CASE q = p
    <3>1. Upcoming(p)'.pass = <<p, passes[p] + 1>>
      BY <1>2 DEF Upcoming, Pass
    <3>2. \A z \in 1..Len(log) : log[z] # Garbage => log[z].pass # <<p, passes[p] + 1>>
      BY <1>3 DEF History, Recorded
    <3>3. QED
      BY <1>1, <2>1, <3>1, <3>2 DEF Fits
  <2>2. CASE q # p
    <3>1. pc[q] # "idle" /\ seq'[q] = seq[q] /\ total'[q] = total[q] /\ passes'[q] = passes[q]
      BY <1>1, <1>6, <2>2 DEF Types
    <3>2. Upcoming(q)' = Upcoming(q)
      BY <1>1, <3>1 DEF Upcoming, Pass, Ahead
    <3>3. QED
      BY <1>1, <3>1, <3>2 DEF History, Going
  <2>3. QED
    BY <2>1, <2>2
<1>7. QED
  BY <1>4, <1>5, <1>6 DEF History, Going

\* The outcomes are known before the first of them is appended.
LEMMA HistoryExecute ==
  ASSUME Types, Locked, PassStates, History, NEW p \in Procs, Execute(p)
  PROVE  History'
<1>1. UNCHANGED <<log, tail, writer, phase, passes, seq>> /\ pc[p] = "open" /\ writer # p
  BY DEF Execute, Locked, fileVars, lockVars
<1>2. Recorded' /\ TailFits'
  BY <1>1 DEF History, Recorded, TailFits, Begun
<1>3. ASSUME NEW q \in Procs, q # p, pc'[q] # "idle"
      PROVE  Fits(Upcoming(q), Len(log), log)'
  <2>1. pc[q] # "idle" /\ total'[q] = total[q]
    BY <1>3 DEF Execute, Types
  <2>2. Upcoming(q)' = Upcoming(q)
    BY <1>1, <2>1 DEF Upcoming, Pass, Ahead
  <2>3. QED
    BY <1>1, <2>1, <2>2 DEF History, Going
<1>4. Fits(Upcoming(p), Len(log), log)'
  <2>1. Fits(Upcoming(p), Len(log), log)
    BY <1>1 DEF History, Going
  <2>2. seq[p] = 1
    BY <1>1 DEF PassStates
  <2>3. Upcoming(p)'.pass = Upcoming(p).pass /\ Upcoming(p)'.seq = Upcoming(p).seq /\ Upcoming(p).seq = 1
    BY <1>1, <2>2 DEF Upcoming, Pass, Ahead
  <2>4. \A a \in 1..Len(log) : log[a] # Garbage => log[a].seq \in Nat
    BY DEF History, Recorded, Proper, Event
  <2>5. \A a \in 1..Len(log) : (log[a] # Garbage /\ log[a].pass = Upcoming(p).pass) => log[a].seq = 0
    BY <2>1, <2>3, <2>4 DEF Fits
  <2>6. QED
    BY <1>1, <2>1, <2>3, <2>5 DEF Fits
<1>5. QED
  BY <1>2, <1>3, <1>4 DEF History, Going

\* The line is finished: it stands in the log where it fitted.
LEMMA HistoryEndLine ==
  ASSUME Types, Locked, PassStates, History, NEW p \in Procs, EndLine(p)
  PROVE  History'
<1>1. /\ writer = p /\ phase = "whole" /\ tail' = <<>> /\ log' = log \o tail
      /\ passes' = passes /\ total' = total
      /\ \/ phase' = "rotating" /\ writer' = writer /\ pc' = pc /\ seq' = seq
         \/ /\ writer' = Nobody /\ phase' = "free" /\ seq' = [seq EXCEPT ![p] = @ + 1]
            /\ pc' = [pc EXCEPT ![p] = IF seq[p] = 0 THEN "open"
                                       ELSE IF seq[p] > total[p] THEN "idle" ELSE "executed"]
  BY DEF EndLine, Appending, Advance, passVars
<1>2. tail \in {<<Garbage>>, <<NextEvent(p)>>}
  BY <1>1 DEF Locked
<1>3. PICK n \in Nat : n = Len(log)
  BY DEF Types
<1>4. PICK line : line = tail[1] /\ line \in {Garbage, NextEvent(p)}
  BY <1>2
<1>5. /\ Len(log') = n + 1
      /\ \A i \in 1..n : log'[i] = log[i]
      /\ log'[n + 1] = line
  <2>1. log \in Seq(Line) /\ tail \in Seq(Line)
    BY TailIs DEF Types
  <2>2. Len(tail) = 1 => /\ Len(log \o tail) = Len(log) + 1
                         /\ \A i \in 1..Len(log) : (log \o tail)[i] = log[i]
                         /\ (log \o tail)[Len(log \o tail)] = tail[1]
    BY <2>1, JoinedOne
  <2>3. Len(tail) = 1
    BY <1>2
  <2>4. QED
    BY <1>1, <1>3, <1>4, <2>2, <2>3
<1>6. line # Garbage => Proper(line) /\ Begun(line) /\ Fits(line, n, log)
  BY <1>1, <1>3, <1>4, NextEventFits
<1>7. Recorded'
  <2>1. SUFFICES ASSUME NEW z \in 1..(n + 1), log'[z] # Garbage
                 PROVE  Proper(log'[z]) /\ Begun(log'[z]) /\ Fits(log'[z], z - 1, log')
    BY <1>1, <1>5 DEF Recorded, Begun
  <2>2. CASE z = n + 1
    <3>1. Proper(line) /\ Begun(line) /\ Fits(line, n, log)
      BY <1>5, <1>6, <2>1, <2>2
    <3>2. Fits(line, n, log')
      BY <1>5, <3>1, FitsSame
    <3>3. QED
      BY <1>5, <2>2, <3>1, <3>2
  <2>3. CASE z # n + 1
    <3>1. z \in 1..n /\ z - 1 \in Nat /\ log'[z] = log[z]
      BY <1>5, <2>3
    <3>2. Proper(log[z]) /\ Begun(log[z]) /\ Fits(log[z], z - 1, log)
      BY <1>3, <2>1, <3>1 DEF History, Recorded
    <3>3. \A i \in 1..(z - 1) : log'[i] = log[i]
      BY <1>5, <3>1
    <3>4. Fits(log[z], z - 1, log')
      BY <3>1, <3>2, <3>3, FitsSame
    <3>5. QED
      BY <3>1, <3>2, <3>4
  <2>4. QED
    BY <2>2, <2>3
<1>8. TailFits'
  BY <1>1 DEF TailFits
<1>9. ASSUME NEW q \in Procs, q # p, pc'[q] # "idle"
      PROVE  Fits(Upcoming(q), Len(log), log)'
  <2>1. pc[q] # "idle" /\ seq'[q] = seq[q] /\ total'[q] = total[q]
    BY <1>1, <1>9 DEF Types
  <2>2. Upcoming(q)' = Upcoming(q)
    BY <1>1, <1>9, <2>1, JournalAssumption DEF Upcoming, Pass, Ahead
  <2>3. Fits(Upcoming(q), n, log)
    BY <1>3, <2>1 DEF History, Going
  <2>4. log'[n + 1] = Garbage \/ log'[n + 1].pass # Upcoming(q).pass
    BY <1>4, <1>5, <1>9 DEF Upcoming, NextEvent, Pass
  <2>5. Fits(Upcoming(q), n + 1, log')
    BY <1>5, <2>3, <2>4, FitsOther
  <2>6. QED
    BY <1>5, <2>2, <2>5
<1>10. ASSUME pc'[p] # "idle"
       PROVE  Fits(Upcoming(p), Len(log), log)'
  <2>1. pc[p] # "idle"
    BY <1>1 DEF Locked
  <2>2. seq[p] \in Nat /\ Upcoming(p).seq = seq[p] /\ Upcoming(p).pass = Pass(p) /\ Upcoming(p).total = total[p]
    BY <1>1 DEF Upcoming, Ahead, Types
  <2>3. Upcoming(p)'.seq = seq[p] + 1 /\ Upcoming(p)'.pass = Pass(p) /\ Upcoming(p)'.total = total[p]
    <3>1. Ahead(p)' = seq[p] + 1
      BY <1>1, JournalAssumption DEF Ahead, Types
    <3>2. QED
      BY <1>1, <3>1 DEF Upcoming, Pass
  <2>4. Fits(Upcoming(p), n, log)
    BY <1>3, <2>1 DEF History, Going
  <2>5. \A i \in 1..n : log[i] # Garbage => log[i].seq \in Nat
    BY <1>3 DEF History, Recorded, Proper, Event
  <2>6. log'[n + 1] = Garbage \/ (log'[n + 1].pass = Pass(p) /\ log'[n + 1].seq = seq[p]
                                  /\ log'[n + 1].total = total[p])
    BY <1>4, <1>5 DEF NextEvent
  <2>7. Fits(Upcoming(p)', n + 1, log')
    <3>1. PICK e, e2 : e = Upcoming(p) /\ e2 = Upcoming(p)'
      OBVIOUS
    <3>2. e.seq \in Nat /\ e2.pass = e.pass /\ e2.seq = e.seq + 1 /\ e2.total = e.total
      BY <2>2, <2>3, <3>1
    <3>3. log'[n + 1] = Garbage \/ (log'[n + 1].pass = e.pass /\ log'[n + 1].seq = e.seq
                                    /\ log'[n + 1].total = e.total)
      BY <2>2, <2>6, <3>1
    <3>4. Fits(e2, n + 1, log')
      BY <1>5, <2>4, <2>5, <3>1, <3>2, <3>3, FitsNext
    <3>5. QED
      BY <3>1, <3>4
  <2>8. QED
    BY <1>5, <2>7
<1>11. QED
  BY <1>7, <1>8, <1>9, <1>10 DEF History, Going

\* Every step keeps the order of every pass.
LEMMA HistoryStep ==
  ASSUME Types, Locked, PassStates, History, [Next]_vars
  PROVE  History'
<1> USE JournalAssumption
<1>1. ASSUME NEW p \in Procs, BeginAppend(p)
      PROVE  History'
  BY <1>1, HistoryQuiet DEF BeginAppend, passVars, Ahead
<1>2. ASSUME NEW p \in Procs, WriteEvent(p)
      PROVE  History'
  <2>1. UNCHANGED <<log, passes, writer, pc, seq, total>> /\ phase \in {"part", "glued"} /\ phase' = "whole"
    BY <1>2 DEF WriteEvent, passVars
  <2>2. CASE phase = "glued"
    BY <1>2, <2>1, <2>2, HistoryQuiet DEF WriteEvent, Ahead
  <2>3. CASE phase = "part"
    <3>1. Recorded'
      BY <2>1 DEF History, Recorded, Begun
    <3>2. Going'
      <4>1. \A q \in Procs : Upcoming(q)' = Upcoming(q)
        BY <2>1 DEF Upcoming, Pass, Ahead
      <4>2. QED
        BY <2>1, <4>1 DEF History, Going
    <3>3. writer = p /\ tail' = <<NextEvent(p)>>
      BY <1>2, <2>3 DEF WriteEvent, Appending
    <3>4. Proper(NextEvent(p)) /\ Begun(NextEvent(p)) /\ Fits(NextEvent(p), Len(log), log)
      BY <2>3, <3>3, NextEventFits
    <3>5. TailFits'
      BY <2>1, <3>3, <3>4 DEF TailFits, Begun
    <3>6. QED
      BY <3>1, <3>2, <3>5 DEF History
  <2>4. QED
    BY <2>1, <2>2, <2>3
<1>3. ASSUME NEW p \in Procs, RenameRotated(p)
      PROVE  History'
  BY <1>3, HistoryQuiet DEF RenameRotated, passVars, Ahead
<1>4. ASSUME NEW p \in Procs, TruncateActive(p)
      PROVE  History'
  <2>1. /\ writer = p /\ phase = "renamed" /\ UNCHANGED <<log, tail, passes, total>>
        /\ writer' = Nobody /\ phase' = "free" /\ seq' = [seq EXCEPT ![p] = @ + 1]
        /\ pc' = [pc EXCEPT ![p] = IF seq[p] = 0 THEN "open"
                                   ELSE IF seq[p] > total[p] THEN "idle" ELSE "executed"]
    BY <1>4 DEF TruncateActive, Appending, Advance
  <2>2. ASSUME NEW q \in Procs, pc'[q] # "idle"
        PROVE  pc[q] # "idle" /\ Ahead(q)' = Ahead(q)
    BY <2>1, <2>2 DEF Ahead, Types, Locked
  <2>3. QED
    BY <2>1, <2>2, HistoryQuiet
<1>5. ASSUME NEW p \in Procs, BreakOff(p)
      PROVE  History'
  <2>1. /\ UNCHANGED <<log, tail, passes, total, seq>> /\ pc' = [pc EXCEPT ![p] = "idle"]
        /\ IF writer = p THEN writer' = Nobody /\ phase' = "free" ELSE UNCHANGED <<writer, phase>>
    BY <1>5 DEF BreakOff, Appending, fileVars, lockVars
  <2>2. ASSUME NEW q \in Procs, pc'[q] # "idle"
        PROVE  pc[q] # "idle" /\ Ahead(q)' = Ahead(q)
    BY <2>1, <2>2 DEF Ahead, Types
  <2>3. QED
    BY <2>1, <2>2, HistoryQuiet
<1>6. CASE UNCHANGED vars
  BY <1>6, HistoryQuiet DEF vars, fileVars, lockVars, passVars, Ahead
<1>7. QED
  BY <1>1, <1>2, <1>3, <1>4, <1>5, <1>6, HistoryStartPass, HistoryExecute, HistoryEndLine DEF Next

-----------------------------------------------------------------------------
(* What a reader makes of the lines *)

Seen(events, line) == \E e \in ToSet(events) : e.pass = line.pass /\ e.seq = line.seq

\* The events read so far and one line more.
Take(events, line) == IF Seen(events, line) THEN events ELSE Append(events, line)

LEMMA TakeType ==
  ASSUME NEW S, NEW events \in Seq(S), NEW line \in S
  PROVE  Take(events, line) \in Seq(S)
BY DEF Take

\* Events takes line after line.
LEMMA EventsIs ==
  ASSUME NEW S, NEW lines \in Seq(S)
  PROVE  \E read \in [0..Len(lines) -> Seq(S)] :
           /\ read[0] = <<>>
           /\ \A i \in 1..Len(lines) : read[i] = Take(read[i - 1], lines[i])
           /\ Events(lines) = read[Len(lines)]
<1>1. PICK n \in Nat : n = Len(lines)
  OBVIOUS
<1>2. \A i \in 1..n : lines[i] \in S
  BY <1>1
<1> DEFINE Reading(r) == r = [i \in 0..n |-> IF i = 0 THEN <<>> ELSE Take(r[i - 1], lines[i])]
           G == [i \in 1..n |-> [d \in Seq(S) |-> Take(d, lines[i])]]
           read == CHOOSE r : Reading(r)
<1>3. PICK f \in [0..n -> Seq(S)] : f[0] = <<>> /\ \A i \in 1..n : f[i] = G[i][f[i - 1]]
  <2>1. PICK D : D = Seq(S)
    OBVIOUS
  <2>2. <<>> \in D /\ G \in [1..n -> [D -> D]]
    BY <1>2, <2>1, TakeType
  <2> HIDE DEF G
  <2>3. \E f \in [0..n -> D] : Follows(f, n, <<>>, G)
    BY <2>2, Recursion
  <2>4. QED
    BY <2>1, <2>3 DEF Follows
<1>4. ASSUME NEW i \in 1..n
      PROVE  f[i - 1] \in Seq(S) /\ f[i] = Take(f[i - 1], lines[i])
  <2>1. i - 1 \in 0..n
    OBVIOUS
  <2>2. f[i - 1] \in Seq(S)
    BY <2>1
  <2>3. QED
    BY <1>3, <2>2
<1>5. Reading(f)
  BY <1>3, <1>4
<1>6. Reading(read)
  <2> HIDE DEF Reading
  <2>1. QED
    BY <1>5
<1>7. Events(lines) = read[n]
  BY <1>1 DEF Events, Take, Seen
<1> HIDE DEF read
<1>8. /\ read[0] = <<>>
      /\ \A i \in 1..n : read[i] = Take(read[i - 1], lines[i])
  <2>1. read = [i \in 0..n |-> IF i = 0 THEN <<>> ELSE Take(read[i - 1], lines[i])]
    BY <1>6
  <2>2. QED
    BY <2>1
<1>9. \A i \in 0..n : read[i] \in Seq(S)
  <2> DEFINE T == {i \in 0..n : read[i] \in Seq(S)}
  <2>1. 0 \in T
    <3>1. read[0] \in Seq(S)
      BY <1>8, EmptySeq
    <3>2. QED
      BY <3>1
  <2>2. ASSUME NEW i \in 1..n, i - 1 \in T
        PROVE  i \in T
    <3>1. read[i - 1] \in Seq(S) /\ lines[i] \in S /\ read[i] = Take(read[i - 1], lines[i])
      BY <1>2, <1>8, <2>2
    <3>2. read[i] \in Seq(S)
      BY <3>1, TakeType
    <3>3. QED
      BY <3>2
  <2>3. \A i \in 0..n : i \in T
    <3> HIDE DEF T
    <3>1. QED
      BY <2>1, <2>2, UpTo
  <2>4. QED
    BY <2>3
<1>10. read \in [0..n -> Seq(S)]
  <2>1. read = [i \in 0..n |-> read[i]]
    BY <1>6
  <2>2. QED
    BY <1>9, <2>1
<1>11. QED
  BY <1>1, <1>7, <1>8, <1>10

\* Lines that name the same event are the same.
Distinct(lines) ==
  \A i \in 1..Len(lines), j \in 1..Len(lines) :
    (lines[i].pass = lines[j].pass /\ lines[i].seq = lines[j].seq) => lines[i] = lines[j]

\* events has each of the first n lines once, where it is met first.
Reads(events, lines, n) ==
  /\ \A i \in 1..n : \E r \in 1..Len(events) : events[r] = lines[i]
  /\ \A r \in 1..Len(events), q \in 1..Len(events) : events[r] = events[q] => r = q
  /\ \A r \in 1..Len(events) :
       \E i \in 1..n :
         /\ events[r] = lines[i]
         /\ \A q \in 1..(r - 1) : \E j \in 1..(i - 1) : events[q] = lines[j]
         /\ \A j \in 1..(i - 1) : \E q \in 1..(r - 1) : events[q] = lines[j]

\* A line that was seen is read already,
LEMMA ReadsSeen ==
  ASSUME NEW S, NEW lines \in Seq(S), Distinct(lines), NEW n \in 1..Len(lines),
         NEW events \in Seq(S), Reads(events, lines, n - 1), Seen(events, lines[n])
  PROVE  Reads(events, lines, n)
<1>1. n - 1 \in Nat /\ \A i \in 1..(n - 1) : i \in 1..n
  OBVIOUS
<1>2. PICK r \in 1..Len(events) : events[r].pass = lines[n].pass /\ events[r].seq = lines[n].seq
  BY DEF Seen, ToSet
<1>3. PICK i \in 1..(n - 1) : events[r] = lines[i]
  BY DEF Reads
<1>4. events[r] = lines[n]
  BY <1>2, <1>3 DEF Distinct
<1>5. \A k \in 1..n : k \in 1..(n - 1) \/ k = n
  OBVIOUS
<1>6. \A k \in 1..n : \E q \in 1..Len(events) : events[q] = lines[k]
  BY <1>4, <1>5 DEF Reads
<1>7. QED
  BY <1>1, <1>6 DEF Reads

\* and any other is read last.
LEMMA ReadsNew ==
  ASSUME NEW S, NEW lines \in Seq(S), NEW n \in 1..Len(lines),
         NEW events \in Seq(S), Reads(events, lines, n - 1), ~Seen(events, lines[n])
  PROVE  Reads(Append(events, lines[n]), lines, n)
<1> DEFINE new == Append(events, lines[n])
<1>1. PICK m \in Nat : m = Len(events)
  OBVIOUS
<1>2. Len(new) = m + 1 /\ new[m + 1] = lines[n] /\ \A r \in 1..m : new[r] = events[r]
  BY <1>1
<1>3. \A r \in 1..m : events[r] # lines[n]
  BY <1>1 DEF Seen, ToSet
<1> HIDE DEF new
<1>4. ASSUME NEW k \in 1..n
      PROVE  \E r \in 1..(m + 1) : new[r] = lines[k]
  <2>1. CASE k = n
    BY <1>2, <2>1
  <2>2. CASE k # n
    <3>1. k \in 1..(n - 1)
      BY <2>2
    <3>2. PICK r \in 1..m : events[r] = lines[k]
      BY <1>1, <3>1 DEF Reads
    <3>3. QED
      BY <1>2, <3>2
  <2>3. QED
    BY <2>1, <2>2
<1>5. \A r \in 1..(m + 1), q \in 1..(m + 1) : new[r] = new[q] => r = q
  <2>1. SUFFICES ASSUME NEW r \in 1..(m + 1), NEW q \in 1..(m + 1), new[r] = new[q]
                 PROVE  r = q
    OBVIOUS
  <2>2. \A x \in 1..(m + 1) : x \in 1..m \/ x = m + 1
    OBVIOUS
  <2>3. \A x \in 1..m, y \in 1..m : events[x] = events[y] => x = y
    BY <1>1 DEF Reads
  <2>4. QED
    BY <1>2, <1>3, <2>1, <2>2, <2>3
<1>6. ASSUME NEW r \in 1..(m + 1)
      PROVE  \E i \in 1..n :
               /\ new[r] = lines[i]
               /\ \A q \in 1..(r - 1) : \E j \in 1..(i - 1) : new[q] = lines[j]
               /\ \A j \in 1..(i - 1) : \E q \in 1..(r - 1) : new[q] = lines[j]
  <2>1. CASE r = m + 1
    <3>1. \A q \in 1..m : \E j \in 1..(n - 1) : new[q] = lines[j]
      BY <1>1, <1>2 DEF Reads
    <3>2. \A j \in 1..(n - 1) : \E q \in 1..m : new[q] = lines[j]
      BY <1>1, <1>2 DEF Reads
    <3>3. n \in 1..n /\ r - 1 = m
      BY <2>1
    <3>4. QED
      BY <1>2, <2>1, <3>1, <3>2, <3>3
  <2>2. CASE r # m + 1
    <3>1. r \in 1..m
      BY <2>2
    <3>2. PICK i \in 1..(n - 1) :
            /\ events[r] = lines[i]
            /\ \A q \in 1..(r - 1) : \E j \in 1..(i - 1) : events[q] = lines[j]
            /\ \A j \in 1..(i - 1) : \E q \in 1..(r - 1) : events[q] = lines[j]
      BY <1>1, <3>1 DEF Reads
    <3>3. i \in 1..n /\ new[r] = lines[i] /\ \A q \in 1..(r - 1) : new[q] = events[q]
      BY <1>2, <3>1, <3>2
    <3>4. \A q \in 1..(r - 1) : \E j \in 1..(i - 1) : new[q] = lines[j]
      BY <3>2, <3>3
    <3>5. \A j \in 1..(i - 1) : \E q \in 1..(r - 1) : new[q] = lines[j]
      BY <3>2, <3>3
    <3>6. QED
      BY <3>3, <3>4, <3>5
  <2>3. QED
    BY <2>1, <2>2
<1>7. Reads(new, lines, n)
  BY <1>2, <1>4, <1>5, <1>6 DEF Reads
<1>8. QED
  BY <1>7 DEF new

\* read_events(): each event once, where it is met first.
LEMMA EventsRead ==
  ASSUME NEW S, NEW lines \in Seq(S), Distinct(lines)
  PROVE  Events(lines) \in Seq(S) /\ Reads(Events(lines), lines, Len(lines))
<1>1. PICK n \in Nat : n = Len(lines)
  OBVIOUS
<1>2. PICK read \in [0..n -> Seq(S)] :
        /\ read[0] = <<>>
        /\ \A i \in 1..n : read[i] = Take(read[i - 1], lines[i])
        /\ Events(lines) = read[n]
  BY <1>1, EventsIs
<1> DEFINE T == {i \in 0..n : Reads(read[i], lines, i)}
<1>3. 0 \in T
  <2>1. Reads(<<>>, lines, 0)
    BY DEF Reads
  <2>2. QED
    BY <1>2, <2>1
<1>4. ASSUME NEW i \in 1..n, i - 1 \in T
      PROVE  i \in T
  <2>1. read[i - 1] \in Seq(S) /\ Reads(read[i - 1], lines, i - 1) /\ i \in 1..Len(lines)
    BY <1>1, <1>4
  <2>2. CASE Seen(read[i - 1], lines[i])
    BY <1>2, <2>1, <2>2, ReadsSeen DEF Take
  <2>3. CASE ~Seen(read[i - 1], lines[i])
    BY <1>2, <2>1, <2>3, ReadsNew DEF Take
  <2>4. QED
    BY <2>2, <2>3
<1>5. \A i \in 0..n : i \in T
  <2> HIDE DEF T
  <2>1. QED
    BY <1>3, <1>4, UpTo
<1>6. QED
  BY <1>1, <1>2, <1>5

-----------------------------------------------------------------------------
(* Nothing is lost *)

JournalInv == Types /\ Locked /\ Limited /\ Clean /\ Kept /\ PassStates /\ History

\* The invariant all three properties follow from.
LEMMA JournalInvariant == Spec => []JournalInv
<1>1. Init => JournalInv
  <2>1. ASSUME Init
        PROVE  Types /\ Locked
    BY <2>1, JournalAssumption DEF Init, Types, Locked
  <2>2. ASSUME Init
        PROVE  Limited
    BY <2>2, SizeEmpty, JournalAssumption DEF Init, Limited
  <2>3. ASSUME Init
        PROVE  Clean /\ PassStates
    BY <2>3, JournalAssumption DEF Init, Clean, PassStates
  <2>4. QED
    BY <2>1, <2>2, <2>3, KeptInit, HistoryInit DEF JournalInv
<1>2. JournalInv /\ [Next]_vars => JournalInv'
  BY LockedStep, LimitedStep, CleanStep, KeptStep, PassStatesStep, HistoryStep DEF JournalInv
<1>3. QED
  BY <1>1, <1>2, PTL DEF Spec

\* Every event stands in h behind what it may follow.
Chronicle(h) == \A z \in 1..Len(h) : h[z] # Garbage => Proper(h[z]) /\ Fits(h[z], z - 1, h)

\* Of two events of a pass the one in front has the smaller number, and both agree on how
\* many outcomes the pass has unless it is the start.
LEMMA InOrder ==
  ASSUME NEW h, Len(h) \in Nat, Chronicle(h), NEW x \in 1..Len(h), NEW y \in 1..Len(h), x < y,
         h[x] # Garbage, h[y] # Garbage, h[x].pass = h[y].pass
  PROVE  h[x].seq < h[y].seq /\ (h[x].seq # 0 => h[x].total = h[y].total)
<1>1. x \in 1..(y - 1)
  OBVIOUS
<1>2. Fits(h[y], y - 1, h)
  BY DEF Chronicle
<1>3. QED
  BY <1>1, <1>2 DEF Fits

\* An event stands there once.
LEMMA OnceIn ==
  ASSUME NEW h \in Seq(Line), Chronicle(h), NEW x \in 1..Len(h), NEW y \in 1..Len(h),
         h[x] # Garbage, h[y] # Garbage, h[x].pass = h[y].pass, h[x].seq = h[y].seq
  PROVE  x = y
<1>1. h[x].seq \in Nat
  BY DEF Chronicle, Proper, Event
<1>2. CASE x < y
  BY <1>1, <1>2, InOrder
<1>3. CASE y < x
  BY <1>1, <1>3, InOrder
<1>4. QED
  BY <1>2, <1>3

\* A walk that meets no garbage meets no two events of one name.
LEMMA WalkDistinct ==
  ASSUME NEW h \in Seq(Line), Chronicle(h), NEW lines, NEW idx, Places(idx, lines, h),
         \A i \in 1..Len(lines) : lines[i] # Garbage
  PROVE  Distinct(lines)
<1>1. SUFFICES ASSUME NEW i \in 1..Len(lines), NEW j \in 1..Len(lines),
                      lines[i].pass = lines[j].pass, lines[i].seq = lines[j].seq
               PROVE  lines[i] = lines[j]
  BY DEF Distinct
<1>2. /\ idx[i] \in 1..Len(h) /\ lines[i] = h[idx[i]]
      /\ idx[j] \in 1..Len(h) /\ lines[j] = h[idx[j]]
  BY DEF Places
<1>3. idx[i] = idx[j]
  BY <1>1, <1>2, OnceIn
<1>4. QED
  BY <1>2, <1>3

\* A walk has all that follows the first place it comes to.
LEMMA WalkIsTail ==
  ASSUME NEW lines, NEW h, NEW idx, Places(idx, lines, h), Len(lines) \in Nat, Len(h) \in Nat
  PROVE  \E k \in 0..Len(h) :
           /\ \A i \in 1..Len(lines) : \E m \in (k + 1)..Len(h) : lines[i] = h[m]
           /\ \A m \in (k + 1)..Len(h) : \E i \in 1..Len(lines) : lines[i] = h[m]
<1>1. CASE Len(lines) = 0
  <2>1. Len(h) \in 0..Len(h) /\ (Len(h) + 1)..Len(h) = {}
    OBVIOUS
  <2>2. QED
    BY <1>1, <2>1
<1>2. CASE Len(lines) # 0
  <2> DEFINE S == {idx[i] : i \in 1..Len(lines)}
  <2>1. S \in SUBSET Nat /\ S # {}
    <3>1. \A i \in 1..Len(lines) : idx[i] \in 1..Len(h)
      BY DEF Places
    <3>2. \A m \in 1..Len(h) : m \in Nat
      OBVIOUS
    <3>3. S \in SUBSET Nat
      BY <3>1, <3>2
    <3>4. idx[1] \in S
      <4>1. 1 \in 1..Len(lines)
        BY <1>2
      <4>2. QED
        BY <4>1
    <3>5. QED
      BY <3>3, <3>4
  <2>2. PICK lo \in S : \A m \in S : lo <= m
    <3> HIDE DEF S
    <3>1. QED
      BY <2>1, LeastOf
  <2>3. PICK i0 \in 1..Len(lines) : lo = idx[i0]
    OBVIOUS
  <2>4. lo \in 1..Len(h) /\ \A i \in 1..Len(lines) : idx[i] \in lo..Len(h) /\ lines[i] = h[idx[i]]
    BY <2>2, <2>3 DEF Places
  <2>5. ASSUME NEW m \in lo..Len(h)
        PROVE  \E i \in 1..Len(lines) : lines[i] = h[m]
    <3>1. idx[Len(lines)] = Len(h) /\ Len(lines) \in i0..Len(lines) /\ m \in Nat
      BY <1>2, <2>3, <2>4 DEF Places
    <3>2. PICK q \in i0..Len(lines) : idx[q] = m
      BY <2>3, <2>4, <3>1, WalkPasses
    <3>3. QED
      BY <2>4, <3>2
  <2>6. lo - 1 \in 0..Len(h) /\ (lo - 1) + 1 = lo
    BY <2>4
  <2>7. PICK k \in 0..Len(h) : k + 1 = lo
    BY <2>6
  <2>8. /\ \A i \in 1..Len(lines) : \E m \in (k + 1)..Len(h) : lines[i] = h[m]
        /\ \A m \in (k + 1)..Len(h) : \E i \in 1..Len(lines) : lines[i] = h[m]
    BY <2>4, <2>5, <2>7
  <2>9. QED
    BY <2>8
<1>3. QED
  BY <1>1, <1>2

\* What a reader finds is a tail of what was appended, without a gap and each event once,
\* back as far as the limits allow unless a rotation was cut short, and with the newest
\* event in any case: append(), rotate_if_needed() and read_events() of activity.rs.
THEOREM JournalKeepsEvents == Spec => []EventsKept
<1>1. ASSUME JournalInv
      PROVE  EventsKept
  <2>1. SUFFICES ASSUME writer = Nobody, ~torn
                 PROVE  /\ IsInjective(Events(Lines))
                        /\ \E k \in 0..Len(log) :
                             ToSet(Events(Lines)) = ToSet(SubSeq(log, k + 1, Len(log)))
                        /\ log # <<>> => Last(log) \in ToSet(Events(Lines))
                        /\ ~cut => ToSet(Newest(log, MaxEvents, MaxBytes)) \subseteq ToSet(Events(Lines))
    BY DEF EventsKept
  <2> USE <1>1
  <2>2. log \in Seq(Line) /\ Files \in Seq(Line) /\ Len(log) \in Nat /\ Len(Files) \in Nat
    BY DEF JournalInv, Types, Files
  <2>3. Lines = Files
    <3>1. tail = <<>>
      BY <2>1 DEF JournalInv, Locked
    <3>2. QED
      BY <2>2, <3>1 DEF Lines, Files, JournalInv, Types
  <2>4. PICK idx : Places(idx, Files, log)
    BY DEF JournalInv, Kept, Walked, Walk
  <2> DEFINE events == Events(Files)
  <2>5. events \in Seq(Line) /\ Reads(events, Files, Len(Files))
    <3>1. Chronicle(log)
      BY DEF JournalInv, History, Recorded, Chronicle
    <3>2. \A i \in 1..Len(Files) : idx[i] \in 1..Len(log) /\ Files[i] = log[idx[i]]
      BY <2>4 DEF Places
    <3>3. \A i \in 1..Len(Files) : Files[i] # Garbage
      BY <2>1, <2>2, <3>2 DEF JournalInv, Clean
    <3>4. QED
      BY <2>2, <2>4, <3>1, <3>3, WalkDistinct, EventsRead
  <2> HIDE DEF events
  <2>6. ToSet(events) = {Files[i] : i \in 1..Len(Files)}
    <3>1. ToSet(events) = {events[r] : r \in 1..Len(events)}
      BY <2>5 DEF ToSet
    <3>2. \A i \in 1..Len(Files) : \E r \in 1..Len(events) : events[r] = Files[i]
      BY <2>5 DEF Reads
    <3>3. \A r \in 1..Len(events) : \E i \in 1..Len(Files) : events[r] = Files[i]
      BY <2>5 DEF Reads
    <3>4. ASSUME NEW x \in ToSet(events)
          PROVE  \E i \in 1..Len(Files) : x = Files[i]
      <4>1. PICK r \in 1..Len(events) : x = events[r]
        BY <3>1
      <4>2. QED
        BY <3>3, <4>1
    <3>5. ASSUME NEW i \in 1..Len(Files)
          PROVE  Files[i] \in ToSet(events)
      <4>1. PICK r \in 1..Len(events) : events[r] = Files[i]
        BY <3>2
      <4>2. QED
        BY <3>1, <4>1
    <3>6. QED
      BY <3>4, <3>5
  <2>7. IsInjective(events)
    BY <2>5 DEF Reads, IsInjective
  <2>8. \E k \in 0..Len(log) : ToSet(events) = ToSet(SubSeq(log, k + 1, Len(log)))
    <3>1. PICK k \in 0..Len(log) :
            /\ \A i \in 1..Len(Files) : \E m \in (k + 1)..Len(log) : Files[i] = log[m]
            /\ \A m \in (k + 1)..Len(log) : \E i \in 1..Len(Files) : Files[i] = log[m]
      BY <2>2, <2>4, WalkIsTail
    <3>2. ToSet(After(log, k)) = {log[m] : m \in (k + 1)..Len(log)}
      BY <2>2, AfterHas
    <3>3. ToSet(events) = {log[m] : m \in (k + 1)..Len(log)}
      BY <2>6, <3>1
    <3>4. QED
      BY <3>2, <3>3 DEF After
  <2>9. ASSUME log # <<>>
        PROVE  Last(log) \in ToSet(events)
    <3>1. Len(log) # 0
      BY <2>2, <2>9, EmptySeq
    <3>2. Len(Files) # 0
      BY <3>1 DEF JournalInv, Kept, NewestThere
    <3>3. Len(Files) \in 1..Len(Files) /\ Files[Len(Files)] = log[Len(log)]
      BY <2>2, <2>4, <3>2 DEF Places
    <3>4. QED
      BY <2>6, <3>3 DEF Last
  <2>10. ASSUME ~cut
         PROVE  ToSet(Newest(log, MaxEvents, MaxBytes)) \subseteq ToSet(events)
    <3>1. PICK k2 \in 0..Len(log) : Newest(log, MaxEvents, MaxBytes) = After(log, k2) /\ Room(log, k2)
      BY <2>2, NewestIs
    <3>2. phase # "renamed"
      BY <2>1 DEF JournalInv, Locked
    <3>3. PICK k : Follow(k, Files, log)
      BY <2>10, <3>2 DEF JournalInv, Kept, FarBack, Recent
    <3>4. k \in 0..Len(log) /\ k <= k2
      BY <2>2, <3>1, <3>3 DEF Follow
    <3>5. ASSUME NEW m \in (k2 + 1)..Len(log)
          PROVE  log[m] \in ToSet(events)
      <4>1. m - k \in 1..Len(Files) /\ k + (m - k) = m
        BY <2>2, <3>1, <3>3, <3>4, <3>5 DEF Follow
      <4>2. Files[m - k] = log[m]
        BY <3>3, <4>1 DEF Follow
      <4>3. QED
        BY <2>6, <4>1, <4>2
    <3>6. ToSet(After(log, k2)) = {log[m] : m \in (k2 + 1)..Len(log)}
      BY <2>2, AfterHas
    <3>7. QED
      BY <3>1, <3>5, <3>6
  <2>11. QED
    BY <2>3, <2>7, <2>8, <2>9, <2>10 DEF events
<1>2. QED
  BY <1>1, JournalInvariant, PTL

-----------------------------------------------------------------------------
(* Completed passes *)

PassIds == Procs \X Nat

\* What completed_passes() holds while it reads.
Holding == [starts : SUBSET PassIds, actions : SUBSET Event,
            completed : Seq([pass : PassIds, known : BOOLEAN, total : Nat, actions : SUBSET Nat])]

LEMMA MeetType ==
  ASSUME NEW acc \in Holding, NEW e \in Event
  PROVE  Meet(acc, e) \in Holding
<1> DEFINE own  == {a \in acc.actions : a.pass = e.pass}
           done == [pass |-> e.pass, known |-> e.pass \in acc.starts,
                    total |-> e.total, actions |-> {a.seq : a \in own}]
           C    == [pass : PassIds, known : BOOLEAN, total : Nat, actions : SUBSET Nat]
<1>1. /\ e.pass \in PassIds /\ e.total \in Nat /\ e.type \in {"start", "action", "summary"}
      /\ acc.starts \in SUBSET PassIds /\ acc.actions \in SUBSET Event /\ acc.completed \in Seq(C)
  BY DEF Event, PassIds, Holding
<1>2. CASE e.type = "start"
  <2>1. Meet(acc, e) = [acc EXCEPT !.starts = @ \cup {e.pass}]
    BY <1>2 DEF Meet
  <2>2. QED
    BY <1>1, <2>1 DEF Holding
<1>3. CASE e.type = "action"
  <2>1. Meet(acc, e) = [acc EXCEPT !.actions = @ \cup {e}]
    BY <1>3 DEF Meet
  <2>2. QED
    BY <1>1, <2>1 DEF Holding
<1>4. CASE e.type = "summary"
  <2>1. Meet(acc, e) = [starts |-> acc.starts \ {e.pass}, actions |-> acc.actions \ own,
                       completed |-> Append(acc.completed, done)]
    BY <1>4 DEF Meet
  <2>2. {a.seq : a \in own} \in SUBSET Nat
    BY <1>1 DEF Event
  <2>3. done \in C
    BY <1>1, <2>2
  <2>4. Append(acc.completed, done) \in Seq(C)
    <3> HIDE DEF done, C
    <3>1. QED
      BY <1>1, <2>3
  <2>5. acc.starts \ {e.pass} \in SUBSET PassIds /\ acc.actions \ own \in SUBSET Event
    BY <1>1
  <2>6. QED
    BY <2>1, <2>4, <2>5 DEF Holding
<1>5. QED
  BY <1>1, <1>2, <1>3, <1>4

\* Completed meets event after event.
LEMMA CompletedIs ==
  ASSUME NEW events \in Seq(Event)
  PROVE  \E met \in [0..Len(events) -> Holding] :
           /\ met[0] = NoneMet
           /\ \A i \in 1..Len(events) : met[i] = Meet(met[i - 1], events[i])
           /\ Completed(events) = met[Len(events)].completed
<1>1. PICK n \in Nat : n = Len(events)
  OBVIOUS
<1>2. \A i \in 1..n : events[i] \in Event
  BY <1>1
<1>3. NoneMet \in Holding
  BY DEF NoneMet, Holding
<1> DEFINE Meeting(m) == m = [i \in 0..n |-> IF i = 0 THEN NoneMet ELSE Meet(m[i - 1], events[i])]
           G == [i \in 1..n |-> [d \in Holding |-> Meet(d, events[i])]]
           met == CHOOSE m : Meeting(m)
<1>4. PICK f \in [0..n -> Holding] : f[0] = NoneMet /\ \A i \in 1..n : f[i] = G[i][f[i - 1]]
  <2>1. PICK D : D = Holding
    OBVIOUS
  <2>2. NoneMet \in D /\ G \in [1..n -> [D -> D]]
    BY <1>2, <1>3, <2>1, MeetType
  <2> HIDE DEF G
  <2>3. \E f \in [0..n -> D] : Follows(f, n, NoneMet, G)
    BY <2>2, Recursion
  <2>4. QED
    BY <2>1, <2>3 DEF Follows
<1>5. ASSUME NEW i \in 1..n
      PROVE  f[i - 1] \in Holding /\ f[i] = Meet(f[i - 1], events[i])
  <2>1. i - 1 \in 0..n
    OBVIOUS
  <2>2. f[i - 1] \in Holding
    BY <2>1
  <2>3. QED
    BY <1>4, <2>2
<1>6. Meeting(f)
  BY <1>4, <1>5
<1>7. Meeting(met)
  <2> HIDE DEF Meeting
  <2>1. QED
    BY <1>6
<1>8. Completed(events) = met[n].completed
  BY <1>1 DEF Completed
<1> HIDE DEF met
<1>9. /\ met[0] = NoneMet
      /\ \A i \in 1..n : met[i] = Meet(met[i - 1], events[i])
  <2>1. met = [i \in 0..n |-> IF i = 0 THEN NoneMet ELSE Meet(met[i - 1], events[i])]
    BY <1>7
  <2>2. QED
    BY <2>1
<1>10. \A i \in 0..n : met[i] \in Holding
  <2> DEFINE T == {i \in 0..n : met[i] \in Holding}
  <2>1. 0 \in T
    <3>1. met[0] \in Holding
      BY <1>3, <1>9
    <3>2. QED
      BY <3>1
  <2>2. ASSUME NEW i \in 1..n, i - 1 \in T
        PROVE  i \in T
    <3>1. met[i - 1] \in Holding /\ events[i] \in Event /\ met[i] = Meet(met[i - 1], events[i])
      BY <1>2, <1>9, <2>2
    <3>2. met[i] \in Holding
      BY <3>1, MeetType
    <3>3. QED
      BY <3>2
  <2>3. \A i \in 0..n : i \in T
    <3> HIDE DEF T
    <3>1. QED
      BY <2>1, <2>2, UpTo
  <2>4. QED
    BY <2>3
<1>11. met \in [0..n -> Holding]
  <2>1. met = [i \in 0..n |-> met[i]]
    BY <1>7
  <2>2. QED
    BY <1>10, <2>1
<1>12. QED
  BY <1>1, <1>8, <1>9, <1>11

\* c is what the summary at r makes of the events before it.
Completes(c, events, r) ==
  /\ events[r].type = "summary"
  /\ c.total = events[r].total
  /\ c.known => \E i \in 1..(r - 1) : events[i].type = "start" /\ events[i].pass = events[r].pass
  /\ \A s \in c.actions : \E i \in 1..(r - 1) :
       events[i].type = "action" /\ events[i].pass = events[r].pass /\ events[i].seq = s
  /\ (\A j \in 1..(r - 1) : events[j].pass = events[r].pass => events[j].type # "summary") =>
       \A i \in 1..(r - 1) :
         (events[i].type = "action" /\ events[i].pass = events[r].pass) => events[i].seq \in c.actions

\* What completed_passes() holds after n events.
StartsMet(acc, events, n) ==
  \A P \in acc.starts : \E i \in 1..n : events[i].type = "start" /\ events[i].pass = P

ActionsMet(acc, events, n) ==
  /\ \A x \in acc.actions : x.type = "action" /\ \E i \in 1..n : events[i] = x
  /\ \A i \in 1..n :
       (/\ events[i].type = "action"
        /\ \A j \in 1..n : events[j].pass = events[i].pass => events[j].type # "summary")
       => events[i] \in acc.actions

PassesMet(acc, events, n) ==
  \A k \in 1..Len(acc.completed) : \E r \in 1..n : Completes(acc.completed[k], events, r)

Held(acc, events, n) ==
  StartsMet(acc, events, n) /\ ActionsMet(acc, events, n) /\ PassesMet(acc, events, n)

\* A start, an action or a summary keeps what holds of those met.
LEMMA HeldStart ==
  ASSUME NEW acc \in Holding, NEW events \in Seq(Event), NEW n \in 1..Len(events),
         Held(acc, events, n - 1), events[n].type = "start"
  PROVE  Held(Meet(acc, events[n]), events, n)
<1> DEFINE e == events[n]
           new == Meet(acc, e)
<1>1. /\ new.starts = acc.starts \cup {e.pass} /\ new.actions = acc.actions
      /\ new.completed = acc.completed
  BY DEF Meet, Holding
<1>2. \A i \in 1..n : i \in 1..(n - 1) \/ i = n
  OBVIOUS
<1>3. n \in 1..n /\ \A i \in 1..(n - 1) : i \in 1..n
  OBVIOUS
<1> HIDE DEF new
<1>4. StartsMet(new, events, n)
  BY <1>1, <1>3 DEF Held, StartsMet
<1>5. ActionsMet(new, events, n)
  BY <1>1, <1>2, <1>3 DEF Held, ActionsMet
<1>6. PassesMet(new, events, n)
  BY <1>1, <1>3 DEF Held, PassesMet
<1>7. QED
  BY <1>4, <1>5, <1>6 DEF Held, new

LEMMA HeldAction ==
  ASSUME NEW acc \in Holding, NEW events \in Seq(Event), NEW n \in 1..Len(events),
         Held(acc, events, n - 1), events[n].type = "action"
  PROVE  Held(Meet(acc, events[n]), events, n)
<1> DEFINE e == events[n]
           new == Meet(acc, e)
<1>1. /\ new.starts = acc.starts /\ new.actions = acc.actions \cup {e}
      /\ new.completed = acc.completed
  BY DEF Meet, Holding
<1>2. \A i \in 1..n : i \in 1..(n - 1) \/ i = n
  OBVIOUS
<1>3. n \in 1..n /\ \A i \in 1..(n - 1) : i \in 1..n
  OBVIOUS
<1> HIDE DEF new
<1>4. StartsMet(new, events, n)
  BY <1>1, <1>3 DEF Held, StartsMet
<1>5. ActionsMet(new, events, n)
  <2>1. ASSUME NEW x \in new.actions
        PROVE  x.type = "action" /\ \E i \in 1..n : events[i] = x
    BY <1>1, <1>3, <2>1 DEF Held, ActionsMet
  <2>2. ASSUME NEW i \in 1..n, events[i].type = "action",
               \A j \in 1..n : events[j].pass = events[i].pass => events[j].type # "summary"
        PROVE  events[i] \in new.actions
    BY <1>1, <1>2, <1>3, <2>2 DEF Held, ActionsMet
  <2>3. QED
    BY <2>1, <2>2 DEF ActionsMet
<1>6. PassesMet(new, events, n)
  BY <1>1, <1>3 DEF Held, PassesMet
<1>7. QED
  BY <1>4, <1>5, <1>6 DEF Held, new

LEMMA HeldSummary ==
  ASSUME NEW acc \in Holding, NEW events \in Seq(Event), NEW n \in 1..Len(events),
         Held(acc, events, n - 1), events[n].type = "summary"
  PROVE  Held(Meet(acc, events[n]), events, n)
<1> DEFINE e    == events[n]
           new  == Meet(acc, e)
           own  == {a \in acc.actions : a.pass = e.pass}
           done == [pass |-> e.pass, known |-> e.pass \in acc.starts,
                    total |-> e.total, actions |-> {a.seq : a \in own}]
<1>1. /\ new.starts = acc.starts \ {e.pass} /\ new.actions = acc.actions \ own
      /\ new.completed = Append(acc.completed, done)
  BY DEF Meet
<1>2. \A i \in 1..n : i \in 1..(n - 1) \/ i = n
  OBVIOUS
<1>3. n \in 1..n /\ \A i \in 1..(n - 1) : i \in 1..n
  OBVIOUS
<1>4. /\ done.total = e.total /\ done.known = (e.pass \in acc.starts)
      /\ \A s : s \in done.actions <=> \E a \in acc.actions : a.pass = e.pass /\ a.seq = s
  OBVIOUS
<1> HIDE DEF new
<1>5. StartsMet(new, events, n)
  BY <1>1, <1>3 DEF Held, StartsMet
<1>6. ActionsMet(new, events, n)
  <2>1. ASSUME NEW x \in new.actions
        PROVE  x.type = "action" /\ \E i \in 1..n : events[i] = x
    BY <1>1, <1>3, <2>1 DEF Held, ActionsMet
  <2>2. ASSUME NEW i \in 1..n, events[i].type = "action",
               \A j \in 1..n : events[j].pass = events[i].pass => events[j].type # "summary"
        PROVE  events[i] \in new.actions
    <3>1. i \in 1..(n - 1) /\ events[i].pass # e.pass
      BY <1>2, <1>3, <2>2
    <3>2. events[i] \in acc.actions
      BY <1>3, <2>2, <3>1 DEF Held, ActionsMet
    <3>3. QED
      BY <1>1, <3>1, <3>2
  <2>3. QED
    BY <2>1, <2>2 DEF ActionsMet
<1>7. Completes(done, events, n)
  <2> HIDE DEF done
  <2>1. events[n].type = "summary" /\ done.total = events[n].total
    BY <1>4
  <2>2. done.known => \E i \in 1..(n - 1) : events[i].type = "start" /\ events[i].pass = events[n].pass
    BY <1>4 DEF Held, StartsMet
  <2>3. ASSUME NEW s \in done.actions
        PROVE  \E i \in 1..(n - 1) :
                 events[i].type = "action" /\ events[i].pass = events[n].pass /\ events[i].seq = s
    <3>1. PICK a \in acc.actions : a.pass = e.pass /\ a.seq = s
      BY <1>4
    <3>2. a.type = "action" /\ \E i \in 1..(n - 1) : events[i] = a
      BY DEF Held, ActionsMet
    <3>3. QED
      BY <3>1, <3>2
  <2>4. ASSUME \A j \in 1..(n - 1) : events[j].pass = events[n].pass => events[j].type # "summary",
               NEW i \in 1..(n - 1), events[i].type = "action", events[i].pass = events[n].pass
        PROVE  events[i].seq \in done.actions
    <3>1. events[i] \in acc.actions
      BY <2>4 DEF Held, ActionsMet
    <3>2. QED
      BY <1>4, <2>4, <3>1
  <2>5. QED
    BY <2>1, <2>2, <2>3, <2>4 DEF Completes
<1>8. PassesMet(new, events, n)
  <2>1. SUFFICES ASSUME NEW k \in 1..Len(new.completed)
                 PROVE  \E r \in 1..n : Completes(new.completed[k], events, r)
    BY DEF PassesMet
  <2> HIDE DEF done
  <2>2. PICK m \in Nat : m = Len(acc.completed)
    BY DEF Holding
  <2>3. /\ Len(new.completed) = m + 1 /\ new.completed[m + 1] = done
        /\ \A q \in 1..m : new.completed[q] = acc.completed[q]
    BY <1>1, <2>2 DEF Holding
  <2>4. CASE k = m + 1
    BY <1>3, <1>7, <2>3, <2>4
  <2>5. CASE k # m + 1
    <3>1. k \in 1..m
      BY <2>1, <2>3, <2>5
    <3>2. PICK r \in 1..(n - 1) : Completes(acc.completed[k], events, r)
      BY <2>2, <3>1 DEF Held, PassesMet
    <3>3. QED
      BY <1>3, <2>3, <3>1, <3>2
  <2>6. QED
    BY <2>4, <2>5
<1>9. QED
  BY <1>5, <1>6, <1>8 DEF Held, new

\* completed_passes(): each pass it returns is what a summary makes of the events before it.
LEMMA CompletedMet ==
  ASSUME NEW events \in Seq(Event), NEW c \in ToSet(Completed(events))
  PROVE  \E r \in 1..Len(events) : Completes(c, events, r)
<1>1. PICK n \in Nat : n = Len(events)
  OBVIOUS
<1>2. PICK met \in [0..n -> Holding] :
        /\ met[0] = NoneMet
        /\ \A i \in 1..n : met[i] = Meet(met[i - 1], events[i])
        /\ Completed(events) = met[n].completed
  BY <1>1, CompletedIs
<1> DEFINE T == {i \in 0..n : Held(met[i], events, i)}
<1>3. 0 \in T
  <2>1. Held(NoneMet, events, 0)
    BY DEF Held, StartsMet, ActionsMet, PassesMet, NoneMet
  <2>2. QED
    BY <1>2, <2>1
<1>4. ASSUME NEW i \in 1..n, i - 1 \in T
      PROVE  i \in T
  <2>1. /\ met[i - 1] \in Holding /\ Held(met[i - 1], events, i - 1)
        /\ i \in 1..Len(events) /\ events[i].type \in {"start", "action", "summary"}
    <3>1. i - 1 \in 0..n /\ i \in 1..Len(events) /\ events[i] \in Event
      BY <1>1
    <3>2. events[i].type \in {"start", "action", "summary"}
      BY <3>1 DEF Event
    <3>3. QED
      BY <1>4, <3>1, <3>2
  <2>2. Held(Meet(met[i - 1], events[i]), events, i)
    BY <2>1, HeldStart, HeldAction, HeldSummary
  <2>3. QED
    BY <1>2, <2>2
<1>5. \A i \in 0..n : i \in T
  <2> HIDE DEF T
  <2>1. QED
    BY <1>3, <1>4, UpTo
<1>6. met[n] \in Holding /\ PassesMet(met[n], events, n)
  BY <1>5 DEF Held
<1>7. PICK k \in 1..Len(met[n].completed) : c = met[n].completed[k]
  BY <1>2, <1>6 DEF ToSet
<1>8. QED
  BY <1>1, <1>6, <1>7 DEF PassesMet

\* A proper event is a start, an action or a summary by its number.
LEMMA TypeOfProper ==
  ASSUME NEW e, Proper(e)
  PROVE  /\ e.seq \in Nat /\ e.total \in Nat
         /\ e.type = "start" => e.seq = 0
         /\ e.type = "action" => e.seq \in 1..e.total
         /\ e.type = "summary" => e.seq = e.total + 1
         /\ e.seq \in 1..e.total => e.type = "action"
<1>1. e.seq \in Nat /\ e.total \in Nat
  BY DEF Proper, Event
<1>2. CASE e.seq = 0
  <2>1. e.type = "start"
    <3>1. e.type = CASE e.seq = 0 -> "start" [] e.seq > e.total -> "summary" [] OTHER -> "action"
      BY DEF Proper
    <3>2. ~(e.seq > e.total)
      BY <1>1, <1>2
    <3>3. QED
      BY <1>2, <3>1, <3>2
  <2>2. QED
    BY <1>1, <1>2, <2>1
<1>3. CASE e.seq # 0 /\ e.seq > e.total
  <2>1. e.type = "summary"
    BY <1>3 DEF Proper
  <2>2. e.seq = e.total + 1
    BY <1>1, <1>3 DEF Proper
  <2>3. QED
    BY <1>1, <1>3, <2>1, <2>2
<1>4. CASE e.seq # 0 /\ ~(e.seq > e.total)
  <2>1. e.type = "action"
    BY <1>4 DEF Proper
  <2>2. QED
    BY <1>1, <1>4, <2>1
<1>5. QED
  BY <1>2, <1>3, <1>4

\* Of a walk that meets no garbage, a summary has every action of its pass before it and
\* no other, if the walk met the start of the pass.
LEMMA WholePass ==
  ASSUME NEW h \in Seq(Line), Chronicle(h), NEW lines \in Seq(Event), NEW idx, Places(idx, lines, h),
         NEW events \in Seq(Event), Reads(events, lines, Len(lines)),
         NEW r \in 1..Len(events), NEW c, Completes(c, events, r), c.known
  PROVE  c.actions = 1..c.total
<1> DEFINE e == events[r]
<1>1. /\ Len(h) \in Nat /\ Len(lines) \in Nat /\ Len(events) \in Nat
      /\ \A q \in 1..(r - 1) : q \in 1..Len(events)
  OBVIOUS
<1>2. ASSUME NEW i \in 1..Len(lines)
      PROVE  /\ idx[i] \in 1..Len(h) /\ lines[i] = h[idx[i]] /\ h[idx[i]] # Garbage
             /\ Proper(lines[i])
  <2>1. idx[i] \in 1..Len(h) /\ lines[i] = h[idx[i]] /\ lines[i] \in Event
    BY DEF Places
  <2>2. QED
    BY <2>1, JournalAssumption DEF Chronicle
<1>3. PICK iz \in 1..Len(lines) :
        /\ e = lines[iz]
        /\ \A q \in 1..(r - 1) : \E j \in 1..(iz - 1) : events[q] = lines[j]
        /\ \A j \in 1..(iz - 1) : \E q \in 1..(r - 1) : events[q] = lines[j]
  BY DEF Reads
<1>4. PICK z \in 1..Len(h) : z = idx[iz] /\ h[z] = e
  <2>1. idx[iz] \in 1..Len(h) /\ lines[iz] = h[idx[iz]]
    BY <1>2
  <2>2. QED
    BY <1>3, <2>1
<1>5. /\ e.type = "summary" /\ Proper(e) /\ h[z] # Garbage /\ e.seq = e.total + 1
      /\ e.total \in Nat /\ c.total = e.total
  BY <1>2, <1>3, <1>4, TypeOfProper DEF Completes
<1> HIDE DEF e
<1>6. ASSUME NEW q \in 1..(r - 1)
      PROVE  \E j \in 1..(iz - 1), y \in 1..Len(h) :
               y = idx[j] /\ h[y] = events[q] /\ lines[j] = events[q] /\ h[y] # Garbage /\ Proper(h[y])
  <2>1. PICK j \in 1..(iz - 1) : events[q] = lines[j]
    BY <1>3
  <2>2. j \in 1..Len(lines)
    BY <1>1
  <2>3. QED
    BY <1>2, <2>1, <2>2
<1>7. PICK q0 \in 1..(r - 1) : events[q0].type = "start" /\ events[q0].pass = e.pass
  BY DEF Completes, e
<1>8. PICK ia \in 1..(iz - 1), a \in 1..Len(h) :
        a = idx[ia] /\ h[a] = events[q0] /\ h[a] # Garbage /\ Proper(h[a])
  BY <1>6
<1>9. a < z /\ h[a].seq = 0 /\ h[a].pass = e.pass
  <2>1. h[a].seq = 0 /\ h[a].type = "start" /\ h[a].pass = e.pass
    BY <1>7, <1>8, TypeOfProper
  <2>2. a # z
    BY <1>4, <1>5, <2>1
  <2>3. ~(z < a)
    <3>1. h[z].pass = h[a].pass /\ h[z].seq \in Nat
      BY <1>4, <1>5, <2>1
    <3>2. z < a => h[z].seq < h[a].seq
      BY <1>1, <1>5, <1>8, <3>1, InOrder
    <3>3. QED
      BY <2>1, <3>1, <3>2
  <2>4. QED
    BY <2>1, <2>2, <2>3
<1>10. ASSUME NEW q \in 1..(r - 1), events[q].pass = e.pass
       PROVE  /\ events[q].type # "summary"
              /\ events[q].type = "action" => events[q].seq \in 1..e.total
  <2>1. PICK j \in 1..(iz - 1), y \in 1..Len(h) :
          y = idx[j] /\ h[y] = events[q] /\ h[y] # Garbage /\ Proper(h[y])
    BY <1>6
  <2>2. /\ h[y].seq \in Nat /\ h[y].total \in Nat /\ h[y].pass = e.pass
        /\ h[y].type = "action" => h[y].seq \in 1..h[y].total
        /\ h[y].type = "summary" => h[y].seq = h[y].total + 1
    BY <1>10, <2>1, TypeOfProper
  <2>3. CASE y = z
    <3>1. events[q] = events[r]
      BY <1>4, <2>1, <2>3 DEF e
    <3>2. q = r
      BY <1>1, <3>1 DEF Reads
    <3>3. QED
      BY <3>2
  <2>4. CASE y < z
    <3>1. h[y].seq < e.seq /\ (h[y].seq # 0 => h[y].total = e.total)
      BY <1>1, <1>4, <1>5, <2>1, <2>2, <2>4, InOrder
    <3>2. QED
      BY <1>5, <2>1, <2>2, <3>1
  <2>5. CASE z < y
    <3>1. e.seq < h[y].seq /\ (e.seq # 0 => e.total = h[y].total)
      BY <1>1, <1>4, <1>5, <2>1, <2>2, <2>5, InOrder
    <3>2. QED
      BY <1>5, <2>1, <2>2, <3>1
  <2>6. QED
    BY <2>3, <2>4, <2>5
<1>11. ASSUME NEW s \in c.actions
       PROVE  s \in 1..c.total
  <2>1. PICK q \in 1..(r - 1) :
          events[q].type = "action" /\ events[q].pass = e.pass /\ events[q].seq = s
    BY DEF Completes, e
  <2>2. QED
    BY <1>5, <1>10, <2>1
<1>12. ASSUME NEW s \in 1..c.total
       PROVE  s \in c.actions
  <2>1. s \in 1..(e.seq - 1)
    BY <1>5
  <2>2. Fits(e, z - 1, h) /\ a \in 1..(z - 1)
    BY <1>4, <1>5, <1>9 DEF Chronicle
  <2>3. PICK m \in (a + 1)..(z - 1) : h[m] = Garbage \/ (h[m].pass = e.pass /\ h[m].seq = s)
    BY <1>8, <1>9, <2>1, <2>2 DEF Fits
  <2>4. PICK k \in ia..iz : idx[k] = m
    <3>1. ia \in 1..Len(lines) /\ iz \in ia..Len(lines) /\ m \in Nat /\ idx[ia] <= m /\ m <= idx[iz]
      BY <1>1, <1>4, <1>8, <2>3
    <3>2. QED
      BY <1>1, <3>1, WalkPasses
  <2>5. k \in 1..(iz - 1) /\ k \in 1..Len(lines)
    <3>1. k # iz
      BY <1>4, <2>3, <2>4
    <3>2. QED
      BY <1>1, <2>4, <3>1
  <2>6. lines[k].pass = e.pass /\ lines[k].seq = s /\ Proper(lines[k]) /\ lines[k] = h[m]
        /\ h[m] # Garbage
    BY <1>2, <2>3, <2>4, <2>5
  <2>7. h[m].total = e.total
    <3>1. m \in 1..Len(h) /\ m < z
      BY <1>1, <2>3
    <3>2. h[m].pass = h[z].pass /\ h[m].seq # 0
      BY <1>4, <2>6
    <3>3. h[m].total = h[z].total
      BY <1>1, <1>5, <2>6, <3>1, <3>2, InOrder
    <3>4. QED
      BY <1>4, <3>3
  <2>8. lines[k].type = "action"
    BY <1>5, <2>6, <2>7, TypeOfProper
  <2>9. PICK q \in 1..(r - 1) : events[q] = lines[k]
    BY <1>3, <2>5
  <2>10. \A j \in 1..(r - 1) : events[j].pass = events[r].pass => events[j].type # "summary"
    BY <1>10 DEF e
  <2>11. events[q].type = "action" /\ events[q].pass = events[r].pass /\ events[q].seq = s
    BY <2>6, <2>8, <2>9 DEF e
  <2>12. QED
    BY <2>10, <2>11 DEF Completes
<1>13. QED
  BY <1>11, <1>12

\* With the unfinished line the files are still a walk through what was appended.
LEMMA LinesWalk ==
  ASSUME JournalInv, phase # "renamed"
  PROVE  Lines \in Seq(Line) /\ log \o tail \in Seq(Line) /\ Walk(Lines, log \o tail)
<1>1. /\ log \in Seq(Line) /\ Files \in Seq(Line) /\ tail \in Seq(Line)
      /\ Len(log) \in Nat /\ Len(Files) \in Nat /\ Walk(Files, log)
  BY TailIs DEF JournalInv, Types, Files, Kept, Walked
<1>2. Lines = Files \o tail
  BY DEF Lines, Files
<1>3. CASE tail = <<>>
  BY <1>1, <1>2, <1>3
<1>4. CASE tail # <<>>
  <2> DEFINE lines2 == Files \o tail
             h2 == log \o tail
  <2>1. Len(tail) = 1
    BY <1>4, TailIs DEF JournalInv
  <2>2. /\ lines2 \in Seq(Line) /\ Len(lines2) = Len(Files) + 1
        /\ \A i \in 1..Len(Files) : lines2[i] = Files[i]
        /\ lines2[Len(lines2)] = tail[1]
    BY <1>1, <2>1, JoinedOne
  <2>3. /\ h2 \in Seq(Line) /\ Len(h2) = Len(log) + 1
        /\ \A i \in 1..Len(log) : h2[i] = log[i]
        /\ h2[Len(h2)] = tail[1]
    BY <1>1, <2>1, JoinedOne
  <2> HIDE DEF lines2, h2
  <2>4. Walk(lines2, h2)
    BY <1>1, <2>2, <2>3, WalkAppend
  <2>5. QED
    BY <1>2, <2>2, <2>3, <2>4 DEF lines2, h2
<1>5. QED
  BY <1>3, <1>4

\* And what was appended is in order, the unfinished line included.
LEMMA LinesChronicle ==
  ASSUME JournalInv
  PROVE  Chronicle(log \o tail)
<1>1. log \in Seq(Line) /\ tail \in Seq(Line) /\ Len(log) \in Nat
  BY TailIs DEF JournalInv, Types
<1>2. CASE tail = <<>>
  <2>1. log \o tail = log
    BY <1>1, <1>2
  <2>2. QED
    BY <2>1 DEF JournalInv, History, Recorded, Chronicle
<1>3. CASE tail # <<>>
  <2> DEFINE h == log \o tail
  <2>1. Len(tail) = 1
    BY <1>3, TailIs DEF JournalInv
  <2>2. /\ Len(h) = Len(log) + 1
        /\ \A i \in 1..Len(log) : h[i] = log[i]
        /\ h[Len(log) + 1] = tail[1]
    <3>1. /\ Len(h) = Len(log) + 1
          /\ \A i \in 1..Len(log) : h[i] = log[i]
          /\ h[Len(h)] = tail[1]
      BY <1>1, <2>1, JoinedOne
    <3> HIDE DEF h
    <3>2. QED
      BY <3>1
  <2> HIDE DEF h
  <2>3. ASSUME NEW z \in 1..Len(h), h[z] # Garbage
        PROVE  Proper(h[z]) /\ Fits(h[z], z - 1, h)
    <3>1. CASE z = Len(log) + 1
      <4>1. Proper(tail[1]) /\ Fits(tail[1], Len(log), log)
        BY <2>1, <2>2, <2>3, <3>1 DEF JournalInv, History, TailFits
      <4>2. Fits(tail[1], Len(log), h)
        BY <1>1, <2>2, <4>1, FitsSame
      <4>3. z - 1 = Len(log) /\ h[z] = tail[1]
        BY <1>1, <2>2, <3>1
      <4>4. QED
        BY <4>1, <4>2, <4>3
    <3>2. CASE z # Len(log) + 1
      <4>1. z \in 1..Len(log) /\ h[z] = log[z]
        BY <1>1, <2>2, <2>3, <3>2
      <4>2. Proper(log[z]) /\ Fits(log[z], z - 1, log)
        BY <2>3, <4>1 DEF JournalInv, History, Recorded
      <4>3. z - 1 \in Nat /\ \A i \in 1..(z - 1) : h[i] = log[i]
        BY <1>1, <2>2, <4>1
      <4>4. Fits(log[z], z - 1, h)
        BY <4>2, <4>3, FitsSame
      <4>5. QED
        BY <4>1, <4>2, <4>4
    <3>3. QED
      BY <3>1, <3>2
  <2>4. QED
    BY <2>3 DEF Chronicle, h
<1>4. QED
  BY <1>2, <1>3

\* A completed pass whose start is known has all of its actions and no other, however
\* passes were interleaved, broken off or glued, and wherever a rotation cut the files:
\* read_events() and completed_passes() of activity.rs.
THEOREM JournalPassesWhole == Spec => []CompletedWhole
<1>1. ASSUME JournalInv
      PROVE  CompletedWhole
  <2>1. SUFFICES ASSUME writer = Nobody, Readable,
                        NEW c \in ToSet(Completed(Events(Lines))), c.known
                 PROVE  c.actions = 1..c.total
    BY DEF CompletedWhole
  <2> USE <1>1
  <2> DEFINE h == log \o tail
             events == Events(Lines)
  <2>2. phase # "renamed"
    BY <2>1 DEF JournalInv, Locked
  <2>3. Lines \in Seq(Line) /\ h \in Seq(Line) /\ Chronicle(h)
    BY <2>2, LinesWalk, LinesChronicle
  <2>4. PICK idx : Places(idx, Lines, h)
    BY <2>2, LinesWalk DEF Walk
  <2> HIDE DEF h
  <2>5. \A i \in 1..Len(Lines) : Lines[i] # Garbage /\ Lines[i] \in Event
    <3>1. \A i \in 1..Len(Lines) : Lines[i] \in ToSet(Lines) /\ Lines[i] \in Line
      BY <2>3 DEF ToSet
    <3>2. QED
      BY <2>1, <3>1 DEF Readable, Line
  <2>6. Lines \in Seq(Event)
    BY <2>3, <2>5
  <2>7. events \in Seq(Event) /\ Reads(events, Lines, Len(Lines))
    BY <2>3, <2>4, <2>5, <2>6, WalkDistinct, EventsRead
  <2>8. c \in ToSet(Completed(events))
    BY <2>1
  <2> HIDE DEF events
  <2>9. PICK r \in 1..Len(events) : Completes(c, events, r)
    BY <2>7, <2>8, CompletedMet
  <2>10. QED
    BY <2>1, <2>3, <2>4, <2>6, <2>7, <2>9, WholePass
<1>2. QED
  BY <1>1, JournalInvariant, PTL
==============================================================================
