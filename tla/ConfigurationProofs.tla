------------------------ MODULE ConfigurationProofs -------------------------
(***************************************************************************)
(* What init sends to the modbus threads is the union of what the file     *)
(* declares, for files of any size and order.                              *)
(***************************************************************************)
EXTENDS Configuration, FiniteSetTheorems, TLAPS

Poll == [slave : Int, type : RegisterTypes, register : Int, count : Nat \ {0},
         refresh : (Nat \ {0}) \cup {INVALID_REFRESH}, mode : PublishModes]

(***************************************************************************)
(* Ranges of registers.                                                    *)
(***************************************************************************)
LEMMA RangesMeet ==
  ASSUME NEW a \in Int, NEW b \in Int, NEW c \in Int, NEW d \in Int, a <= b, c <= d
  PROVE  (a .. b) \cap (c .. d) # {} <=> a <= d /\ c <= b
<1>1. CASE a <= d /\ c <= b
  <2>1. (IF a <= c THEN c ELSE a) \in (a .. b) \cap (c .. d)
    BY <1>1
  <2> QED BY <1>1, <2>1
<1>2. CASE ~(a <= d /\ c <= b)
  BY <1>2
<1> QED BY <1>1, <1>2

\* The registers of a poll are those from its first to its last one.
LEMMA PollRange ==
  ASSUME NEW p \in Poll
  PROVE  /\ p.register \in Int /\ LastRegister(p) \in Int /\ p.register <= LastRegister(p)
         /\ Registers(p) = p.register .. LastRegister(p)
BY DEF Poll, LastRegister, Registers

\* Two ranges overlap when they share a register.
LEMMA OverlapsIsShared ==
  ASSUME NEW p \in Poll, NEW q \in Poll
  PROVE  Overlaps(p, q) <=> p.type = q.type /\ Registers(p) \cap Registers(q) # {}
BY PollRange, RangesMeet, Zenon DEF Overlaps

\* The least and the greatest of two numbers.
LEMMA OfTwo ==
  ASSUME NEW a \in Int, NEW b \in Int
  PROVE  /\ Min({a, b}) = IF a <= b THEN a ELSE b
         /\ Max({a, b}) = IF a >= b THEN a ELSE b
BY DEF Min, Max

\* Two ranges that share a register are one range.
LEMMA RangesJoin ==
  ASSUME NEW a \in Int, NEW b \in Int, NEW c \in Int, NEW d \in Int, a <= b, c <= d,
         a <= d, c <= b
  PROVE  (IF a <= c THEN a ELSE c) .. (IF b >= d THEN b ELSE d) = (a .. b) \cup (c .. d)
OBVIOUS

\* Merging two polls that overlap covers the registers of both, no more.
LEMMA MergePollFacts ==
  ASSUME NEW p \in Poll, NEW r \in Poll
  PROVE  LET m == MergePoll(p, r)
         IN /\ m \in Poll
            /\ m.slave = p.slave /\ m.type = p.type
            /\ Overlaps(p, r) => Registers(m) = Registers(p) \cup Registers(r)
            /\ m.refresh = MergedRefresh(p.refresh, r.refresh)
            /\ m.mode = MergedMode(p.mode, r.mode)
<1> DEFINE first == IF p.register <= r.register THEN p.register ELSE r.register
           last == IF LastRegister(p) >= LastRegister(r) THEN LastRegister(p) ELSE LastRegister(r)
           refresh == MergedRefresh(p.refresh, r.refresh)
           mode == MergedMode(p.mode, r.mode)
           m == MergePoll(p, r)
<1>1. /\ first \in Int /\ last \in Int /\ first <= last
      /\ Min({p.register, r.register}) = first
      /\ Max({LastRegister(p), LastRegister(r)}) = last
  <2>1. /\ p.register \in Int /\ LastRegister(p) \in Int /\ p.register <= LastRegister(p)
        /\ r.register \in Int /\ LastRegister(r) \in Int /\ r.register <= LastRegister(r)
    BY PollRange
  <2>2. Min({p.register, r.register}) = first
    BY <2>1, OfTwo, Zenon
  <2>3. Max({LastRegister(p), LastRegister(r)}) = last
    BY <2>1, OfTwo, Zenon
  <2> QED BY <2>1, <2>2, <2>3
<1>2. m = [slave |-> p.slave, type |-> p.type, register |-> first, count |-> last - first + 1,
           refresh |-> refresh, mode |-> mode]
  <2>1. p = [slave |-> p.slave, type |-> p.type, register |-> p.register, count |-> p.count,
             refresh |-> p.refresh, mode |-> p.mode]
    BY DEF Poll
  <2>2. m = [p EXCEPT !.register = first, !.count = last - first + 1,
                      !.refresh = refresh, !.mode = mode]
    BY <1>1, Zenon DEF MergePoll
  <2> HIDE DEF first, last, refresh, mode, m
  <2> QED BY <2>1, <2>2, Zenon
<1>3. refresh \in (Nat \ {0}) \cup {INVALID_REFRESH}
  BY DEF Poll, MergedRefresh
<1>4. mode \in PublishModes
  BY DEF Poll, MergedMode, PublishModes
<1>5. p.slave \in Int /\ p.type \in RegisterTypes
  BY DEF Poll
<1> HIDE DEF first, last, refresh, mode
<1>6. m \in Poll /\ last - first + 1 \in Nat
  BY <1>1, <1>2, <1>3, <1>4, <1>5 DEF Poll
<1>7. LastRegister(m) = last
  BY <1>1, <1>2 DEF LastRegister
<1>8. Registers(m) = first .. last
  BY <1>2, <1>7 DEF Registers
<1>9. Overlaps(p, r) => first .. last = Registers(p) \cup Registers(r)
  BY PollRange, RangesJoin DEF first, last, Overlaps
<1>10. /\ m.slave = p.slave /\ m.type = p.type /\ m.refresh = refresh /\ m.mode = mode
  BY <1>2
<1> QED BY <1>6, <1>8, <1>9, <1>10 DEF refresh, mode

(***************************************************************************)
(* Periods and modes.                                                      *)
(***************************************************************************)
LEMMA LeastIsMin ==
  ASSUME NEW S \in SUBSET Int, NEW v \in S, \A y \in S : v <= y
  PROVE  Min(S) = v
<1>1. Min(S) \in S /\ \A y \in S : Min(S) <= y
  BY Zenon DEF Min
<1>2. Min(S) \in Int /\ v \in Int /\ Min(S) <= v /\ v <= Min(S)
  BY <1>1, Zenon
<1> QED BY <1>2

\* A set of natural numbers has a least element, and Min finds it.
LEMMA MinIsLeast ==
  ASSUME NEW S \in SUBSET Nat, S # {}
  PROVE  Min(S) \in S /\ \A y \in S : Min(S) <= y
<1>1. PICK v \in S : \A y \in S : ~(<<y, v>> \in OpToRel(<, Nat))
  BY NatLessThanWellFounded, WFMin, Zenon
<1>2. \A y \in S : v <= y
  <2>1. \A y \in S : y \in Nat /\ v \in Nat
    OBVIOUS
  <2>2. \A y \in S : ~(y < v)
    BY <1>1, <2>1, Zenon DEF OpToRel
  <2> QED BY <2>1, <2>2
<1> QED BY <1>2, LeastIsMin

\* An element not below any other is the one Max finds.
LEMMA GreatestIsMax ==
  ASSUME NEW S \in SUBSET Int, NEW v \in S, \A y \in S : v >= y
  PROVE  Max(S) = v
<1>1. Max(S) \in S /\ \A y \in S : Max(S) >= y
  BY Zenon DEF Max
<1>2. Max(S) \in Int /\ v \in Int /\ Max(S) >= v /\ v >= Max(S)
  BY <1>1, Zenon
<1> QED BY <1>2

\* The ranks of the publish modes are 0, 1 and 2.
LEMMA RankRange ==
  ASSUME NEW mode \in PublishModes
  PROVE  Rank(mode) \in 0 .. 2
BY DEF PublishModes, Rank

\* A set of ranks has a greatest element, and Max finds it.
LEMMA MaxIsGreatest ==
  ASSUME NEW S \in SUBSET (0 .. 2), S # {}
  PROVE  Max(S) \in S /\ \A y \in S : Max(S) >= y
<1>1. \E v \in S : \A y \in S : v >= y
  <2>1. CASE 2 \in S
    BY <2>1
  <2>2. CASE 2 \notin S /\ 1 \in S
    <3>1. \A y \in S : 1 >= y
      BY <2>2
    <3> QED BY <2>2, <3>1
  <2>3. CASE 2 \notin S /\ 1 \notin S
    <3>1. \A y \in S : y = 0
      BY <2>3
    <3>2. PICK v \in S : TRUE
      BY Zenon
    <3> QED BY <3>1, <3>2
  <2> QED BY <2>1, <2>2, <2>3
<1>2. PICK v \in S : \A y \in S : v >= y
  BY <1>1
<1> QED BY <1>2, GreatestIsMax

Shortest(polls) == IF Refreshes(polls) = {} THEN INVALID_REFRESH ELSE Min(Refreshes(polls))

Ranks(polls) == {Rank(q.mode) : q \in polls}

\* MergedRefresh takes the shorter period of two joins.
LEMMA ShortestOfBoth ==
  ASSUME NEW Q \in SUBSET Poll, NEW R \in SUBSET Poll
  PROVE  MergedRefresh(Shortest(Q), Shortest(R)) = Shortest(Q \cup R)
<1> DEFINE A == Refreshes(Q)
           B == Refreshes(R)
<1>1. A \subseteq Nat /\ B \subseteq Nat /\ Refreshes(Q \cup R) = A \cup B
  BY DEF Refreshes, Poll
<1>2. INVALID_REFRESH = -1
  BY DEF INVALID_REFRESH
<1> HIDE DEF A, B
<1>3. CASE A = {} /\ B = {}
  BY <1>1, <1>3 DEF Shortest, MergedRefresh, A, B
<1>4. CASE A = {} /\ B # {}
  <2>1. A \cup B = B
    BY <1>4
  <2> QED BY <1>1, <1>4, <2>1 DEF Shortest, MergedRefresh, A, B
<1>5. CASE A # {} /\ B = {}
  <2>1. A \cup B = A
    BY <1>5
  <2>2. Min(A) \in Nat
    BY <1>1, <1>5, MinIsLeast, Zenon
  <2>3. Shortest(Q) = Min(A) /\ Shortest(R) = INVALID_REFRESH /\ Shortest(Q \cup R) = Min(A)
    BY <1>1, <1>5, <2>1 DEF Shortest, A, B
  <2> QED BY <1>2, <2>2, <2>3 DEF MergedRefresh
<1>6. CASE A # {} /\ B # {}
  <2> DEFINE a == Min(A)
             b == Min(B)
             v == IF a > b THEN b ELSE a
  <2>1. /\ a \in A /\ a \in Nat /\ \A y \in A : a <= y
        /\ b \in B /\ b \in Nat /\ \A y \in B : b <= y
    BY <1>1, <1>6, MinIsLeast, Zenon
  <2>2. Shortest(Q) = a /\ Shortest(R) = b /\ Shortest(Q \cup R) = Min(A \cup B)
    BY <1>1, <1>6, Zenon DEF Shortest, A, B
  <2> HIDE DEF a, b
  <2>3. v \in A \cup B /\ \A y \in A \cup B : v <= y
    BY <1>1, <2>1
  <2>4. Min(A \cup B) = v
    <3>1. A \cup B \in SUBSET Int
      BY <1>1
    <3> HIDE DEF v
    <3> QED BY <2>3, <3>1, LeastIsMin, Zenon
  <2> QED BY <1>2, <2>1, <2>2, <2>4 DEF MergedRefresh
<1> QED BY <1>3, <1>4, <1>5, <1>6

\* MergedMode takes the stronger mode of two joins.
LEMMA StrongestOfBoth ==
  ASSUME NEW Q \in SUBSET Poll, NEW R \in SUBSET Poll, Q # {}, R # {},
         NEW mode \in PublishModes, NEW other \in PublishModes,
         Rank(mode) = Max(Ranks(Q)), Rank(other) = Max(Ranks(R))
  PROVE  Rank(MergedMode(mode, other)) = Max(Ranks(Q \cup R))
<1> DEFINE A == Ranks(Q)
           B == Ranks(R)
           a == Max(A)
           b == Max(B)
           v == IF a >= b THEN a ELSE b
<1>1. A \in SUBSET (0 .. 2) /\ B \in SUBSET (0 .. 2) /\ A # {} /\ B # {}
  BY RankRange DEF Ranks, Poll
<1>2. Ranks(Q \cup R) = A \cup B
  BY DEF Ranks
<1>3. Rank(MergedMode(mode, other)) = IF Rank(mode) >= Rank(other) THEN Rank(mode) ELSE Rank(other)
  BY DEF PublishModes, MergedMode, Rank
<1> HIDE DEF A, B
<1>4. /\ a \in A /\ \A y \in A : a >= y
      /\ b \in B /\ \A y \in B : b >= y
  BY <1>1, MaxIsGreatest
<1>5. Rank(mode) = a /\ Rank(other) = b
  BY DEF A, B
<1> HIDE DEF a, b
<1>6. v \in A \cup B /\ \A y \in A \cup B : v >= y
  <2>1. a \in 0 .. 2 /\ b \in 0 .. 2
    BY <1>1, <1>4
  <2>2. v \in A \cup B /\ v >= a /\ v >= b /\ v \in 0 .. 2
    BY <1>4, <2>1
  <2> HIDE DEF v
  <2>3. ASSUME NEW y \in A PROVE v >= y
    BY <1>1, <1>4, <2>1, <2>2, <2>3
  <2>4. ASSUME NEW y \in B PROVE v >= y
    BY <1>1, <1>4, <2>1, <2>2, <2>4
  <2> QED BY <2>2, <2>3, <2>4
<1>7. Max(A \cup B) = v
  <2>1. A \cup B \in SUBSET Int
    BY <1>1
  <2> HIDE DEF v
  <2> QED BY <1>6, <2>1, GreatestIsMax
<1> QED BY <1>2, <1>3, <1>5, <1>7

(***************************************************************************)
(* Joins.                                                                  *)
(***************************************************************************)

\* p joins polls of its slave and its type
Joins(p, polls) ==
    /\ p \in Poll /\ polls \in SUBSET Poll /\ polls # {}
    /\ \A q \in polls : q.slave = p.slave /\ q.type = p.type
    /\ IsJoinOf(p, polls)

\* A poll alone joins the set that holds only itself.
LEMMA JoinsItself ==
  ASSUME NEW p \in Poll
  PROVE  Joins(p, {p})
<1>1. Registers(p) = UNION {Registers(q) : q \in {p}}
  OBVIOUS
<1>2. \A r \in Registers(p) \ {LastRegister(p)} : r + 1 \in Registers(p)
  BY PollRange
<1>3. p.refresh = Shortest({p})
  <2>1. CASE p.refresh = INVALID_REFRESH
    <3>1. Refreshes({p}) = {}
      BY <2>1 DEF Refreshes
    <3> QED BY <2>1, <3>1 DEF Shortest
  <2>2. CASE p.refresh # INVALID_REFRESH
    <3>1. Refreshes({p}) = {p.refresh} /\ p.refresh \in Int
      BY <2>2 DEF Refreshes, Poll
    <3>2. Min({p.refresh}) = p.refresh
      BY <3>1, LeastIsMin
    <3> QED BY <3>1, <3>2 DEF Shortest
  <2> QED BY <2>1, <2>2
<1>4. Rank(p.mode) = Max(Ranks({p}))
  <2>1. Rank(p.mode) \in Int
    BY RankRange DEF Poll
  <2>2. Ranks({p}) = {Rank(p.mode)}
    BY DEF Ranks
  <2>3. Max({Rank(p.mode)}) = Rank(p.mode)
    BY <2>1, GreatestIsMax
  <2> QED BY <2>2, <2>3
<1>5. IsJoinOf(p, {p})
  BY <1>1, <1>2, <1>3, <1>4 DEF IsJoinOf, Shortest, Ranks
<1> QED BY <1>5 DEF Joins

\* In two ranges that share a register, neighbours lie in the same range.
LEMMA NeighboursTogether ==
  ASSUME NEW a \in Int, NEW b \in Int, NEW c \in Int, NEW d \in Int,
         a <= d, c <= b, NEW x \in Int,
         x \in (a .. b) \cup (c .. d), x + 1 \in (a .. b) \cup (c .. d)
  PROVE  \/ x \in a .. b /\ x + 1 \in a .. b
         \/ x \in c .. d /\ x + 1 \in c .. d
OBVIOUS

\* MsgRegisterPoll::merge of two joins that overlap joins the polls of both.
LEMMA MergePollJoins ==
  ASSUME NEW p, NEW Q, NEW r, NEW R, Joins(p, Q), Joins(r, R),
         p.slave = r.slave, Overlaps(p, r)
  PROVE  Joins(MergePoll(p, r), Q \cup R)
<1> DEFINE m == MergePoll(p, r)
<1>1. p \in Poll /\ r \in Poll /\ p.type = r.type
  BY DEF Joins, Overlaps
<1>2. /\ m \in Poll /\ m.slave = p.slave /\ m.type = p.type
      /\ Registers(m) = Registers(p) \cup Registers(r)
      /\ m.refresh = MergedRefresh(p.refresh, r.refresh)
      /\ m.mode = MergedMode(p.mode, r.mode)
  BY <1>1, MergePollFacts
<1> HIDE DEF m
<1>3. /\ Q \cup R \in SUBSET Poll /\ Q \cup R # {}
      /\ \A q \in Q \cup R : q.slave = m.slave /\ q.type = m.type
  BY <1>1, <1>2 DEF Joins
<1>4. Registers(m) = UNION {Registers(q) : q \in Q \cup R}
  <2>1. /\ Registers(p) = UNION {Registers(q) : q \in Q}
        /\ Registers(r) = UNION {Registers(q) : q \in R}
    BY DEF Joins, IsJoinOf
  <2> QED BY <1>2, <2>1
<1>5. ASSUME NEW x \in Registers(m) \ {LastRegister(m)}
      PROVE  \E q, t \in Q \cup R :
                x \in Registers(q) /\ x + 1 \in Registers(t) /\ (q = t \/ Overlaps(q, t))
  <2>1. x \in Int /\ x \in Registers(m) /\ x + 1 \in Registers(m)
    BY <1>2, <1>5, PollRange
  <2>2. \/ x \in Registers(p) /\ x + 1 \in Registers(p)
        \/ x \in Registers(r) /\ x + 1 \in Registers(r)
    <3>1. /\ p.register \in Int /\ LastRegister(p) \in Int
          /\ Registers(p) = p.register .. LastRegister(p)
          /\ r.register \in Int /\ LastRegister(r) \in Int
          /\ Registers(r) = r.register .. LastRegister(r)
      BY <1>1, PollRange
    <3>2. p.register <= LastRegister(r) /\ r.register <= LastRegister(p)
      BY DEF Overlaps
    <3>3. x \in Registers(p) \cup Registers(r) /\ x + 1 \in Registers(p) \cup Registers(r)
      BY <1>2, <2>1
    <3> QED BY <2>1, <3>1, <3>2, <3>3, NeighboursTogether
  <2>3. CASE x \in Registers(p) /\ x + 1 \in Registers(p)
    <3>1. x \in Registers(p) \ {LastRegister(p)}
      BY <1>1, <2>1, <2>3, PollRange
    <3>2. \E q, t \in Q :
             x \in Registers(q) /\ x + 1 \in Registers(t) /\ (q = t \/ Overlaps(q, t))
      BY <3>1 DEF Joins, IsJoinOf
    <3> QED BY <3>2
  <2>4. CASE x \in Registers(r) /\ x + 1 \in Registers(r)
    <3>1. x \in Registers(r) \ {LastRegister(r)}
      BY <1>1, <2>1, <2>4, PollRange
    <3>2. \E q, t \in R :
             x \in Registers(q) /\ x + 1 \in Registers(t) /\ (q = t \/ Overlaps(q, t))
      BY <3>1 DEF Joins, IsJoinOf
    <3> QED BY <3>2
  <2> QED BY <2>2, <2>3, <2>4
<1>6. m.refresh = Shortest(Q \cup R)
  <2>1. p.refresh = Shortest(Q) /\ r.refresh = Shortest(R)
    BY DEF Joins, IsJoinOf, Shortest
  <2> QED BY <1>2, <2>1, ShortestOfBoth DEF Joins
<1>7. Rank(m.mode) = Max(Ranks(Q \cup R))
  <2>1. /\ Rank(p.mode) = Max(Ranks(Q)) /\ Rank(r.mode) = Max(Ranks(R))
        /\ Q \in SUBSET Poll /\ R \in SUBSET Poll /\ Q # {} /\ R # {}
    BY DEF Joins, IsJoinOf, Ranks
  <2>2. p.mode \in PublishModes /\ r.mode \in PublishModes
    BY <1>1 DEF Poll
  <2> QED BY <1>2, <2>1, <2>2, StrongestOfBoth
<1>8. IsJoinOf(m, Q \cup R)
  BY <1>4, <1>5, <1>6, <1>7 DEF IsJoinOf, Shortest, Ranks
<1> QED BY <1>2, <1>3, <1>8 DEF Joins, m

(***************************************************************************)
(* Unions.                                                                 *)
(***************************************************************************)
Meets(p, q) == p.slave = q.slave /\ p.type = q.type /\ Registers(p) \cap Registers(q) # {}

Holds(p, q) == p.slave = q.slave /\ p.type = q.type /\ Registers(q) \subseteq Registers(p)

\* spec is a specification, and the union of polls
Union(spec, polls) ==
    /\ spec \in Seq(Poll) /\ polls \in SUBSET Poll
    /\ \A i, j \in DOMAIN spec : i # j => ~Meets(spec[i], spec[j])
    /\ \A d \in polls : \E i \in DOMAIN spec : Holds(spec[i], d)
    /\ \A i \in DOMAIN spec : Joins(spec[i], Inside(polls, spec[i]))

\* The declared polls inside p are those that meet it.
LEMMA InsideMeets ==
  ASSUME NEW polls, NEW p
  PROVE  Inside(polls, p) = {q \in polls : Meets(q, p)}
BY DEF Inside, Meets

\* A join has the registers of its polls, and at least one.
LEMMA JoinRegisters ==
  ASSUME NEW p, NEW polls, Joins(p, polls)
  PROVE  /\ Registers(p) # {}
         /\ \A x : x \in Registers(p) <=> \E q \in polls : x \in Registers(q)
         /\ \A q \in polls : Holds(p, q) /\ Meets(q, p)
<1>1. p.register \in Registers(p) /\ \A q \in polls : q.register \in Registers(q)
  BY PollRange DEF Joins
<1>2. Registers(p) = UNION {Registers(q) : q \in polls}
  BY DEF Joins, IsJoinOf
<1>3. \A x : x \in Registers(p) <=> \E q \in polls : x \in Registers(q)
  BY <1>2
<1>4. \A q \in polls : q.slave = p.slave /\ q.type = p.type
  BY DEF Joins
<1> QED BY <1>1, <1>3, <1>4 DEF Holds, Meets

\* The invariant of one specification implies what the property says of it.
LEMMA UnionIsUnion ==
  ASSUME NEW spec, NEW polls, Union(spec, polls)
  PROVE  IsUnionOf(spec, polls)
<1>1. \A i, j \in DOMAIN spec : i # j /\ spec[i].slave = spec[j].slave => ~Overlaps(spec[i], spec[j])
  BY OverlapsIsShared DEF Union, Meets
<1>2. \A d \in polls : \E i \in DOMAIN spec :
         /\ spec[i].slave = d.slave /\ spec[i].type = d.type
         /\ Registers(d) \subseteq Registers(spec[i])
  BY DEF Union, Holds
<1>3. \A i \in DOMAIN spec : IsJoinOf(spec[i], Inside(polls, spec[i]))
  BY DEF Union, Joins
<1> QED BY <1>1, <1>2, <1>3 DEF IsUnionOf

\* The empty specification joins nothing, as the code starts.
LEMMA EmptyUnion == Union(<<>>, {})
BY DEF Union

\* Q, and what was declared for the entries H of spec
Together(Q, D, spec, H) == Q \cup UNION {Inside(D, spec[i]) : i \in H}

\* What is left of a union when some entries, H, are joined with a poll that
\* meets just these.
LEMMA UnionJoined ==
  ASSUME NEW spec, NEW D, Union(spec, D), NEW poll, NEW Q, Joins(poll, Q),
         NEW H \in SUBSET DOMAIN spec, \A i \in DOMAIN spec : i \in H <=> Meets(poll, spec[i]),
         NEW m, m.slave = poll.slave, m.type = poll.type,
         Joins(m, Together(Q, D, spec, H)),
         NEW rest \in Seq(Poll),
         \A i, j \in DOMAIN rest : i # j => ~Meets(rest[i], rest[j]),
         \A i \in DOMAIN rest : \E j \in DOMAIN spec \ H : rest[i] = spec[j],
         \A j \in DOMAIN spec \ H : \E i \in DOMAIN rest : rest[i] = spec[j]
  PROVE  Union(Append(rest, m), D \cup Q)
<1> DEFINE J == Q \cup UNION {Inside(D, spec[i]) : i \in H}
           new == Append(rest, m)
<1>0. Joins(m, J)
  BY DEF Together
<1>1. /\ \A i, j \in DOMAIN spec : i # j => ~Meets(spec[i], spec[j])
      /\ \A d \in D : \E i \in DOMAIN spec : Holds(spec[i], d)
      /\ \A i \in DOMAIN spec : Joins(spec[i], Inside(D, spec[i]))
      /\ D \in SUBSET Poll /\ Q \in SUBSET Poll /\ m \in Poll
  BY DEF Union, Joins
<1>2. \A x : x \in Registers(m) <=>
              x \in Registers(poll) \/ \E i \in H : x \in Registers(spec[i])
  <2>1. \A x : x \in Registers(m) <=> \E q \in J : x \in Registers(q)
    BY <1>0, JoinRegisters
  <2>2. \A x : x \in Registers(poll) <=> \E q \in Q : x \in Registers(q)
    BY JoinRegisters
  <2>3. \A i \in H : \A x : x \in Registers(spec[i]) <=> \E q \in Inside(D, spec[i]) : x \in Registers(q)
    BY <1>1, JoinRegisters
  <2> QED BY <2>1, <2>2, <2>3
<1>3. \A i \in H : spec[i].slave = m.slave /\ spec[i].type = m.type
  BY DEF Meets
<1>4. ASSUME NEW j \in DOMAIN spec, Meets(spec[j], m) PROVE j \in H
  <2>1. PICK x \in Registers(spec[j]) : x \in Registers(m)
    BY <1>4 DEF Meets
  <2>2. CASE x \in Registers(poll)
    BY <1>4, <2>1, <2>2 DEF Meets
  <2>3. CASE \E i \in H : x \in Registers(spec[i])
    <3>1. PICK i \in H : x \in Registers(spec[i])
      BY <2>3
    <3>2. Meets(spec[i], spec[j])
      BY <1>3, <1>4, <2>1, <3>1 DEF Meets
    <3> QED BY <1>1, <3>1, <3>2
  <2> QED BY <1>2, <2>1, <2>2, <2>3
<1>5. /\ new \in Seq(Poll) /\ DOMAIN new = DOMAIN rest \cup {Len(rest) + 1}
      /\ \A i \in DOMAIN rest : new[i] = rest[i] /\ i # Len(rest) + 1
      /\ new[Len(rest) + 1] = m
  BY <1>1
<1> HIDE DEF new
<1>6. \A i \in DOMAIN rest : ~Meets(rest[i], m) /\ ~Meets(m, rest[i])
  BY <1>4 DEF Meets
<1>7. \A i, j \in DOMAIN new : i # j => ~Meets(new[i], new[j])
  BY <1>5, <1>6
<1>8. ASSUME NEW d \in D \cup Q PROVE \E i \in DOMAIN new : Holds(new[i], d)
  <2>1. CASE d \in Q
    <3>1. Holds(m, d)
      BY <1>0, <2>1, JoinRegisters
    <3> QED BY <1>5, <3>1
  <2>2. CASE d \in D
    <3>1. PICK j \in DOMAIN spec : Holds(spec[j], d)
      BY <1>1, <2>2
    <3>2. CASE j \in H
      <4>1. Holds(m, d)
        BY <1>2, <1>3, <3>1, <3>2 DEF Holds
      <4> QED BY <1>5, <4>1
    <3>3. CASE j \notin H
      BY <1>5, <3>1, <3>3
    <3> QED BY <3>2, <3>3
  <2> QED BY <2>1, <2>2
<1>9. Inside(D \cup Q, m) = J
  <2>1. \A q \in J : q \in D \cup Q /\ Meets(q, m)
    BY <1>0, JoinRegisters, InsideMeets
  <2>2. ASSUME NEW d \in D, Meets(d, m) PROVE d \in J
    <3>1. PICK j \in DOMAIN spec : Holds(spec[j], d)
      BY <1>1
    <3>2. d.register \in Registers(d)
      BY <1>1, PollRange
    <3>3. Meets(spec[j], m) /\ Meets(d, spec[j])
      BY <2>2, <3>1, <3>2 DEF Holds, Meets
    <3>4. j \in H /\ d \in Inside(D, spec[j])
      BY <1>4, <3>3, InsideMeets
    <3> QED BY <3>4
  <2> QED BY <2>1, <2>2, InsideMeets
<1>10. ASSUME NEW i \in DOMAIN rest PROVE Joins(rest[i], Inside(D \cup Q, rest[i]))
  <2>1. PICK j \in DOMAIN spec \ H : rest[i] = spec[j]
    OBVIOUS
  <2>2. ASSUME NEW q \in Q PROVE ~Meets(q, spec[j])
    <3>1. Holds(poll, q)
      BY JoinRegisters
    <3>2. Meets(q, spec[j]) => Meets(poll, spec[j])
      BY <3>1 DEF Holds, Meets
    <3> QED BY <3>2
  <2>3. Inside(D \cup Q, spec[j]) = Inside(D, spec[j])
    BY <2>2, InsideMeets, Zenon
  <2> QED BY <1>1, <2>1, <2>3
<1>11. \A i \in DOMAIN new : Joins(new[i], Inside(D \cup Q, new[i]))
  BY <1>0, <1>5, <1>9, <1>10, Zenon
<1> QED BY <1>1, <1>5, <1>7, <1>8, <1>11, Zenon DEF Union, new

(***************************************************************************)
(* Recursive functions.                                                    *)
(***************************************************************************)
\* Induction up to n, for a set T.
LEMMA UpTo ==
  ASSUME NEW n \in Nat, NEW T, 0 \in T, \A k \in 1 .. n : k - 1 \in T => k \in T
  PROVE  \A k \in 0 .. n : k \in T
<1> DEFINE U == {k \in Nat : k <= n /\ k \notin T}
<1> SUFFICES ASSUME U # {} PROVE FALSE
  OBVIOUS
<1>1. PICK k \in U : \A m \in U : ~(<<m, k>> \in OpToRel(<, Nat))
  BY NatLessThanWellFounded, WFMin, Zenon
<1>2. \A m \in U : ~(m < k)
  BY <1>1, Zenon DEF OpToRel
<1>3. k \in Nat /\ k <= n /\ k # 0 /\ k \notin T
  OBVIOUS
<1>4. k - 1 \in Nat /\ k - 1 <= n /\ k - 1 < k
  BY <1>3
<1>5. k - 1 \in T
  BY <1>2, <1>4
<1> QED BY <1>3, <1>5

\* A function from 0 .. n is given by its value at 0 and its step.
Follows(f, n, S, e, step) ==
    /\ f \in [0 .. n -> S]
    /\ f[0] = e
    /\ \A k \in 1 .. n : f[k] = step[<<k, f[k - 1]>>]

\* A function defined by a first value and a step exists up to every bound.
LEMMA RecursionExists ==
  ASSUME NEW n \in Nat, NEW S, NEW e \in S, NEW step \in [Nat \X S -> S]
  PROVE  \E f : Follows(f, n, S, e, step)
<1> DEFINE Is(m, f) == f[0] = e /\ \A k \in 1 .. m : f[k] = step[<<k, f[k - 1]>>]
           T == {m \in 0 .. n : \E f \in [0 .. m -> S] : Is(m, f)}
<1>1. 0 \in T
  <2> DEFINE f == [k \in 0 .. 0 |-> e]
  <2>1. f \in [0 .. 0 -> S] /\ f[0] = e
    OBVIOUS
  <2>2. Is(0, f)
    BY <2>1
  <2>3. 0 \in 0 .. n
    OBVIOUS
  <2> HIDE DEF f, Is
  <2> QED BY <2>1, <2>2, <2>3
<1>2. ASSUME NEW m \in 1 .. n, m - 1 \in T PROVE m \in T
  <2>1. PICK f \in [0 .. m - 1 -> S] : Is(m - 1, f)
    BY <1>2
  <2> DEFINE g == [k \in 0 .. m |-> IF k = m THEN step[<<m, f[m - 1]>>] ELSE f[k]]
  <2>2. f[m - 1] \in S /\ m \in Nat
    OBVIOUS
  <2>3. <<m, f[m - 1]>> \in Nat \X S
    BY <2>2
  <2>4. step[<<m, f[m - 1]>>] \in S
    BY <2>3
  <2>5. g \in [0 .. m -> S]
    BY <2>4
  <2>6. g[m] = step[<<m, f[m - 1]>>] /\ \A k \in 0 .. m - 1 : g[k] = f[k]
    OBVIOUS
  <2> HIDE DEF g
  <2>7. Is(m, g)
    <3>1. g[0] = e
      BY <2>1, <2>6
    <3>2. ASSUME NEW k \in 1 .. m PROVE g[k] = step[<<k, g[k - 1]>>]
      <4>1. g[k - 1] = f[k - 1]
        BY <2>6
      <4>2. CASE k = m
        BY <2>6, <4>1, <4>2
      <4>3. CASE k # m
        <5>1. k \in 1 .. m - 1 /\ k \in 0 .. m - 1
          BY <4>3
        <5>2. f[k] = step[<<k, f[k - 1]>>]
          BY <2>1, <5>1
        <5> QED BY <2>6, <4>1, <5>1, <5>2
      <4> QED BY <4>2, <4>3
    <3> QED BY <3>1, <3>2
  <2> QED BY <2>5, <2>7
<1>3. n \in 0 .. n
  OBVIOUS
<1> HIDE DEF T
<1>4. n \in T
  BY <1>1, <1>2, <1>3, UpTo
<1> QED BY <1>4 DEF T, Follows

(***************************************************************************)
(* MsgRegisterPollSpecification::merge keeps a union.                      *)
(***************************************************************************)
Hit(poll, r) == r.slave = poll.slave /\ Overlaps(poll, r)

IsRest(rest, spec, poll) ==
    /\ rest \in [0 .. Len(spec) -> Seq(Poll)] /\ rest[0] = <<>>
    /\ \A k \in 1 .. Len(spec) :
           rest[k] = IF Hit(poll, spec[k]) THEN rest[k - 1] ELSE Append(rest[k - 1], spec[k])

IsMerged(merged, spec, poll) ==
    /\ merged \in [0 .. Len(spec) -> Poll] /\ merged[0] = poll
    /\ \A k \in 1 .. Len(spec) :
           merged[k] = IF Hit(poll, spec[k]) THEN MergePoll(merged[k - 1], spec[k]) ELSE merged[k - 1]

\* Merge is the loop over the specification: the polls kept and the poll merged so far.
LEMMA MergeUnfolds ==
  ASSUME NEW spec \in Seq(Poll), NEW poll \in Poll
  PROVE  \E rest, merged :
            /\ IsRest(rest, spec, poll) /\ IsMerged(merged, spec, poll)
            /\ Merge(spec, poll) = Append(rest[Len(spec)], merged[Len(spec)])
<1> DEFINE n == Len(spec)
           F(f) == [k \in 0 .. n |->
                      IF k = 0 THEN <<>>
                      ELSE IF Hit(poll, spec[k]) THEN f[k - 1] ELSE Append(f[k - 1], spec[k])]
           rest == CHOOSE f : f = F(f)
           step == [x \in Nat \X Seq(Poll) |->
                      IF x[1] \notin 1 .. n \/ Hit(poll, spec[x[1]]) THEN x[2] ELSE Append(x[2], spec[x[1]])]
           G(f) == [k \in 0 .. n |->
                      IF k = 0 THEN poll
                      ELSE IF Hit(poll, spec[k]) THEN MergePoll(f[k - 1], spec[k]) ELSE f[k - 1]]
           merged == CHOOSE f : f = G(f)
           join == [x \in Nat \X Poll |->
                      IF x[1] \in 1 .. n /\ Hit(poll, spec[x[1]]) THEN MergePoll(x[2], spec[x[1]]) ELSE x[2]]
<1>1. Merge(spec, poll) = Append(rest[n], merged[n])
  BY Zenon DEF Merge, Hit
<1>2. n \in Nat /\ \A k \in 1 .. n : spec[k] \in Poll
  OBVIOUS
<1> HIDE DEF n
<1>3. IsRest(rest, spec, poll)
  <2>1. step \in [Nat \X Seq(Poll) -> Seq(Poll)]
    BY <1>2
  <2>2. \A k \in 1 .. n : \A v \in Seq(Poll) :
           step[<<k, v>>] = IF Hit(poll, spec[k]) THEN v ELSE Append(v, spec[k])
    OBVIOUS
  <2> HIDE DEF step
  <2>3. <<>> \in Seq(Poll)
    OBVIOUS
  <2>4. PICK f : Follows(f, n, Seq(Poll), <<>>, step)
    BY <1>2, <2>1, <2>3, RecursionExists, Zenon
  <2>5. ASSUME NEW k \in 1 .. n
        PROVE  f[k] = IF Hit(poll, spec[k]) THEN f[k - 1] ELSE Append(f[k - 1], spec[k])
    <3>1. f[k - 1] \in Seq(Poll) /\ f[k] = step[<<k, f[k - 1]>>]
      BY <1>2, <2>4 DEF Follows
    <3> QED BY <2>2, <3>1
  <2>6. f = F(f)
    <3>1. ASSUME NEW k \in 0 .. n PROVE f[k] = F(f)[k]
      <4>1. CASE k = 0
        <5>1. 0 \in 0 .. n
          BY <1>2
        <5>2. f[0] = <<>> /\ F(f)[0] = <<>>
          BY <2>4, <5>1, Zenon DEF Follows
        <5> QED BY <4>1, <5>2, Zenon
      <4>2. CASE k # 0
        <5>1. k \in 1 .. n
          BY <4>2
        <5>2. F(f)[k] = IF Hit(poll, spec[k]) THEN f[k - 1] ELSE Append(f[k - 1], spec[k])
          BY <4>2, Zenon
        <5> QED BY <2>5, <5>1, <5>2, Zenon
      <4> QED BY <4>1, <4>2
    <3> QED BY <2>4, <3>1 DEF Follows
  <2>7. rest = F(rest)
    BY <2>6, Zenon
  <2> HIDE DEF rest
  <2>8. /\ rest[0] = <<>> /\ DOMAIN rest = 0 .. n
        /\ \A k \in 1 .. n : rest[k] = IF Hit(poll, spec[k]) THEN rest[k - 1] ELSE Append(rest[k - 1], spec[k])
    <3>1. DOMAIN rest = 0 .. n
      BY <2>7
    <3>2. 0 \in 0 .. n
      BY <1>2
    <3>3. rest[0] = <<>>
      BY <2>7, <3>2, Zenon
    <3>4. ASSUME NEW k \in 1 .. n
          PROVE  rest[k] = IF Hit(poll, spec[k]) THEN rest[k - 1] ELSE Append(rest[k - 1], spec[k])
      <4>1. k \in 0 .. n /\ k # 0
        BY <1>2
      <4> QED BY <2>7, <4>1, Zenon
    <3> QED BY <3>1, <3>3, <3>4
  <2> DEFINE T == {k \in 0 .. n : rest[k] \in Seq(Poll)}
  <2>9. 0 \in T
    <3>1. 0 \in 0 .. n
      BY <1>2
    <3> QED BY <2>3, <2>8, <3>1, Zenon
  <2>10. ASSUME NEW k \in 1 .. n, k - 1 \in T PROVE k \in T
    <3>1. rest[k - 1] \in Seq(Poll) /\ spec[k] \in Poll /\ k \in 0 .. n
      BY <1>2, <2>10
    <3>2. Append(rest[k - 1], spec[k]) \in Seq(Poll)
      <4> DEFINE r == rest[k - 1]
                 p == spec[k]
      <4>1. r \in Seq(Poll) /\ p \in Poll
        BY <3>1
      <4> HIDE DEF r, p
      <4>2. Append(r, p) \in Seq(Poll)
        BY <4>1
      <4> QED BY <4>2 DEF r, p
    <3>3. rest[k] \in Seq(Poll)
      BY <2>8, <3>1, <3>2, Zenon
    <3> QED BY <3>1, <3>3
  <2> HIDE DEF T
  <2>11. \A k \in 0 .. n : k \in T
    BY <1>2, <2>9, <2>10, UpTo, Zenon
  <2>12. \A k \in 0 .. n : rest[k] \in Seq(Poll)
    BY <2>11 DEF T
  <2>13. rest = [k \in 0 .. n |-> rest[k]]
    BY <2>7
  <2>14. rest \in [0 .. n -> Seq(Poll)]
    BY <2>12, <2>13
  <2> QED BY <2>8, <2>14 DEF IsRest, n
<1>4. IsMerged(merged, spec, poll)
  <2>0. \A p, q \in Poll : MergePoll(p, q) \in Poll
    BY MergePollFacts
  <2>1. join \in [Nat \X Poll -> Poll]
    BY <1>2, <2>0
  <2>2. \A k \in 1 .. n : \A v \in Poll :
           join[<<k, v>>] = IF Hit(poll, spec[k]) THEN MergePoll(v, spec[k]) ELSE v
    OBVIOUS
  <2> HIDE DEF join
  <2>4. PICK f : Follows(f, n, Poll, poll, join)
    BY <1>2, <2>1, RecursionExists, Zenon
  <2>5. ASSUME NEW k \in 1 .. n
        PROVE  f[k] = IF Hit(poll, spec[k]) THEN MergePoll(f[k - 1], spec[k]) ELSE f[k - 1]
    <3>1. f[k - 1] \in Poll /\ f[k] = join[<<k, f[k - 1]>>]
      BY <1>2, <2>4 DEF Follows
    <3> QED BY <2>2, <3>1
  <2>6. f = G(f)
    <3>1. \A k \in 0 .. n : f[k] = G(f)[k]
      BY <1>2, <2>4, <2>5 DEF Follows
    <3> QED BY <2>4, <3>1 DEF Follows
  <2>7. merged = G(merged)
    BY <2>6, Zenon
  <2> HIDE DEF merged
  <2>8. /\ merged[0] = poll
        /\ \A k \in 1 .. n : merged[k] = IF Hit(poll, spec[k]) THEN MergePoll(merged[k - 1], spec[k]) ELSE merged[k - 1]
    BY <1>2, <2>7
  <2> DEFINE T == {k \in 0 .. n : merged[k] \in Poll}
  <2>9. 0 \in T
    BY <1>2, <2>8
  <2>10. ASSUME NEW k \in 1 .. n, k - 1 \in T PROVE k \in T
    <3>1. merged[k - 1] \in Poll /\ spec[k] \in Poll /\ k \in 0 .. n
      BY <1>2, <2>10
    <3>2. merged[k] \in Poll
      BY <2>0, <2>8, <3>1
    <3> QED BY <3>1, <3>2
  <2> HIDE DEF T
  <2>11. \A k \in 0 .. n : k \in T
    BY <1>2, <2>9, <2>10, UpTo, Zenon
  <2>12. \A k \in 0 .. n : merged[k] \in Poll
    BY <2>11 DEF T
  <2>13. merged = [k \in 0 .. n |-> merged[k]]
    BY <2>7
  <2>14. merged \in [0 .. n -> Poll]
    BY <2>12, <2>13
  <2> QED BY <2>8, <2>14 DEF IsMerged, n
<1> QED BY <1>1, <1>3, <1>4, Zenon DEF n

\* The test in the merge loop finds the polls that share a register of one slave.
LEMMA HitIsMet ==
  ASSUME NEW poll \in Poll, NEW r \in Poll
  PROVE  Hit(poll, r) <=> Meets(poll, r)
BY OverlapsIsShared DEF Hit, Meets

\* The entries that are not hit stay, in their order and apart.
LEMMA RestKeepsApart ==
  ASSUME NEW spec, NEW D, Union(spec, D), NEW poll \in Poll, NEW rest, IsRest(rest, spec, poll),
         NEW n, n = Len(spec)
  PROVE  /\ \A i, j \in DOMAIN rest[n] : i # j => ~Meets(rest[n][i], rest[n][j])
         /\ \A i \in DOMAIN rest[n] : \E j \in 1 .. n : ~Hit(poll, spec[j]) /\ rest[n][i] = spec[j]
         /\ \A j \in 1 .. n : ~Hit(poll, spec[j]) => \E i \in DOMAIN rest[n] : rest[n][i] = spec[j]
<1> DEFINE Apart(k) == \A i, j \in DOMAIN rest[k] : i # j => ~Meets(rest[k][i], rest[k][j])
           From(k) == \A i \in DOMAIN rest[k] : \E j \in 1 .. k : ~Hit(poll, spec[j]) /\ rest[k][i] = spec[j]
           Kept(k) == \A j \in 1 .. k : ~Hit(poll, spec[j]) => \E i \in DOMAIN rest[k] : rest[k][i] = spec[j]
           T == {k \in 0 .. n : Apart(k) /\ From(k) /\ Kept(k)}
<1>1. /\ spec \in Seq(Poll) /\ n \in Nat /\ DOMAIN spec = 1 .. n
      /\ \A i, j \in 1 .. n : i # j => ~Meets(spec[i], spec[j])
  BY DEF Union
<1>2. /\ rest[0] = <<>>
      /\ \A k \in 0 .. n : rest[k] \in Seq(Poll)
      /\ \A k \in 1 .. n : rest[k] = IF Hit(poll, spec[k]) THEN rest[k - 1] ELSE Append(rest[k - 1], spec[k])
  BY Zenon DEF IsRest
<1>3. 0 \in T
  <2>1. DOMAIN rest[0] = {}
    BY <1>2
  <2>2. 0 \in 0 .. n /\ 1 .. 0 = {}
    BY <1>1
  <2> QED BY <2>1, <2>2
<1>4. ASSUME NEW k \in 1 .. n, k - 1 \in T PROVE k \in T
  <2>0. k \in 0 .. n /\ k - 1 \in 0 .. n /\ 1 .. k = (1 .. (k - 1)) \cup {k} /\ k \notin 1 .. (k - 1)
    BY <1>1
  <2>1. Apart(k - 1) /\ From(k - 1) /\ Kept(k - 1)
    BY <1>4
  <2>2. CASE Hit(poll, spec[k])
    <3>1. rest[k] = rest[k - 1]
      BY <1>2, <2>2, Zenon
    <3>2. Apart(k)
      BY <2>1, <3>1, Zenon
    <3>3. From(k)
      BY <2>0, <2>1, <3>1, Zenon
    <3>4. Kept(k)
      BY <2>0, <2>1, <2>2, <3>1, Zenon
    <3> HIDE DEF Apart, From, Kept
    <3> QED BY <2>0, <3>2, <3>3, <3>4
  <2>3. CASE ~Hit(poll, spec[k])
    <3> DEFINE r == rest[k - 1]
               p == spec[k]
               last == Len(r) + 1
    <3>1. rest[k] = Append(r, p)
      BY <1>2, <2>3, Zenon
    <3>2. r \in Seq(Poll) /\ p \in Poll
      BY <1>1, <1>2, <2>0
    <3>3. /\ DOMAIN rest[k] = DOMAIN r \cup {last}
          /\ \A i \in DOMAIN r : rest[k][i] = r[i]
          /\ rest[k][last] = p
      <4> HIDE DEF r, p
      <4> QED BY <3>1, <3>2
    <3> HIDE DEF last
    <3>4. From(k)
      BY <2>0, <2>1, <2>3, <3>3, ZenonT(40)
    <3>5. Kept(k)
      BY <2>0, <2>1, <3>3, Zenon
    <3>6. ASSUME NEW i \in DOMAIN r PROVE ~Meets(r[i], p) /\ ~Meets(p, r[i])
      <4>1. PICK j \in 1 .. (k - 1) : r[i] = spec[j]
        BY <2>1, Zenon
      <4>2. j \in 1 .. n /\ j # k
        BY <1>1, <2>0
      <4> QED BY <1>1, <4>1, <4>2, Zenon
    <3>7. Apart(k)
      BY <2>1, <3>3, <3>6, Zenon
    <3> HIDE DEF Apart, From, Kept
    <3> QED BY <2>0, <3>4, <3>5, <3>7
  <2> QED BY <2>2, <2>3
<1>5. n \in 0 .. n
  BY <1>1
<1> HIDE DEF T
<1>6. n \in T
  BY <1>1, <1>3, <1>4, <1>5, UpTo, Zenon
<1> QED BY <1>6, Zenon DEF T

\* poll is joined with all it hits.
LEMMA MergedJoins ==
  ASSUME NEW spec, NEW D, Union(spec, D), NEW poll, NEW Q, Joins(poll, Q),
         NEW merged, IsMerged(merged, spec, poll), NEW n, n = Len(spec),
         NEW H, H = {j \in 1 .. n : Hit(poll, spec[j])}
  PROVE  /\ merged[n].slave = poll.slave /\ merged[n].type = poll.type
         /\ Joins(merged[n], Together(Q, D, spec, H))
<1> DEFINE J(k) == Q \cup UNION {Inside(D, spec[i]) : i \in {j \in 1 .. k : Hit(poll, spec[j])}}
           Is(k) == merged[k].slave = poll.slave /\ merged[k].type = poll.type /\ Joins(merged[k], J(k))
           T == {k \in 0 .. n : Is(k)}
<1>1. /\ spec \in Seq(Poll) /\ n \in Nat /\ DOMAIN spec = 1 .. n /\ poll \in Poll
      /\ \A i \in 1 .. n : Joins(spec[i], Inside(D, spec[i])) /\ spec[i] \in Poll
  BY DEF Union, Joins
<1>2. /\ merged[0] = poll
      /\ \A k \in 0 .. n : merged[k] \in Poll
      /\ \A k \in 1 .. n : merged[k] = IF Hit(poll, spec[k]) THEN MergePoll(merged[k - 1], spec[k]) ELSE merged[k - 1]
  BY DEF IsMerged
<1>3. 0 \in T
  <2>1. 0 \in 0 .. n /\ 1 .. 0 = {}
    BY <1>1
  <2>2. J(0) = Q
    BY <2>1
  <2> QED BY <1>2, <2>1, <2>2, Zenon
<1>4. ASSUME NEW k \in 1 .. n, k - 1 \in T PROVE k \in T
  <2>0. k \in 0 .. n /\ k - 1 \in 0 .. n /\ 1 .. k = (1 .. (k - 1)) \cup {k}
    BY <1>1
  <2>1. Is(k - 1)
    BY <1>4
  <2>2. CASE ~Hit(poll, spec[k])
    <3>1. merged[k] = merged[k - 1]
      BY <1>2, <2>2, Zenon
    <3>2. {j \in 1 .. k : Hit(poll, spec[j])} = {j \in 1 .. (k - 1) : Hit(poll, spec[j])}
      BY <2>0, <2>2, Zenon
    <3>3. J(k) = J(k - 1)
      BY <3>2
    <3> QED BY <2>0, <2>1, <3>1, <3>3, Zenon
  <2>3. CASE Hit(poll, spec[k])
    <3> DEFINE p == merged[k - 1]
               r == spec[k]
    <3>1. merged[k] = MergePoll(p, r)
      BY <1>2, <2>3, Zenon
    <3>2. J(k) = J(k - 1) \cup Inside(D, r)
      <4>1. {j \in 1 .. k : Hit(poll, spec[j])} = {j \in 1 .. (k - 1) : Hit(poll, spec[j])} \cup {k}
        BY <2>0, <2>3, Zenon
      <4> QED BY <4>1
    <3>3. p.slave = poll.slave /\ p.type = poll.type /\ Joins(p, J(k - 1)) /\ Q \subseteq J(k - 1)
      BY <2>1
    <3> HIDE DEF J
    <3>4. /\ p \in Poll /\ r \in Poll /\ Joins(r, Inside(D, r))
          /\ p.slave = r.slave /\ p.type = r.type
      BY <1>1, <1>2, <2>0, <2>3, <3>3, Zenon DEF Hit, Overlaps
    <3>5. Registers(poll) \subseteq Registers(p)
      BY <3>3, JoinRegisters
    <3>6. Overlaps(p, r)
      <4>1. Registers(poll) \cap Registers(r) # {}
        BY <1>1, <2>3, <3>4, OverlapsIsShared DEF Hit
      <4> HIDE DEF p, r
      <4> QED BY <3>4, <3>5, <4>1, OverlapsIsShared
    <3>7. Joins(MergePoll(p, r), J(k))
      <4> HIDE DEF p, r
      <4> QED BY <3>2, <3>3, <3>4, <3>6, MergePollJoins
    <3>8. MergePoll(p, r).slave = poll.slave /\ MergePoll(p, r).type = poll.type
      <4> HIDE DEF p, r
      <4> QED BY <3>3, <3>4, MergePollFacts
    <3> QED BY <2>0, <3>1, <3>7, <3>8
  <2> QED BY <2>2, <2>3
<1>5. n \in 0 .. n
  BY <1>1
<1> HIDE DEF T
<1>6. n \in T
  BY <1>1, <1>3, <1>4, <1>5, UpTo, Zenon
<1>7. J(n) = Together(Q, D, spec, H)
  BY DEF Together
<1> HIDE DEF J
<1> QED BY <1>6, <1>7 DEF T

\* MsgRegisterPollSpecification::merge adds what a poll joins to a union.
LEMMA MergeIsUnion ==
  ASSUME NEW spec, NEW D, Union(spec, D), NEW poll, NEW Q, Joins(poll, Q)
  PROVE  Union(Merge(spec, poll), D \cup Q)
<1> DEFINE n == Len(spec)
           H == {j \in 1 .. n : Hit(poll, spec[j])}
<1>1. /\ spec \in Seq(Poll) /\ n \in Nat /\ DOMAIN spec = 1 .. n /\ poll \in Poll
      /\ \A i \in 1 .. n : spec[i] \in Poll
  BY DEF Union, Joins
<1>2. PICK rest, merged :
         /\ IsRest(rest, spec, poll) /\ IsMerged(merged, spec, poll)
         /\ Merge(spec, poll) = Append(rest[n], merged[n])
  BY <1>1, MergeUnfolds
<1>3. n \in 0 .. n
  BY <1>1
<1> HIDE DEF n
<1>4. rest[n] \in Seq(Poll)
  BY <1>2, <1>3 DEF IsRest, n
<1>5. H \in SUBSET DOMAIN spec /\ \A i \in DOMAIN spec : i \in H <=> Meets(poll, spec[i])
  BY <1>1, HitIsMet
<1>6. /\ \A i, j \in DOMAIN rest[n] : i # j => ~Meets(rest[n][i], rest[n][j])
      /\ \A i \in DOMAIN rest[n] : \E j \in DOMAIN spec \ H : rest[n][i] = spec[j]
      /\ \A j \in DOMAIN spec \ H : \E i \in DOMAIN rest[n] : rest[n][i] = spec[j]
  <2>1. n = Len(spec)
    BY DEF n
  <2>2. /\ \A i, j \in DOMAIN rest[n] : i # j => ~Meets(rest[n][i], rest[n][j])
        /\ \A i \in DOMAIN rest[n] : \E j \in 1 .. n : ~Hit(poll, spec[j]) /\ rest[n][i] = spec[j]
        /\ \A j \in 1 .. n : ~Hit(poll, spec[j]) => \E i \in DOMAIN rest[n] : rest[n][i] = spec[j]
    BY <1>1, <1>2, <2>1, RestKeepsApart, SMTT(30)
  <2> QED BY <1>1, <2>2, Zenon
<1>7. /\ merged[n].slave = poll.slave /\ merged[n].type = poll.type
      /\ Joins(merged[n], Together(Q, D, spec, H))
  <2>1. n = Len(spec)
    BY DEF n
  <2> QED BY <1>2, <2>1, MergedJoins
<1> HIDE DEF H
<1>8. Union(Append(rest[n], merged[n]), D \cup Q)
  <2> DEFINE r == rest[n]
             m == merged[n]
  <2>1. /\ r \in Seq(Poll)
        /\ \A i, j \in DOMAIN r : i # j => ~Meets(r[i], r[j])
        /\ \A i \in DOMAIN r : \E j \in DOMAIN spec \ H : r[i] = spec[j]
        /\ \A j \in DOMAIN spec \ H : \E i \in DOMAIN r : r[i] = spec[j]
    BY <1>4, <1>6, Zenon
  <2>2. /\ m.slave = poll.slave /\ m.type = poll.type
        /\ Joins(m, Together(Q, D, spec, H))
    BY <1>7, Zenon
  <2> HIDE DEF r, m
  <2>3. Union(Append(r, m), D \cup Q)
    BY <1>5, <2>1, <2>2, UnionJoined, SMTT(30)
  <2> QED BY <2>3 DEF r, m
<1> QED BY <1>2, <1>8

\* Merging a poll into a specification gives a specification.
LEMMA MergeType ==
  ASSUME NEW spec \in Seq(Poll), NEW poll \in Poll
  PROVE  Merge(spec, poll) \in Seq(Poll)
<1>1. PICK rest, merged :
         /\ IsRest(rest, spec, poll) /\ IsMerged(merged, spec, poll)
         /\ Merge(spec, poll) = Append(rest[Len(spec)], merged[Len(spec)])
  BY MergeUnfolds
<1>2. Len(spec) \in 0 .. Len(spec)
  OBVIOUS
<1>3. rest[Len(spec)] \in Seq(Poll) /\ merged[Len(spec)] \in Poll
  BY <1>1, <1>2, Zenon DEF IsRest, IsMerged
<1> DEFINE r == rest[Len(spec)]
           m == merged[Len(spec)]
<1> HIDE DEF r, m
<1>4. r \in Seq(Poll) /\ m \in Poll
  BY <1>3 DEF r, m
<1>5. Append(r, m) \in Seq(Poll)
  BY <1>4
<1> QED BY <1>1, <1>5 DEF r, m

\* MergeAll merges the polls one after the other.
LEMMA MergeAllUnfolds ==
  ASSUME NEW spec \in Seq(Poll), NEW polls \in Seq(Poll)
  PROVE  \E after \in [0 .. Len(polls) -> Seq(Poll)] :
            /\ after[0] = spec /\ MergeAll(spec, polls) = after[Len(polls)]
            /\ \A k \in 1 .. Len(polls) : after[k] = Merge(after[k - 1], polls[k])
<1> DEFINE n == Len(polls)
           F(f) == [k \in 0 .. n |-> IF k = 0 THEN spec ELSE Merge(f[k - 1], polls[k])]
           after == CHOOSE f : f = F(f)
           step == [x \in Nat \X Seq(Poll) |->
                      IF x[1] \in 1 .. n THEN Merge(x[2], polls[x[1]]) ELSE x[2]]
<1>1. MergeAll(spec, polls) = after[n]
  BY Zenon DEF MergeAll
<1>2. n \in Nat /\ \A k \in 1 .. n : polls[k] \in Poll
  OBVIOUS
<1> HIDE DEF n
<1>3. step \in [Nat \X Seq(Poll) -> Seq(Poll)]
  BY <1>2, MergeType
<1>4. \A k \in 1 .. n : \A v \in Seq(Poll) : step[<<k, v>>] = Merge(v, polls[k])
  OBVIOUS
<1> HIDE DEF step
<1>5. PICK f : Follows(f, n, Seq(Poll), spec, step)
  BY <1>2, <1>3, RecursionExists, Zenon
<1>6. f = F(f)
  <2>1. ASSUME NEW k \in 1 .. n PROVE f[k] = Merge(f[k - 1], polls[k])
    <3>1. f[k - 1] \in Seq(Poll) /\ f[k] = step[<<k, f[k - 1]>>]
      BY <1>2, <1>5 DEF Follows
    <3> QED BY <1>4, <3>1
  <2>2. \A k \in 0 .. n : f[k] = F(f)[k]
    BY <1>2, <1>5, <2>1 DEF Follows
  <2> QED BY <1>5, <2>2 DEF Follows
<1>7. after = F(after)
  BY <1>6, Zenon
<1> HIDE DEF after
<1>8. after[0] = spec /\ \A k \in 1 .. n : after[k] = Merge(after[k - 1], polls[k])
  BY <1>2, <1>7
<1> DEFINE T == {k \in 0 .. n : after[k] \in Seq(Poll)}
<1>9. 0 \in T
  BY <1>2, <1>8
<1>10. ASSUME NEW k \in 1 .. n, k - 1 \in T PROVE k \in T
  <2>1. after[k - 1] \in Seq(Poll) /\ polls[k] \in Poll /\ k \in 0 .. n
    BY <1>2, <1>10
  <2>2. after[k] \in Seq(Poll)
    BY <1>8, <2>1, MergeType, Zenon
  <2> QED BY <2>1, <2>2
<1> HIDE DEF T
<1>11. \A k \in 0 .. n : k \in T
  BY <1>2, <1>9, <1>10, UpTo, Zenon
<1>12. \A k \in 0 .. n : after[k] \in Seq(Poll)
  BY <1>11 DEF T
<1>13. after = [k \in 0 .. n |-> after[k]]
  BY <1>7
<1>14. after \in [0 .. n -> Seq(Poll)]
  BY <1>12, <1>13
<1> QED BY <1>1, <1>8, <1>14 DEF n

\* Merging polls one after the other, each of which joins some set.
LEMMA MergeAllIsUnion ==
  ASSUME NEW spec, NEW D, Union(spec, D), NEW polls \in Seq(Poll),
         NEW E, \A k \in 1 .. Len(polls) : Joins(polls[k], E[k])
  PROVE  Union(MergeAll(spec, polls), D \cup UNION {E[k] : k \in 1 .. Len(polls)})
<1> DEFINE n == Len(polls)
           U(k) == D \cup UNION {E[i] : i \in 1 .. k}
<1>1. spec \in Seq(Poll) /\ n \in Nat
  BY DEF Union
<1>2. PICK after \in [0 .. n -> Seq(Poll)] :
         /\ after[0] = spec /\ MergeAll(spec, polls) = after[n]
         /\ \A k \in 1 .. n : after[k] = Merge(after[k - 1], polls[k])
  BY <1>1, MergeAllUnfolds, Zenon
<1> DEFINE T == {k \in 0 .. n : Union(after[k], U(k))}
<1>3. \A k \in 1 .. n : Joins(polls[k], E[k])
  OBVIOUS
<1> HIDE DEF n
<1>4. 0 \in T
  <2>1. 0 \in 0 .. n /\ 1 .. 0 = {}
    BY <1>1
  <2>2. U(0) = D
    BY <2>1
  <2> QED BY <1>2, <2>1, <2>2, Zenon
<1>5. ASSUME NEW k \in 1 .. n, k - 1 \in T PROVE k \in T
  <2>1. k \in 0 .. n /\ 1 .. k = (1 .. (k - 1)) \cup {k}
    BY <1>1
  <2>2. U(k) = U(k - 1) \cup E[k]
    BY <2>1
  <2>3. Union(after[k - 1], U(k - 1))
    BY <1>5
  <2> HIDE DEF U
  <2>4. Union(Merge(after[k - 1], polls[k]), U(k - 1) \cup E[k])
    BY <1>3, <2>3, MergeIsUnion
  <2>5. Union(after[k], U(k))
    BY <1>2, <2>2, <2>4
  <2> QED BY <2>1, <2>5
<1>6. n \in 0 .. n
  BY <1>1
<1> HIDE DEF T
<1>7. n \in T
  BY <1>1, <1>4, <1>5, <1>6, UpTo, Zenon
<1>8. Union(after[n], U(n))
  BY <1>7 DEF T
<1> QED BY <1>2, <1>8 DEF n

\* The poll groups of a slave are merged into those of its network.
LEMMA MergeAllPolls ==
  ASSUME NEW spec, NEW D, Union(spec, D), NEW polls \in Seq(Poll)
  PROVE  Union(MergeAll(spec, polls), D \cup Range(polls))
<1> DEFINE E == [k \in 1 .. Len(polls) |-> {polls[k]}]
<1>1. \A k \in 1 .. Len(polls) : Joins(polls[k], E[k])
  BY JoinsItself
<1>2. UNION {E[k] : k \in 1 .. Len(polls)} = Range(polls)
  BY DEF Range
<1> HIDE DEF E
<1>3. Union(MergeAll(spec, polls), D \cup UNION {E[k] : k \in 1 .. Len(polls)})
  BY <1>1, MergeAllIsUnion
<1> QED BY <1>2, <1>3, Zenon

\* A union is merged into another one.
LEMMA MergeAllUnions ==
  ASSUME NEW spec, NEW D, Union(spec, D), NEW polls, NEW E, Union(polls, E)
  PROVE  Union(MergeAll(spec, polls), D \cup E)
<1> DEFINE In == [k \in 1 .. Len(polls) |-> Inside(E, polls[k])]
<1>1. polls \in Seq(Poll) /\ DOMAIN polls = 1 .. Len(polls)
  BY DEF Union
<1>2. \A k \in 1 .. Len(polls) : Joins(polls[k], In[k])
  BY <1>1 DEF Union
<1>3. UNION {In[k] : k \in 1 .. Len(polls)} = E
  <2>1. \A k \in 1 .. Len(polls) : In[k] \subseteq E
    BY InsideMeets
  <2>2. ASSUME NEW d \in E PROVE \E k \in 1 .. Len(polls) : d \in In[k]
    <3>1. PICK k \in 1 .. Len(polls) : Holds(polls[k], d)
      BY <1>1 DEF Union
    <3>2. d.register \in Registers(d)
      BY PollRange DEF Union
    <3>3. Meets(d, polls[k])
      BY <3>1, <3>2 DEF Holds, Meets
    <3> QED BY <3>3, InsideMeets
  <2> HIDE DEF In
  <2> QED BY <2>1, <2>2
<1> HIDE DEF In
<1>4. Union(MergeAll(spec, polls), D \cup UNION {In[k] : k \in 1 .. Len(polls)})
  BY <1>1, <1>2, MergeAllIsUnion
<1> QED BY <1>3, <1>4, Zenon

(***************************************************************************)
(* The specifications of the objects, by network.                          *)
(***************************************************************************)
Text == STRING \cup {""}

\* the polls of poll groups and those of data nodes
GroupPolls == {p \in Poll : p.refresh = INVALID_REFRESH}

TimedPolls == {p \in Poll : p.refresh # INVALID_REFRESH}

Node == [network : Text, part : {"state", "availability"}, poll : TimedPolls]

Specs == UNION {[d -> Seq(Poll)] : d \in SUBSET Text}

\* the polls of pairs whose network is n
At(pairs, n) == {d[2] : d \in {x \in pairs : x[1] = n}}

PairOf(node) == <<node.network, node.poll>>

AllUnions(specs, pairs) ==
    /\ specs \in Specs
    /\ \A n \in DOMAIN specs : Union(specs[n], At(pairs, n))
    /\ \A d \in pairs : d[1] \in DOMAIN specs

\* Updating with a node changes the specification of its network only.
LEMMA UpdateFacts ==
  ASSUME NEW specs \in Specs, NEW node \in Node
  PROVE  LET new == UpdateSpecification(specs, node)
             old == IF node.network \in DOMAIN specs THEN specs[node.network] ELSE <<>>
         IN /\ new \in Specs
            /\ DOMAIN new = DOMAIN specs \cup {node.network}
            /\ new[node.network] = Merge(old, node.poll)
            /\ \A n \in DOMAIN specs \ {node.network} : new[n] = specs[n]
<1> DEFINE new == UpdateSpecification(specs, node)
           name == node.network
           old == IF name \in DOMAIN specs THEN specs[name] ELSE <<>>
           merged == Merge(old, node.poll)
           dom == DOMAIN specs \cup {name}
<1>1. name \in Text /\ node.poll \in Poll
  BY DEF Node, TimedPolls
<1>2. PICK d \in SUBSET Text : specs \in [d -> Seq(Poll)]
  BY DEF Specs
<1>3. DOMAIN specs \in SUBSET Text /\ \A n \in DOMAIN specs : specs[n] \in Seq(Poll)
  BY <1>2
<1>4. old \in Seq(Poll)
  BY <1>3
<1> HIDE DEF old, name
<1>5. merged \in Seq(Poll)
  BY <1>1, <1>4, MergeType
<1>6. new = [x \in dom |-> IF x = name THEN merged ELSE specs[x]]
  <2>1. new = Override([x \in {name} |-> merged], specs)
    BY Zenon DEF UpdateSpecification, name, old
  <2> HIDE DEF merged
  <2> QED BY <2>1 DEF Override
<1> HIDE DEF merged
<1>7. new \in [dom -> Seq(Poll)] /\ dom \in SUBSET Text
  BY <1>1, <1>3, <1>5, <1>6
<1>8. new \in Specs
  BY <1>7, Zenon DEF Specs
<1>9. DOMAIN new = dom /\ new[name] = merged /\ \A n \in DOMAIN specs \ {name} : new[n] = specs[n]
  BY <1>6
<1> HIDE DEF new
<1> QED BY <1>8, <1>9 DEF new, merged, old, name

\* updateSpecification merges the poll of a data node into the union of its
\* network.
LEMMA UpdateIsUnion ==
  ASSUME NEW specs, NEW pairs, AllUnions(specs, pairs), NEW node \in Node
  PROVE  AllUnions(UpdateSpecification(specs, node), pairs \cup {PairOf(node)})
<1> DEFINE new == UpdateSpecification(specs, node)
           name == node.network
           old == IF name \in DOMAIN specs THEN specs[name] ELSE <<>>
           all == pairs \cup {PairOf(node)}
<1>1. specs \in Specs
  BY DEF AllUnions
<1>2. /\ new \in Specs /\ DOMAIN new = DOMAIN specs \cup {name}
      /\ new[name] = Merge(old, node.poll)
      /\ \A n \in DOMAIN specs \ {name} : new[n] = specs[n]
  BY <1>1, UpdateFacts, Zenon
<1>3. Joins(node.poll, {node.poll})
  BY JoinsItself DEF Node, TimedPolls
<1>4. Union(old, At(pairs, name))
  <2>1. CASE name \in DOMAIN specs
    BY <2>1 DEF AllUnions
  <2>2. CASE name \notin DOMAIN specs
    <3>1. At(pairs, name) = {}
      BY <2>2 DEF AllUnions, At
    <3> QED BY <2>2, <3>1, EmptyUnion
  <2> QED BY <2>1, <2>2
<1>5. At(all, name) = At(pairs, name) \cup {node.poll}
  <2> DEFINE pair == PairOf(node)
  <2>1. pair[1] = name /\ pair[2] = node.poll
    BY DEF PairOf
  <2> HIDE DEF pair
  <2>2. {x \in all : x[1] = name} = {x \in pairs : x[1] = name} \cup {pair}
    BY <2>1 DEF pair
  <2> HIDE DEF all
  <2> QED BY <2>1, <2>2 DEF At
<1>6. \A n : n # name => At(all, n) = At(pairs, n)
  BY DEF At, PairOf
<1> HIDE DEF new, old
<1>7. Union(new[name], At(all, name))
  BY <1>2, <1>3, <1>4, <1>5, MergeIsUnion
<1>8. \A n \in DOMAIN new : Union(new[n], At(all, n))
  BY <1>2, <1>6, <1>7 DEF AllUnions
<1>9. \A d \in all : d[1] \in DOMAIN new
  BY <1>2 DEF AllUnions, PairOf
<1> QED BY <1>2, <1>8, <1>9 DEF AllUnions, new

\* UpdateSpecifications updates with the nodes one after the other.
LEMMA UpdatesUnfold ==
  ASSUME NEW specs \in Specs, NEW nodes \in Seq(Node)
  PROVE  \E after \in [0 .. Len(nodes) -> Specs] :
            /\ after[0] = specs /\ UpdateSpecifications(specs, nodes) = after[Len(nodes)]
            /\ \A k \in 1 .. Len(nodes) : after[k] = UpdateSpecification(after[k - 1], nodes[k])
<1> DEFINE n == Len(nodes)
           F(f) == [k \in 0 .. n |-> IF k = 0 THEN specs ELSE UpdateSpecification(f[k - 1], nodes[k])]
           after == CHOOSE f : f = F(f)
           step == [x \in Nat \X Specs |->
                      IF x[1] \in 1 .. n THEN UpdateSpecification(x[2], nodes[x[1]]) ELSE x[2]]
<1>1. UpdateSpecifications(specs, nodes) = after[n]
  BY Zenon DEF UpdateSpecifications
<1>2. n \in Nat /\ \A k \in 1 .. n : nodes[k] \in Node
  OBVIOUS
<1> HIDE DEF n
<1>3. step \in [Nat \X Specs -> Specs]
  BY <1>2, UpdateFacts, Zenon
<1>4. \A k \in 1 .. n : \A v \in Specs : step[<<k, v>>] = UpdateSpecification(v, nodes[k])
  OBVIOUS
<1> HIDE DEF step
<1>5. PICK f : Follows(f, n, Specs, specs, step)
  BY <1>2, <1>3, RecursionExists, Zenon
<1>6. f = F(f)
  <2>1. ASSUME NEW k \in 1 .. n PROVE f[k] = UpdateSpecification(f[k - 1], nodes[k])
    <3>1. f[k - 1] \in Specs /\ f[k] = step[<<k, f[k - 1]>>]
      BY <1>2, <1>5 DEF Follows
    <3> QED BY <1>4, <3>1
  <2>2. \A k \in 0 .. n : f[k] = F(f)[k]
    BY <1>2, <1>5, <2>1 DEF Follows
  <2> QED BY <1>5, <2>2 DEF Follows
<1>7. after = F(after)
  BY <1>6, Zenon
<1> HIDE DEF after
<1>8. after[0] = specs /\ \A k \in 1 .. n : after[k] = UpdateSpecification(after[k - 1], nodes[k])
  BY <1>2, <1>7
<1> DEFINE T == {k \in 0 .. n : after[k] \in Specs}
<1>9. 0 \in T
  BY <1>2, <1>8
<1>10. ASSUME NEW k \in 1 .. n, k - 1 \in T PROVE k \in T
  <2>1. after[k - 1] \in Specs /\ nodes[k] \in Node /\ k \in 0 .. n
    BY <1>2, <1>10
  <2>2. UpdateSpecification(after[k - 1], nodes[k]) \in Specs
    BY <2>1, UpdateFacts, Zenon
  <2>3. after[k] \in Specs
    BY <1>8, <2>2, Zenon
  <2> QED BY <2>1, <2>3
<1> HIDE DEF T
<1>11. \A k \in 0 .. n : k \in T
  BY <1>2, <1>9, <1>10, UpTo, Zenon
<1>12. \A k \in 0 .. n : after[k] \in Specs
  BY <1>11 DEF T
<1>13. after = [k \in 0 .. n |-> after[k]]
  BY <1>7
<1>14. after \in [0 .. n -> Specs]
  BY <1>12, <1>13
<1> QED BY <1>1, <1>8, <1>14 DEF n

\* Updating with nodes keeps every specification the union of what was declared.
LEMMA UpdatesAreUnions ==
  ASSUME NEW specs, NEW pairs, AllUnions(specs, pairs), NEW nodes \in Seq(Node)
  PROVE  AllUnions(UpdateSpecifications(specs, nodes), pairs \cup {PairOf(nodes[k]) : k \in DOMAIN nodes})
<1> DEFINE n == Len(nodes)
           U(k) == pairs \cup {PairOf(nodes[i]) : i \in 1 .. k}
<1>1. specs \in Specs /\ n \in Nat /\ DOMAIN nodes = 1 .. n /\ \A k \in 1 .. n : nodes[k] \in Node
  BY DEF AllUnions
<1>2. PICK after \in [0 .. n -> Specs] :
         /\ after[0] = specs /\ UpdateSpecifications(specs, nodes) = after[n]
         /\ \A k \in 1 .. n : after[k] = UpdateSpecification(after[k - 1], nodes[k])
  BY <1>1, UpdatesUnfold
<1> DEFINE T == {k \in 0 .. n : AllUnions(after[k], U(k))}
<1> HIDE DEF n
<1>3. 0 \in T
  <2>1. 0 \in 0 .. n /\ 1 .. 0 = {}
    BY <1>1
  <2>2. U(0) = pairs
    BY <2>1
  <2> QED BY <1>2, <2>1, <2>2, Zenon
<1>4. ASSUME NEW k \in 1 .. n, k - 1 \in T PROVE k \in T
  <2>1. k \in 0 .. n /\ 1 .. k = (1 .. (k - 1)) \cup {k}
    BY <1>1
  <2>2. U(k) = U(k - 1) \cup {PairOf(nodes[k])}
    BY <2>1
  <2>3. AllUnions(after[k - 1], U(k - 1))
    BY <1>4
  <2> HIDE DEF U
  <2>4. AllUnions(UpdateSpecification(after[k - 1], nodes[k]), U(k - 1) \cup {PairOf(nodes[k])})
    BY <1>1, <2>3, UpdateIsUnion
  <2>5. AllUnions(after[k], U(k))
    BY <1>2, <2>2, <2>4
  <2> QED BY <2>1, <2>5
<1>5. n \in 0 .. n
  BY <1>1
<1> HIDE DEF T
<1>6. n \in T
  BY <1>1, <1>3, <1>4, <1>5, UpTo, Zenon
<1>7. AllUnions(after[n], U(n))
  BY <1>6 DEF T
<1> QED BY <1>1, <1>2, <1>7

(***************************************************************************)
(* Sequences of sequences.                                                 *)
(***************************************************************************)
LEMMA ConcatUnfolds ==
  ASSUME NEW S, NEW seqs \in Seq(Seq(S))
  PROVE  \E f \in [0 .. Len(seqs) -> Seq(S)] :
            /\ f[0] = <<>> /\ Concat(seqs) = f[Len(seqs)]
            /\ \A k \in 1 .. Len(seqs) : f[k] = f[k - 1] \o seqs[k]
<1> DEFINE n == Len(seqs)
           F(f) == [k \in 0 .. n |-> IF k = 0 THEN <<>> ELSE f[k - 1] \o seqs[k]]
           upTo == CHOOSE f : f = F(f)
           step == [x \in Nat \X Seq(S) |-> IF x[1] \in 1 .. n THEN x[2] \o seqs[x[1]] ELSE x[2]]
<1>1. Concat(seqs) = upTo[n]
  BY Zenon DEF Concat
<1>2. n \in Nat /\ \A k \in 1 .. n : seqs[k] \in Seq(S)
  OBVIOUS
<1> HIDE DEF n
<1>3. step \in [Nat \X Seq(S) -> Seq(S)]
  BY <1>2
<1>4. ASSUME NEW k \in 1 .. n, NEW v \in Seq(S) PROVE step[<<k, v>>] = v \o seqs[k]
  <2>1. <<k, v>> \in Nat \X Seq(S) /\ <<k, v>>[1] = k /\ <<k, v>>[2] = v
    BY <1>2
  <2> QED BY <2>1, Zenon
<1> HIDE DEF step
<1>5. <<>> \in Seq(S)
  OBVIOUS
<1>6. PICK f : Follows(f, n, Seq(S), <<>>, step)
  BY <1>2, <1>3, <1>5, RecursionExists, Zenon
<1>7. f = F(f)
  <2>1. ASSUME NEW k \in 1 .. n PROVE f[k] = f[k - 1] \o seqs[k]
    <3>1. f[k - 1] \in Seq(S) /\ f[k] = step[<<k, f[k - 1]>>]
      BY <1>2, <1>6 DEF Follows
    <3> QED BY <1>4, <3>1, Zenon
  <2>2. f[0] = <<>> /\ 0 \in 0 .. n
    BY <1>2, <1>6 DEF Follows
  <2>3. ASSUME NEW k \in 0 .. n PROVE f[k] = F(f)[k]
    <3>1. CASE k = 0
      BY <2>2, <3>1, Zenon
    <3>2. CASE k # 0
      <4>1. k \in 1 .. n
        BY <1>2, <3>2
      <4>2. f[k] = f[k - 1] \o seqs[k]
        BY <2>1, <4>1, Zenon
      <4> QED BY <3>2, <4>2, Zenon
    <3> QED BY <3>1, <3>2
  <2> HIDE DEF F
  <2>4. f = [k \in 0 .. n |-> f[k]]
    BY <1>6 DEF Follows
  <2>5. F(f) = [k \in 0 .. n |-> F(f)[k]]
    BY Zenon DEF F
  <2> QED BY <2>3, <2>4, <2>5, Zenon
<1>8. upTo = F(upTo)
  BY <1>7, Zenon
<1> HIDE DEF upTo
<1>9. upTo[0] = <<>> /\ upTo = [k \in 0 .. n |-> upTo[k]]
  <2>1. 0 \in 0 .. n
    BY <1>2
  <2>2. upTo[0] = <<>>
    BY <1>8, <2>1, Zenon
  <2> QED BY <1>8, <2>2, Zenon
<1>10. ASSUME NEW k \in 1 .. n PROVE upTo[k] = upTo[k - 1] \o seqs[k]
  <2>1. k \in 0 .. n /\ k # 0
    BY <1>2
  <2> QED BY <1>8, <2>1, Zenon
<1> DEFINE T == {k \in 0 .. n : upTo[k] \in Seq(S)}
<1>11. 0 \in T
  <2>1. 0 \in 0 .. n
    BY <1>2
  <2> QED BY <1>5, <1>9, <2>1, Zenon
<1>12. ASSUME NEW k \in 1 .. n, k - 1 \in T PROVE k \in T
  <2>1. upTo[k - 1] \in Seq(S) /\ seqs[k] \in Seq(S) /\ k \in 0 .. n
    BY <1>2, <1>12
  <2> DEFINE before == upTo[k - 1]
             more == seqs[k]
  <2>2. upTo[k] = before \o more
    BY <1>10, Zenon
  <2>3. before \in Seq(S) /\ more \in Seq(S)
    BY <2>1
  <2> HIDE DEF before, more
  <2>4. before \o more \in Seq(S)
    BY <2>3
  <2> QED BY <2>1, <2>2, <2>4, Zenon
<1> HIDE DEF T
<1>13. \A k \in 0 .. n : k \in T
  BY <1>2, <1>11, <1>12, UpTo, Zenon
<1>14. \A k \in 0 .. n : upTo[k] \in Seq(S)
  BY <1>13 DEF T
<1>15. upTo \in [0 .. n -> Seq(S)]
  BY <1>9, <1>14
<1> QED BY <1>1, <1>9, <1>10, <1>15 DEF n


\* A concatenation holds the elements of both parts.
LEMMA RangeJoined ==
  ASSUME NEW S, NEW a \in Seq(S), NEW b \in Seq(S)
  PROVE  Range(a \o b) = Range(a) \cup Range(b)
<1>1. /\ DOMAIN a = 1 .. Len(a) /\ DOMAIN b = 1 .. Len(b) /\ Len(a) \in Nat /\ Len(b) \in Nat
      /\ DOMAIN (a \o b) = 1 .. Len(a) + Len(b)
      /\ \A i \in DOMAIN a : (a \o b)[i] = a[i] /\ i \in DOMAIN (a \o b)
      /\ \A i \in DOMAIN b : (a \o b)[Len(a) + i] = b[i] /\ Len(a) + i \in DOMAIN (a \o b)
  OBVIOUS
<1>2. ASSUME NEW i \in DOMAIN (a \o b) PROVE i \in DOMAIN a \/ \E j \in DOMAIN b : i = Len(a) + j
  <2>1. CASE i <= Len(a)
    BY <1>1, <2>1
  <2>2. CASE i > Len(a)
    <3>1. i - Len(a) \in DOMAIN b /\ i = Len(a) + (i - Len(a))
      BY <1>1, <2>2
    <3> QED BY <3>1
  <2> QED BY <1>1, <2>1, <2>2
<1> DEFINE c == a \o b
<1> HIDE DEF c
<1>3. /\ \A i \in DOMAIN a : c[i] = a[i] /\ i \in DOMAIN c
      /\ \A i \in DOMAIN b : c[Len(a) + i] = b[i] /\ Len(a) + i \in DOMAIN c
      /\ \A i \in DOMAIN c : i \in DOMAIN a \/ \E j \in DOMAIN b : i = Len(a) + j
  BY <1>1, <1>2 DEF c
<1>4. Range(c) = Range(a) \cup Range(b)
  BY <1>3 DEF Range
<1> QED BY <1>4 DEF c

\* Concat holds the elements of all the sequences.
LEMMA ConcatFacts ==
  ASSUME NEW S, NEW seqs \in Seq(Seq(S))
  PROVE  /\ Concat(seqs) \in Seq(S)
         /\ Range(Concat(seqs)) = UNION {Range(seqs[k]) : k \in DOMAIN seqs}
<1> DEFINE n == Len(seqs)
           U(k) == UNION {Range(seqs[i]) : i \in 1 .. k}
<1>1. n \in Nat /\ DOMAIN seqs = 1 .. n /\ \A k \in 1 .. n : seqs[k] \in Seq(S)
  OBVIOUS
<1>2. PICK f \in [0 .. n -> Seq(S)] :
         /\ f[0] = <<>> /\ Concat(seqs) = f[n]
         /\ \A k \in 1 .. n : f[k] = f[k - 1] \o seqs[k]
  BY ConcatUnfolds, Zenon
<1> DEFINE T == {k \in 0 .. n : Range(f[k]) = U(k)}
<1> HIDE DEF n
<1>3. 0 \in T
  <2>1. 0 \in 0 .. n /\ 1 .. 0 = {}
    BY <1>1
  <2>2. U(0) = {} /\ Range(<<>>) = {}
    BY <2>1 DEF Range
  <2> QED BY <1>2, <2>1, <2>2
<1>4. ASSUME NEW k \in 1 .. n, k - 1 \in T PROVE k \in T
  <2>1. k \in 0 .. n /\ k - 1 \in 0 .. n /\ 1 .. k = (1 .. (k - 1)) \cup {k}
    BY <1>1
  <2>2. U(k) = U(k - 1) \cup Range(seqs[k])
    BY <2>1
  <2>3. Range(f[k - 1]) = U(k - 1)
    BY <1>4
  <2> HIDE DEF U
  <2> DEFINE a == f[k - 1]
             b == seqs[k]
  <2>4. a \in Seq(S) /\ b \in Seq(S) /\ f[k] = a \o b
    BY <1>1, <1>2, <2>1, Zenon
  <2>5. Range(a \o b) = Range(a) \cup Range(b)
    <3> HIDE DEF a, b
    <3> QED BY <2>4, RangeJoined
  <2>6. Range(f[k]) = U(k)
    BY <2>2, <2>3, <2>4, <2>5
  <2> QED BY <2>1, <2>6
<1>5. n \in 0 .. n
  BY <1>1
<1> HIDE DEF T
<1>6. n \in T
  BY <1>1, <1>3, <1>4, <1>5, UpTo, Zenon
<1>7. Range(f[n]) = U(n)
  BY <1>6 DEF T
<1>8. f[n] \in Seq(S)
  BY <1>5
<1> QED BY <1>1, <1>2, <1>7, <1>8

(***************************************************************************)
(* What the entries of the file are read as.                               *)
(***************************************************************************)
LEMMA FunctionIsSequence ==
  ASSUME NEW S, NEW m \in Int, NEW f \in [1 .. m -> S]
  PROVE  f \in Seq(S)
<1>1. CASE m >= 0
  BY <1>1
<1>2. CASE m < 0
  <2>1. 1 .. m = 1 .. 0
    BY <1>2
  <2>2. f \in [1 .. 0 -> S]
    BY <2>1
  <2> QED BY <2>2
<1> QED BY <1>1, <1>2

\* A sequence over a set is one over any larger set.
LEMMA SequenceOfMore ==
  ASSUME NEW S, NEW T, S \subseteq T, NEW q \in Seq(S)
  PROVE  q \in Seq(T)
<1>1. Len(q) \in Nat /\ q \in [1 .. Len(q) -> S]
  OBVIOUS
<1>2. q \in [1 .. Len(q) -> T]
  BY <1>1
<1> QED BY <1>1, <1>2, FunctionIsSequence

\* One element makes a sequence.
LEMMA SequenceOfOne ==
  ASSUME NEW S, NEW x \in S
  PROVE  <<x>> \in Seq(S)
OBVIOUS

\* The slave addresses of a list of ranges are integers.
LEMMA AddressesType ==
  ASSUME NEW ranges \in AddressRanges
  PROVE  Addresses(ranges) \in Seq(Int)
<1> DEFINE part(i) == [j \in 1 .. ranges[i][2] - ranges[i][1] + 1 |-> ranges[i][1] + j - 1]
           parts == [i \in DOMAIN ranges |-> part(i)]
<1>1. Len(ranges) \in Nat /\ DOMAIN ranges = 1 .. Len(ranges)
  BY DEF AddressRanges
<1>2. ASSUME NEW i \in DOMAIN ranges PROVE part(i) \in Seq(Int)
  <2>1. ranges[i][1] \in Int /\ ranges[i][2] \in Int
    BY DEF AddressRanges
  <2> DEFINE m == ranges[i][2] - ranges[i][1] + 1
  <2>2. m \in Int /\ part(i) \in [1 .. m -> Int]
    BY <2>1
  <2> HIDE DEF m
  <2> QED BY <2>2, FunctionIsSequence, Zenon
<1> HIDE DEF part
<1>3. parts \in [1 .. Len(ranges) -> Seq(Int)]
  BY <1>1, <1>2
<1>4. parts \in Seq(Seq(Int))
  BY <1>1, <1>3, FunctionIsSequence
<1>5. Addresses(ranges) = Concat(parts)
  BY DEF Addresses, part
<1> HIDE DEF parts
<1> QED BY <1>4, <1>5, ConcatFacts

\* What a register name and its defaults give has the expected types.
LEMMA NamesType ==
  ASSUME NEW r \in RegisterName, NEW network \in Text, NEW slave \in Int
  PROVE  NetworkOf(r, network) \in Text /\ SlaveOf(r, slave) \in Int /\ RegisterNumber(r) \in Int
<1>1. r.network \in STRING /\ r.slave \in Int /\ r.base \in Nat /\ r.number \in Nat
  BY DEF RegisterName
<1>2. NetworkOf(r, network) \in Text
  BY <1>1, Zenon DEF NetworkOf, Text
<1>3. SlaveOf(r, slave) \in Int
  BY <1>1 DEF SlaveOf
<1>4. RegisterNumber(r) \in Int
  BY <1>1 DEF RegisterNumber
<1> QED BY <1>2, <1>3, <1>4

SlavePolls(s) ==
    Concat([i \in DOMAIN SlaveAddresses(s) |-> PollGroups(s, SlaveAddresses(s)[i])])

\* A slave section gives a sequence of poll groups.
LEMMA SlavePollsType ==
  ASSUME NEW s \in SlaveSections
  PROVE  SlavePolls(s) \in Seq(GroupPolls)
<1>1. s.addresses \in AddressRanges /\ s.groups \in Seq(GroupEntry)
  BY ConfigurationAssumption, Zenon
<1>2. SlaveAddresses(s) \in Seq(Int)
  BY <1>1, AddressesType DEF SlaveAddresses
<1>3. ASSUME NEW a \in Int PROVE PollGroups(s, a) \in Seq(GroupPolls)
  <2> DEFINE poll(i) == PollGroup(SlaveOf(s.groups[i].register, a), s.groups[i].type,
                                  RegisterNumber(s.groups[i].register), s.groups[i].count)
  <2>1. ASSUME NEW i \in DOMAIN s.groups PROVE poll(i) \in GroupPolls
    <3>1. s.groups[i] \in GroupEntry
      BY <1>1
    <3>2. /\ s.groups[i].register \in RegisterName /\ s.groups[i].type \in RegisterTypes
          /\ s.groups[i].count \in Nat \ {0}
      BY <3>1 DEF GroupEntry
    <3>3. SlaveOf(s.groups[i].register, a) \in Int /\ RegisterNumber(s.groups[i].register) \in Int
      <4>1. "" \in Text
        BY DEF Text
      <4> QED BY <3>2, <4>1, NamesType, Zenon
    <3> QED BY <3>2, <3>3 DEF PollGroup, GroupPolls, Poll, PublishModes
  <2>2. PollGroups(s, a) = [i \in DOMAIN s.groups |-> poll(i)]
    BY DEF PollGroups
  <2> HIDE DEF poll
  <2>3. Len(s.groups) \in Nat /\ DOMAIN s.groups = 1 .. Len(s.groups)
    BY <1>1
  <2>4. PollGroups(s, a) \in [1 .. Len(s.groups) -> GroupPolls]
    BY <2>1, <2>2, <2>3
  <2> QED BY <2>3, <2>4, FunctionIsSequence
<1> DEFINE addresses == SlaveAddresses(s)
           parts == [i \in DOMAIN addresses |-> PollGroups(s, addresses[i])]
<1>4. parts \in Seq(Seq(GroupPolls))
  <2>1. Len(addresses) \in Nat /\ DOMAIN addresses = 1 .. Len(addresses)
    BY <1>2
  <2>2. \A i \in DOMAIN addresses : addresses[i] \in Int
    BY <1>2
  <2> HIDE DEF addresses
  <2>3. parts \in [1 .. Len(addresses) -> Seq(GroupPolls)]
    BY <1>3, <2>1, <2>2
  <2> QED BY <2>1, <2>3, FunctionIsSequence
<1>5. SlavePolls(s) = Concat(parts)
  BY DEF SlavePolls
<1> HIDE DEF parts
<1> QED BY <1>4, <1>5, ConcatFacts

Instance == [network : Text, slave : Int]

\* The fields of an object section.
LEMMA SectionType ==
  ASSUME NEW o \in ObjectSections
  PROVE  /\ o.topic \in Text /\ o.networks \in Seq(STRING) /\ o.slaves \in AddressRanges
         /\ o.refresh \in Nat /\ o.mode \in PublishModes \cup {""} /\ o.nodes \in Seq(NodeEntry)
BY ConfigurationAssumption, Zenon DEF Text

\* An object section gives one instance per network and slave.
LEMMA InstancesType ==
  ASSUME NEW o \in ObjectSections
  PROVE  Instances(o) \in Seq(Instance)
<1> DEFINE networks == IF o.networks = <<>> THEN <<"">> ELSE o.networks
           slaves == IF o.slaves = <<>> THEN <<-1>> ELSE Addresses(o.slaves)
           part(i) == [j \in DOMAIN slaves |-> [network |-> networks[i], slave |-> slaves[j]]]
           parts == [i \in DOMAIN networks |-> part(i)]
<1>1. networks \in Seq(Text)
  <2>1. o.networks \in Seq(STRING)
    BY SectionType, Zenon
  <2>2. STRING \subseteq Text /\ "" \in Text
    BY Zenon DEF Text
  <2>3. o.networks \in Seq(Text)
    BY <2>1, <2>2, SequenceOfMore, Zenon
  <2>4. <<"">> \in Seq(Text)
    BY <2>2, SequenceOfOne, Zenon
  <2> QED BY <2>3, <2>4, Zenon
<1>2. slaves \in Seq(Int)
  <2>1. Addresses(o.slaves) \in Seq(Int)
    BY SectionType, AddressesType, Zenon
  <2>2. <<-1>> \in Seq(Int)
    OBVIOUS
  <2> QED BY <2>1, <2>2, Zenon
<1>3. Instances(o) = Concat(parts)
  BY DEF Instances
<1> HIDE DEF networks, slaves
<1>4. ASSUME NEW i \in DOMAIN networks PROVE part(i) \in Seq(Instance)
  <2>1. networks[i] \in Text
    BY <1>1
  <2>2. Len(slaves) \in Nat /\ DOMAIN slaves = 1 .. Len(slaves) /\ \A j \in DOMAIN slaves : slaves[j] \in Int
    BY <1>2
  <2>3. part(i) \in [1 .. Len(slaves) -> Instance]
    BY <2>1, <2>2 DEF Instance
  <2> QED BY <2>2, <2>3, FunctionIsSequence
<1>5. Len(networks) \in Nat /\ DOMAIN networks = 1 .. Len(networks)
  BY <1>1
<1> HIDE DEF part
<1>6. parts \in [1 .. Len(networks) -> Seq(Instance)]
  BY <1>4, <1>5
<1>7. parts \in Seq(Seq(Instance))
  BY <1>5, <1>6, FunctionIsSequence
<1> HIDE DEF parts
<1> QED BY <1>3, <1>7, ConcatFacts

\* An object instance gives the nodes to poll.
LEMMA NodePollsType ==
  ASSUME NEW o \in ObjectSections, NEW i \in Instance
  PROVE  NodePolls(o, i) \in Seq(Node)
<1> DEFINE node(k) == [network |-> NetworkOf(o.nodes[k].register, i.network), part |-> o.nodes[k].part,
                       poll |-> NodePoll(o, i, o.nodes[k])]
<1>0. o.nodes \in Seq(NodeEntry)
  BY SectionType, Zenon
<1>1. o.refresh \in Nat /\ o.mode \in PublishModes \cup {""}
  BY SectionType, Zenon
<1>2. i.network \in Text /\ i.slave \in Int
  BY DEF Instance
<1>3. ASSUME NEW k \in DOMAIN o.nodes PROVE node(k) \in Node
  <2> DEFINE e == o.nodes[k]
  <2>1. e \in NodeEntry
    BY <1>0
  <2> HIDE DEF e
  <2>2. /\ e.register \in RegisterName /\ e.type \in RegisterTypes /\ e.count \in Nat \ {0}
        /\ e.refresh \in Nat /\ e.part \in {"state", "availability"}
    BY <2>1 DEF NodeEntry
  <2>3. /\ NetworkOf(e.register, i.network) \in Text /\ SlaveOf(e.register, i.slave) \in Int
        /\ RegisterNumber(e.register) \in Int
    BY <1>2, <2>2, NamesType
  <2> DEFINE refresh == IF e.refresh # 0 THEN e.refresh ELSE IF o.refresh # 0 THEN o.refresh ELSE DefaultRefresh
             mode == IF o.mode # "" THEN o.mode ELSE DefaultMode
  <2>4. refresh \in Nat \ {0} /\ mode \in PublishModes
    BY <1>1, <2>2, ConfigurationAssumption, Zenon
  <2>5. NodePoll(o, i, e) = [slave |-> SlaveOf(e.register, i.slave), type |-> e.type,
                             register |-> RegisterNumber(e.register), count |-> e.count,
                             refresh |-> refresh, mode |-> mode]
    BY DEF NodePoll
  <2> HIDE DEF refresh, mode
  <2>6. NodePoll(o, i, e) \in TimedPolls
    BY <2>2, <2>3, <2>4, <2>5 DEF TimedPolls, Poll, INVALID_REFRESH
  <2>7. node(k) = [network |-> NetworkOf(e.register, i.network), part |-> e.part, poll |-> NodePoll(o, i, e)]
    BY DEF e
  <2> HIDE DEF node
  <2> QED BY <2>2, <2>3, <2>6, <2>7 DEF Node
<1>4. NodePolls(o, i) = [k \in DOMAIN o.nodes |-> node(k)]
  BY DEF NodePolls
<1>5. Len(o.nodes) \in Nat /\ DOMAIN o.nodes = 1 .. Len(o.nodes)
  BY <1>0
<1> HIDE DEF node
<1>6. NodePolls(o, i) \in [1 .. Len(o.nodes) -> Node]
  BY <1>3, <1>4, <1>5
<1> QED BY <1>5, <1>6, FunctionIsSequence

(***************************************************************************)
(* The invariant.                                                          *)
(***************************************************************************)
ObjectTopic == [base : Text, network : Text, slave : Int, name : Text]

Object == [topic : ObjectTopic, nodes : Seq(Node)]

\* what the data nodes of the objects declare
NodePairs == UNION {{PairOf(x) : x \in Range(o.nodes)} : o \in Range(objects)}

\* what the poll groups declare
GroupPairs == {x \in declared : x[2] \in GroupPolls}

ConfigurationType ==
    /\ objects \in Seq(Object)
    /\ \A x \in DOMAIN mSlaveNames : mSlaveNames[x] \in Text
    /\ \A x \in declared : x[2] \in Poll

\* Only poll groups and the objects declare anything.
DeclaredInv ==
    /\ NodePairs \subseteq declared
    /\ \A x \in declared : x[2] \in TimedPolls => x \in NodePairs

\* Until init is done, the specifications of groups and of objects are apart.
ApartInv ==
    phase \in {"modbus", "mqtt"} =>
        /\ DOMAIN mPollSpecification = Networks
        /\ \A n \in Networks : Union(mPollSpecification[n], At(GroupPairs, n))

\* Then they are one, and its entries lead to the objects.
DoneInv ==
    phase = "done" =>
        /\ \A n \in Networks : Union(mPollSpecification[n], At(declared, n))
        /\ \A n \in Networks : \A p \in Range(mPollSpecification[n]) :
              ObjectsIn(n, p) # {} =>
                  /\ Ident(n, p) \in DOMAIN mObjects
                  /\ ObjectsIn(n, p) \subseteq mObjects[Ident(n, p)]

IInv ==
    /\ ConfigurationType
    /\ DeclaredInv
    /\ AllUnions(mqttSpecs, NodePairs)
    /\ ApartInv
    /\ DoneInv

\* The polls of a network in a joined declaration are those of both parts.
LEMMA AtJoined ==
  ASSUME NEW pairs, NEW more, NEW n
  PROVE  At(pairs \cup more, n) = At(pairs, n) \cup At(more, n)
BY DEF At

\* The invariant holds before anything is read.
LEMMA InitIInv == Init => IInv
<1> SUFFICES ASSUME Init PROVE IInv
  OBVIOUS
<1>1. objects = <<>> /\ declared = {} /\ mSlaveNames = <<>> /\ mqttSpecs = <<>> /\ phase = "modbus"
  BY DEF Init
<1>2. objects \in Seq(Object) /\ Range(objects) = {}
  BY <1>1 DEF Range
<1>3. NodePairs = {} /\ GroupPairs = {}
  BY <1>1, <1>2 DEF NodePairs, GroupPairs
<1>4. DOMAIN mqttSpecs = {} /\ mqttSpecs \in [{} -> Seq(Poll)]
  BY <1>1
<1>5. mqttSpecs \in Specs
  BY <1>4 DEF Specs
<1>6. \A n : At({}, n) = {}
  BY DEF At
<1>7. DOMAIN mPollSpecification = Networks /\ \A n \in Networks : mPollSpecification[n] = <<>>
  BY DEF Init
<1>8. ConfigurationType
  BY <1>1, <1>2 DEF ConfigurationType
<1>9. DeclaredInv
  BY <1>1, <1>3 DEF DeclaredInv
<1>10. AllUnions(mqttSpecs, NodePairs)
  BY <1>3, <1>4, <1>5 DEF AllUnions
<1>11. ApartInv
  BY <1>3, <1>6, <1>7, EmptyUnion, Zenon DEF ApartInv
<1>12. DoneInv
  BY <1>1 DEF DoneInv
<1> QED BY <1>8, <1>9, <1>10, <1>11, <1>12 DEF IInv

\* The steps that only change the phase, or nothing.
LEMMA PhaseStep ==
  ASSUME IInv, phase' = phase \/ phase' = "failed" \/ (phase = "modbus" /\ phase' = "mqtt"),
         UNCHANGED <<mPollSpecification, mSlaveNames, mqttSpecs, objects, mObjects, declared>>
  PROVE  IInv'
<1>1. NodePairs' = NodePairs /\ GroupPairs' = GroupPairs
  BY DEF NodePairs, GroupPairs
<1>2. ConfigurationType' /\ DeclaredInv'
  BY <1>1 DEF IInv, ConfigurationType, DeclaredInv
<1>3. AllUnions(mqttSpecs, NodePairs)'
  BY <1>1 DEF IInv
<1>4. ApartInv'
  BY <1>1 DEF IInv, ApartInv
<1>5. \A n, p : ObjectsIn(n, p)' = ObjectsIn(n, p)
  BY DEF ObjectsIn
<1>6. DoneInv'
  BY <1>5, Zenon DEF IInv, DoneInv
<1> QED BY <1>2, <1>3, <1>4, <1>6 DEF IInv

\* Reading a slave section keeps the invariant.
LEMMA SlavesStep ==
  ASSUME IInv, NEW s \in SlaveSections, ReadSlaves(s)
  PROVE  IInv'
<1> DEFINE polls == SlavePolls(s)
           names == IF s.name = "" THEN <<>>
                    ELSE [k \in {s.network} \X Range(SlaveAddresses(s)) |-> s.name]
           more == {s.network} \X Range(polls)
<1>1. CASE InvalidSlaves(s)
  <2>1. Fail
    BY <1>1 DEF ReadSlaves
  <2> QED BY <2>1, PhaseStep DEF Fail
<1>2. CASE ~InvalidSlaves(s)
  <2>1. /\ phase = "modbus"
        /\ mPollSpecification' = [mPollSpecification EXCEPT ![s.network] = MergeAll(@, polls)]
        /\ mSlaveNames' = Override(names, mSlaveNames)
        /\ declared' = declared \cup more
        /\ UNCHANGED <<phase, mqttSpecs, objects>>
    BY <1>2, Zenon DEF ReadSlaves, SlavePolls
  <2>2. polls \in Seq(GroupPolls)
    BY SlavePollsType
  <2>3. s.network \in Networks /\ s.name \in STRING
    BY ConfigurationAssumption, Zenon
  <2> HIDE DEF polls
  <2>4. Range(polls) \subseteq GroupPolls /\ GroupPolls \subseteq Poll
    BY <2>2 DEF Range, GroupPolls
  <2>5. polls \in Seq(Poll)
    BY <2>2, <2>4, SequenceOfMore
  <2>6. \A x \in more : x[1] = s.network /\ x[2] \in Range(polls) /\ x[2] \in GroupPolls
    BY <2>4
  <2>7. NodePairs' = NodePairs
    BY <2>1, Zenon DEF NodePairs
  <2>8. GroupPairs' = GroupPairs \cup more
    BY <2>1, <2>6, Zenon DEF GroupPairs
  <2>9. ConfigurationType'
    <3>1. \A x \in DOMAIN mSlaveNames : mSlaveNames[x] \in Text
      BY DEF IInv, ConfigurationType
    <3>2. \A x \in DOMAIN names : names[x] \in Text
      <4>1. CASE s.name = ""
        <5>1. names = <<>>
          BY <4>1, Zenon
        <5> HIDE DEF names
        <5> QED BY <5>1
      <4>2. CASE s.name # ""
        <5>1. names = [k \in {s.network} \X Range(SlaveAddresses(s)) |-> s.name]
          BY <4>2, Zenon
        <5> HIDE DEF names
        <5> QED BY <2>3, <5>1, Zenon DEF Text
      <4> QED BY <4>1, <4>2, Zenon
    <3> HIDE DEF names
    <3>3. \A x \in DOMAIN mSlaveNames' : mSlaveNames'[x] \in Text
      BY <2>1, <3>1, <3>2, Zenon DEF Override
    <3>4. \A x \in declared' : x[2] \in Poll
      BY <2>1, <2>4, <2>6 DEF IInv, ConfigurationType
    <3> QED BY <2>1, <3>3, <3>4 DEF IInv, ConfigurationType
  <2>10. DeclaredInv'
    <3>1. \A x \in more : x[2] \notin TimedPolls
      BY <2>6 DEF GroupPolls, TimedPolls
    <3> QED BY <2>1, <2>7, <3>1, Zenon DEF IInv, DeclaredInv
  <2>11. AllUnions(mqttSpecs, NodePairs)'
    BY <2>1, <2>7, Zenon DEF IInv
  <2>12. ApartInv'
    <3>1. /\ DOMAIN mPollSpecification = Networks
          /\ \A n \in Networks : Union(mPollSpecification[n], At(GroupPairs, n))
      BY <2>1, Zenon DEF IInv, ApartInv
    <3>2. /\ DOMAIN mPollSpecification' = Networks
          /\ mPollSpecification'[s.network] = MergeAll(mPollSpecification[s.network], polls)
          /\ \A n \in Networks \ {s.network} : mPollSpecification'[n] = mPollSpecification[n]
      BY <2>1, <2>3, <3>1, Zenon
    <3>3. At(more, s.network) = Range(polls)
      <4>1. {x \in more : x[1] = s.network} = more
        BY <2>6
      <4>2. \A y \in Range(polls) : <<s.network, y>> \in more /\ <<s.network, y>>[2] = y
        OBVIOUS
      <4> HIDE DEF more
      <4>3. \A x \in more : x[2] \in Range(polls)
        BY <2>6
      <4> QED BY <4>1, <4>2, <4>3, Zenon DEF At
    <3>4. \A n \in Networks \ {s.network} : At(more, n) = {}
      BY <2>6 DEF At
    <3> HIDE DEF more
    <3>5. Union(mPollSpecification'[s.network], At(GroupPairs', s.network))
      <4>1. At(GroupPairs', s.network) = At(GroupPairs, s.network) \cup Range(polls)
        BY <2>8, <3>3, AtJoined
      <4>2. Union(MergeAll(mPollSpecification[s.network], polls), At(GroupPairs, s.network) \cup Range(polls))
        BY <2>3, <2>5, <3>1, MergeAllPolls
      <4> QED BY <3>2, <4>1, <4>2, Zenon
    <3>6. ASSUME NEW n \in Networks \ {s.network} PROVE Union(mPollSpecification'[n], At(GroupPairs', n))
      <4>1. At(GroupPairs', n) = At(GroupPairs, n)
        <5>1. At(GroupPairs \cup more, n) = At(GroupPairs, n) \cup At(more, n)
          BY AtJoined
        <5>2. At(more, n) = {}
          BY <3>4
        <5>3. At(GroupPairs \cup more, n) = At(GroupPairs, n)
          BY <5>1, <5>2
        <5> QED BY <2>8, <5>3
      <4> QED BY <3>1, <3>2, <4>1, Zenon
    <3>7. ASSUME NEW n \in Networks PROVE Union(mPollSpecification[n], At(GroupPairs, n))'
      BY <3>5, <3>6, Zenon DEF At
    <3> QED BY <3>2, <3>7 DEF ApartInv
  <2>13. DoneInv'
    BY <2>1, Zenon DEF DoneInv
  <2> QED BY <2>9, <2>10, <2>11, <2>12, <2>13 DEF IInv
<1> QED BY <1>1, <1>2

\* An object instance's topic has the type of a topic.
LEMMA TopicType ==
  ASSUME ConfigurationType, NEW o \in ObjectSections, NEW i \in Instance
  PROVE  Topic(o, i) \in ObjectTopic
<1>1. o.topic \in Text /\ i.network \in Text /\ i.slave \in Int /\ "" \in Text
  BY SectionType, Zenon DEF Instance, Text
<1>2. SlaveName(i) \in Text
  BY <1>1, Zenon DEF ConfigurationType, SlaveName
<1>3. /\ (IF "network" \in o.placeholders THEN i.network ELSE "") \in Text
      /\ (IF "slave_address" \in o.placeholders THEN i.slave ELSE -1) \in Int
      /\ (IF "slave_name" \in o.placeholders THEN SlaveName(i) ELSE "") \in Text
  <2>1. -1 \in Int
    OBVIOUS
  <2> QED BY <1>1, <1>2, <2>1, Zenon
<1> QED BY <1>1, <1>3, Zenon DEF Topic, ObjectTopic

MadeObjects(o) ==
    [k \in DOMAIN Instances(o) |-> [topic |-> Topic(o, Instances(o)[k]),
                                    nodes |-> NodePolls(o, Instances(o)[k])]]

MadeNodes(o) == Concat([k \in DOMAIN MadeObjects(o) |-> MadeObjects(o)[k].nodes])

\* The data nodes that updateSpecification sees are those of the new objects.
LEMMA MadeFacts ==
  ASSUME ConfigurationType, NEW o \in ObjectSections
  PROVE  /\ MadeObjects(o) \in Seq(Object) /\ MadeNodes(o) \in Seq(Node)
         /\ Range(MadeNodes(o)) = UNION {Range(x.nodes) : x \in Range(MadeObjects(o))}
<1> DEFINE instances == Instances(o)
           object(k) == [topic |-> Topic(o, instances[k]), nodes |-> NodePolls(o, instances[k])]
           made == MadeObjects(o)
           parts == [k \in DOMAIN made |-> made[k].nodes]
<1>1. instances \in Seq(Instance)
  BY InstancesType
<1>2. made = [k \in DOMAIN instances |-> object(k)]
  BY DEF MadeObjects
<1>3. MadeNodes(o) = Concat(parts)
  BY DEF MadeNodes
<1> HIDE DEF instances, made
<1>4. ASSUME NEW k \in DOMAIN instances PROVE object(k) \in Object
  <2>1. instances[k] \in Instance
    BY <1>1
  <2>2. Topic(o, instances[k]) \in ObjectTopic /\ NodePolls(o, instances[k]) \in Seq(Node)
    BY <2>1, TopicType, NodePollsType
  <2> QED BY <2>2 DEF Object
<1>5. Len(instances) \in Nat /\ DOMAIN instances = 1 .. Len(instances)
  BY <1>1
<1> HIDE DEF object
<1>6. made \in [1 .. Len(instances) -> Object]
  BY <1>2, <1>4, <1>5
<1>7. made \in Seq(Object)
  BY <1>5, <1>6, FunctionIsSequence
<1>8. \A k \in DOMAIN made : made[k].nodes \in Seq(Node)
  BY <1>6 DEF Object
<1>9. parts \in [1 .. Len(instances) -> Seq(Node)]
  BY <1>6, <1>8
<1>10. parts \in Seq(Seq(Node))
  BY <1>5, <1>9, FunctionIsSequence
<1>11. DOMAIN parts = DOMAIN made /\ \A k \in DOMAIN made : parts[k] = made[k].nodes
  OBVIOUS
<1> HIDE DEF parts
<1>12. /\ Concat(parts) \in Seq(Node)
       /\ Range(Concat(parts)) = UNION {Range(parts[k]) : k \in DOMAIN parts}
  BY <1>10, ConcatFacts
<1>13. UNION {Range(parts[k]) : k \in DOMAIN parts} = UNION {Range(x.nodes) : x \in Range(made)}
  <2>1. {Range(parts[k]) : k \in DOMAIN parts} = {Range(x.nodes) : x \in {made[k] : k \in DOMAIN made}}
    BY <1>11
  <2> QED BY <2>1, Zenon DEF Range
<1> QED BY <1>3, <1>7, <1>12, <1>13 DEF made

\* Reading an object section keeps the invariant.
LEMMA ObjectStep ==
  ASSUME IInv, NEW o \in ObjectSections, ReadObject(o)
  PROVE  IInv'
<1> DEFINE made == MadeObjects(o)
           nodes == MadeNodes(o)
           more == {PairOf(nodes[k]) : k \in DOMAIN nodes}
<1>1. CASE InvalidObject(o)
  <2>1. Fail
    BY <1>1, Zenon DEF ReadObject
  <2> QED BY <2>1, PhaseStep DEF Fail
<1>2. CASE ~InvalidObject(o)
  <2>1. /\ phase = "mqtt"
        /\ objects' = objects \o made
        /\ mqttSpecs' = UpdateSpecifications(mqttSpecs, nodes)
        /\ declared' = declared \cup {<<nodes[k].network, nodes[k].poll>> : k \in DOMAIN nodes}
        /\ UNCHANGED <<phase, mPollSpecification, mSlaveNames>>
    BY <1>2, Zenon DEF ReadObject, MadeNodes, MadeObjects
  <2>2. declared' = declared \cup more
    BY <2>1, Zenon DEF PairOf
  <2>3. ConfigurationType
    BY DEF IInv
  <2>4. /\ made \in Seq(Object) /\ nodes \in Seq(Node)
        /\ Range(nodes) = UNION {Range(x.nodes) : x \in Range(made)}
    BY <2>3, MadeFacts
  <2> HIDE DEF made, nodes
  <2>5. objects' \in Seq(Object) /\ Range(objects') = Range(objects) \cup Range(made)
    <3>1. objects \in Seq(Object)
      BY <2>3 DEF ConfigurationType
    <3>2. objects \o made \in Seq(Object)
      BY <2>4, <3>1
    <3> QED BY <2>1, <2>4, <3>1, <3>2, RangeJoined
  <2>6. more = {PairOf(x) : x \in Range(nodes)}
    BY DEF Range
  <2>7. NodePairs' = NodePairs \cup more
    <3>1. NodePairs' = UNION {{PairOf(x) : x \in Range(y.nodes)} : y \in Range(objects) \cup Range(made)}
      BY <2>5, Zenon DEF NodePairs, Range
    <3>2. UNION {{PairOf(x) : x \in Range(y.nodes)} : y \in Range(made)} = more
      <4>1. \A x : x \in Range(nodes) <=> \E y \in Range(made) : x \in Range(y.nodes)
        BY <2>4
      <4> HIDE DEF more
      <4>2. \A z : z \in more <=> \E x \in Range(nodes) : z = PairOf(x)
        BY <2>6
      <4>3. \A z : z \in UNION {{PairOf(x) : x \in Range(y.nodes)} : y \in Range(made)}
                  <=> \E y \in Range(made) : \E x \in Range(y.nodes) : z = PairOf(x)
        OBVIOUS
      <4> QED BY <4>1, <4>2, <4>3, Zenon
    <3> QED BY <3>1, <3>2 DEF NodePairs
  <2>8. \A x \in more : x[2] \in TimedPolls /\ x[2] \in Poll /\ x[2] \notin GroupPolls
    <3>1. \A y \in Range(nodes) : y \in Node
      BY <2>4 DEF Range
    <3>2. \A y \in Range(nodes) : y.poll \in TimedPolls
      BY <3>1 DEF Node
    <3>3. \A y \in Range(nodes) : PairOf(y)[2] = y.poll
      BY DEF PairOf
    <3>4. \A x \in more : x[2] \in TimedPolls
      BY <2>6, <3>2, <3>3
    <3> QED BY <3>4 DEF TimedPolls, GroupPolls
  <2>9. AllUnions(mqttSpecs', NodePairs \cup more)
    BY <2>1, <2>4, UpdatesAreUnions DEF IInv
  <2> HIDE DEF more
  <2>10. GroupPairs' = GroupPairs
    BY <2>2, <2>8 DEF GroupPairs
  <2>11. ConfigurationType'
    BY <2>1, <2>2, <2>3, <2>5, <2>8 DEF ConfigurationType
  <2>12. DeclaredInv'
    BY <2>2, <2>7 DEF IInv, DeclaredInv
  <2>13. AllUnions(mqttSpecs, NodePairs)'
    <3>1. AllUnions(mqttSpecs', NodePairs')
      BY <2>7, <2>9
    <3> QED BY <3>1 DEF AllUnions, At
  <2>14. ApartInv'
    <3>1. ASSUME NEW n \in Networks PROVE Union(mPollSpecification[n], At(GroupPairs, n))'
      <4>1. Union(mPollSpecification[n], At(GroupPairs, n))
        BY <2>1 DEF IInv, ApartInv
      <4>2. mPollSpecification' = mPollSpecification
        BY <2>1
      <4>3. Union(mPollSpecification'[n], At(GroupPairs', n))
        BY <2>10, <4>1, <4>2
      <4> QED BY <4>3 DEF At
    <3> QED BY <2>1, <3>1 DEF IInv, ApartInv
  <2>15. DoneInv'
    BY <2>1, Zenon DEF DoneInv
  <2> QED BY <2>11, <2>12, <2>13, <2>14, <2>15 DEF IInv
<1> QED BY <1>1, <1>2

\* Poll groups and objects of a network together are all it declares.
LEMMA FinalIsUnion ==
  ASSUME IInv, phase = "mqtt", NEW n \in Networks
  PROVE  Union(FinalSpecification(n), At(declared, n))
<1>1. Union(mPollSpecification[n], At(GroupPairs, n))
  BY DEF IInv, ApartInv
<1>2. declared = GroupPairs \cup NodePairs
  <2>1. \A x \in declared : x[2] \in GroupPolls \/ x[2] \in TimedPolls
    BY DEF IInv, ConfigurationType, GroupPolls, TimedPolls
  <2> QED BY <2>1 DEF IInv, DeclaredInv, GroupPairs
<1>3. At(declared, n) = At(GroupPairs, n) \cup At(NodePairs, n)
  BY <1>2, AtJoined
<1>4. CASE n \in DOMAIN mqttSpecs
  <2>1. Union(mqttSpecs[n], At(NodePairs, n))
    BY <1>4 DEF IInv, AllUnions
  <2>2. Union(MergeAll(mPollSpecification[n], mqttSpecs[n]), At(GroupPairs, n) \cup At(NodePairs, n))
    BY <1>1, <2>1, MergeAllUnions
  <2> QED BY <1>3, <1>4, <2>2 DEF FinalSpecification
<1>5. CASE n \notin DOMAIN mqttSpecs
  <2>1. At(NodePairs, n) = {}
    BY <1>5 DEF IInv, AllUnions, At
  <2>2. At(declared, n) = At(GroupPairs, n)
    BY <1>3, <2>1
  <2> QED BY <1>1, <1>5, <2>2 DEF FinalSpecification
<1> QED BY <1>4, <1>5

\* Mapping the objects to the specifications keeps the invariant.
LEMMA MapStep ==
  ASSUME IInv, MapObjects
  PROVE  IInv'
<1>1. /\ phase = "mqtt" /\ phase' = "done"
      /\ mPollSpecification' = [n \in Networks |-> FinalSpecification(n)]
      /\ UNCHANGED <<mSlaveNames, mqttSpecs, objects, declared>>
  BY DEF MapObjects
<1>2. NodePairs' = NodePairs
  BY <1>1 DEF NodePairs
<1>3. ConfigurationType' /\ DeclaredInv'
  BY <1>1, <1>2 DEF IInv, ConfigurationType, DeclaredInv
<1>4. AllUnions(mqttSpecs, NodePairs)'
  BY <1>1, <1>2 DEF IInv
<1>5. ApartInv'
  BY <1>1 DEF ApartInv
<1>6. ASSUME NEW n \in Networks PROVE Union(mPollSpecification[n], At(declared, n))'
  <2>1. Union(FinalSpecification(n), At(declared, n))
    BY <1>1, FinalIsUnion
  <2>2. mPollSpecification'[n] = FinalSpecification(n) /\ declared' = declared
    BY <1>1
  <2>3. Union(mPollSpecification'[n], At(declared', n))
    BY <2>1, <2>2
  <2> QED BY <2>3 DEF At
<1>7. \A n, p : ObjectsIn(n, p)' = ObjectsIn(n, p)
  BY <1>1 DEF ObjectsIn
<1>8. ASSUME NEW n \in Networks, NEW p \in Range(FinalSpecification(n)), ObjectsIn(n, p) # {}
      PROVE  /\ Ident(n, p) \in DOMAIN mObjects'
             /\ ObjectsIn(n, p) \subseteq mObjects'[Ident(n, p)]
  <2> DEFINE polls == UNION {{m} \X Range(FinalSpecification(m)) : m \in Networks}
             used == {x \in polls : ObjectsIn(x[1], x[2]) # {}}
             ids == {Ident(x[1], x[2]) : x \in used}
             found(id) == UNION {ObjectsIn(x[1], x[2]) : x \in {y \in used : Ident(y[1], y[2]) = id}}
             pair == <<n, p>>
  <2>1. mObjects' = [id \in ids |-> found(id)]
    BY Zenon DEF MapObjects
  <2>2. pair \in polls /\ pair[1] = n /\ pair[2] = p
    BY <1>8
  <2> HIDE DEF polls, pair
  <2>3. pair \in used
    BY <1>8, <2>2
  <2> HIDE DEF used
  <2>4. Ident(n, p) \in ids
    BY <2>2, <2>3, Zenon
  <2>5. ObjectsIn(n, p) \subseteq found(Ident(n, p))
    BY <2>2, <2>3, Zenon
  <2> HIDE DEF ids, found
  <2> QED BY <2>1, <2>4, <2>5
<1>9. DoneInv'
  <2>1. ASSUME NEW n \in Networks, NEW p \in Range(mPollSpecification[n])', ObjectsIn(n, p)' # {}
        PROVE  (Ident(n, p) \in DOMAIN mObjects /\ ObjectsIn(n, p) \subseteq mObjects[Ident(n, p)])'
    <3>1. p \in Range(FinalSpecification(n))
      BY <1>1, <2>1 DEF Range
    <3>2. ObjectsIn(n, p)' = ObjectsIn(n, p)
      BY <1>7
    <3>3. Ident(n, p)' = Ident(n, p)
      BY DEF Ident
    <3> QED BY <1>8, <2>1, <3>1, <3>2, <3>3, Zenon
  <2> QED BY <1>6, <2>1, Zenon DEF DoneInv
<1> QED BY <1>3, <1>4, <1>5, <1>9 DEF IInv

\* Every step of the configuration keeps the invariant.
LEMMA NextIInv == IInv /\ [Next]_vars => IInv'
<1> SUFFICES ASSUME IInv, [Next]_vars PROVE IInv'
  OBVIOUS
<1>1. ASSUME NEW s \in SlaveSections, ReadSlaves(s) PROVE IInv'
  BY <1>1, SlavesStep
<1>2. CASE ModbusRead
  BY <1>2, PhaseStep DEF ModbusRead
<1>3. ASSUME NEW o \in ObjectSections, ReadObject(o) PROVE IInv'
  BY <1>3, ObjectStep
<1>4. CASE MapObjects
  BY <1>4, MapStep
<1>5. CASE UNCHANGED vars
  BY <1>5, PhaseStep DEF vars
<1> QED BY <1>1, <1>2, <1>3, <1>4, <1>5 DEF Next

\* Poll groups, data nodes and what init makes of them agree in every
\* reachable state.
THEOREM ConfigurationInvariance == Spec => []IInv
BY InitIInv, NextIInv, PTL DEF Spec

\* What init sends to the modbus threads is the union of what the file
\* declares, for any number of slaves, poll groups and objects and in any
\* order (MsgRegisterPollSpecification::merge): no two entries of a slave
\* share a register, and an entry joins just the ranges declared in it, with
\* the shortest of their periods and the strongest of their modes.
THEOREM SpecificationAlwaysUnion == Spec => []SpecificationIsUnion
<1>1. IInv => SpecificationIsUnion
  <2> SUFFICES ASSUME IInv, phase = "done", NEW n \in Networks
               PROVE  IsUnionOf(mPollSpecification[n], DeclaredFor(n))
    BY DEF SpecificationIsUnion
  <2>1. Union(mPollSpecification[n], At(declared, n))
    BY DEF IInv, DoneInv
  <2>2. At(declared, n) = DeclaredFor(n)
    BY DEF At, DeclaredFor
  <2> QED BY <2>1, <2>2, UnionIsUnion
<1> QED BY <1>1, ConfigurationInvariance, PTL

\* An entry is polled as often and published as eagerly as the polls it joins
\* ask for, and it has a period when one of them has.
LEMMA JoinServes ==
  ASSUME NEW p, NEW polls, Joins(p, polls)
  PROVE  /\ \A q \in polls : Rank(p.mode) >= Rank(q.mode)
         /\ \A q \in polls : q \in TimedPolls =>
                p.refresh # INVALID_REFRESH /\ p.refresh <= q.refresh
         /\ p.refresh # INVALID_REFRESH => \E q \in polls : q \in TimedPolls
<1>1. /\ p.refresh = Shortest(polls) /\ Rank(p.mode) = Max(Ranks(polls))
      /\ polls \in SUBSET Poll /\ polls # {}
  BY DEF Joins, IsJoinOf, Shortest, Ranks
<1>2. \A q \in polls : Rank(p.mode) >= Rank(q.mode)
  <2>1. Ranks(polls) \in SUBSET (0 .. 2) /\ Ranks(polls) # {}
    BY <1>1, RankRange DEF Ranks, Poll
  <2>2. \A y \in Ranks(polls) : Max(Ranks(polls)) >= y
    BY <2>1, MaxIsGreatest
  <2>3. \A q \in polls : Rank(q.mode) \in Ranks(polls)
    BY DEF Ranks
  <2> QED BY <1>1, <2>2, <2>3
<1>3. Refreshes(polls) \in SUBSET Nat /\ INVALID_REFRESH \notin Nat
  BY <1>1 DEF Refreshes, Poll, INVALID_REFRESH
<1>4. ASSUME NEW q \in polls, q \in TimedPolls
      PROVE  p.refresh # INVALID_REFRESH /\ p.refresh <= q.refresh
  <2>1. q.refresh \in Refreshes(polls)
    BY <1>4 DEF Refreshes, TimedPolls
  <2>2. Min(Refreshes(polls)) \in Refreshes(polls) /\ \A y \in Refreshes(polls) : Min(Refreshes(polls)) <= y
    BY <1>3, <2>1, MinIsLeast
  <2>3. p.refresh = Min(Refreshes(polls))
    BY <1>1, <2>1 DEF Shortest
  <2> QED BY <1>3, <2>1, <2>2, <2>3
<1>5. ASSUME p.refresh # INVALID_REFRESH PROVE \E q \in polls : q \in TimedPolls
  <2>1. Refreshes(polls) # {}
    BY <1>1, <1>5 DEF Shortest
  <2> QED BY <1>1, <2>1 DEF Refreshes, TimedPolls
<1> QED BY <1>2, <1>4, <1>5

\* A data node whose range meets an entry makes its object one of the
\* entry's.
LEMMA NodeFound ==
  ASSUME NEW k \in DOMAIN objects, NEW j \in DOMAIN objects[k].nodes, NEW n, NEW p \in Poll,
         objects[k].nodes[j].network = n, objects[k].nodes[j].poll \in Poll,
         Meets(objects[k].nodes[j].poll, p)
  PROVE  objects[k].topic \in ObjectsIn(n, p)
<1> DEFINE node == objects[k].nodes[j]
<1>1. node.network = n /\ node.poll \in Poll /\ Meets(node.poll, p)
  OBVIOUS
<1>2. Overlaps(p, node.poll) /\ node.poll.slave = p.slave
  <2> HIDE DEF node
  <2>1. p.type = node.poll.type /\ Registers(p) \cap Registers(node.poll) # {}
    BY <1>1, Zenon DEF Meets
  <2> QED BY <1>1, <2>1, OverlapsIsShared, Zenon DEF Meets
<1>3. HasRegisterIn(objects[k], n, p)
  BY <1>1, <1>2, Zenon DEF HasRegisterIn
<1> QED BY <1>3, Zenon DEF ObjectsIn

\* Every register of every object is polled by exactly one entry, as often
\* and in as strong a mode as declared, and MqttClient finds the object
\* under the ident of that entry; processRegisterValues finds objects for
\* every entry that is polled.  For any file that init accepts.
THEOREM RegistersAlwaysServed == Spec => []RegistersServed
<1>1. ASSUME IInv, phase = "done" , NEW k \in DOMAIN objects, NEW j \in DOMAIN objects[k].nodes,
             NEW n \in Networks, objects[k].nodes[j].network = n,
             NEW r \in Registers(objects[k].nodes[j].poll)
      PROVE  LET poll == objects[k].nodes[j].poll
                 serving == {p \in Polled(n) : p.slave = poll.slave /\ p.type = poll.type /\ r \in Registers(p)}
             IN /\ Cardinality(serving) = 1
                /\ \A p \in serving :
                      /\ p.refresh <= poll.refresh
                      /\ Rank(p.mode) >= Rank(poll.mode)
                      /\ Ident(n, p) \in DOMAIN mObjects
                      /\ objects[k].topic \in mObjects[Ident(n, p)]
  <2> DEFINE node == objects[k].nodes[j]
             poll == node.poll
             spec == mPollSpecification[n]
             D == At(declared, n)
             serving == {p \in Polled(n) : p.slave = poll.slave /\ p.type = poll.type /\ r \in Registers(p)}
  <2>1. node \in Node /\ node \in Range(objects[k].nodes) /\ objects[k] \in Range(objects)
    <3>1. objects[k] \in Object
      BY <1>1 DEF IInv, ConfigurationType
    <3>2. objects[k].nodes \in Seq(Node)
      BY <3>1 DEF Object
    <3> QED BY <1>1, <3>2 DEF Range
  <2>2. PairOf(node) \in NodePairs
    <3> HIDE DEF node
    <3>1. PairOf(node) \in {PairOf(x) : x \in Range(objects[k].nodes)}
      BY <2>1
    <3> QED BY <2>1, <3>1, Zenon DEF NodePairs
  <2>3. poll \in TimedPolls /\ poll \in Poll
    BY <2>1 DEF Node, TimedPolls
  <2>4. PairOf(node) \in declared /\ PairOf(node)[1] = n /\ PairOf(node)[2] = poll
    BY <1>1, <2>2 DEF IInv, DeclaredInv, PairOf
  <2>5. poll \in D /\ n \in DOMAIN mqttSpecs
    BY <1>1, <2>2, <2>4, Zenon DEF At, IInv, AllUnions
  <2>6. Union(spec, D)
    BY <1>1, Zenon DEF IInv, DoneInv
  <2>7. Polled(n) = {p \in Range(spec) : p.refresh # INVALID_REFRESH}
    BY <2>5, Zenon DEF Polled
  <2>8. r \in Registers(poll)
    BY <1>1
  <2>9. node.network = n
    BY <1>1
  <2> HIDE DEF poll, spec, D
  <2>10. PICK i \in DOMAIN spec : Holds(spec[i], poll)
    BY <2>5, <2>6 DEF Union
  <2> DEFINE p == spec[i]
  <2>11. p \in Poll /\ Joins(p, Inside(D, p))
    BY <2>6, <2>10 DEF Union
  <2>12. Meets(poll, p) /\ r \in Registers(p)
    BY <2>8, <2>10 DEF Holds, Meets
  <2>13. poll \in Inside(D, p)
    BY <2>5, <2>12, InsideMeets, Zenon
  <2>14. /\ Rank(p.mode) >= Rank(poll.mode)
         /\ p.refresh # INVALID_REFRESH /\ p.refresh <= poll.refresh
    BY <2>3, <2>11, <2>13, JoinServes
  <2>15. p \in serving
    BY <2>7, <2>10, <2>12, <2>14, Zenon DEF Range, Meets
  <2>16. ASSUME NEW q \in serving PROVE q = p
    <3>1. PICK m \in DOMAIN spec : q = spec[m]
      BY <2>7, <2>16 DEF Range
    <3>2. Meets(spec[m], spec[i])
      BY <2>12, <2>16, <3>1 DEF Meets
    <3> QED BY <2>6, <3>1, <3>2, Zenon DEF Union
  <2>17. serving = {p}
    BY <2>15, <2>16
  <2>18. objects[k].topic \in ObjectsIn(n, p)
    BY <2>3, <2>9, <2>11, <2>12, NodeFound, Zenon DEF poll
  <2>19. /\ Ident(n, p) \in DOMAIN mObjects
         /\ objects[k].topic \in mObjects[Ident(n, p)]
    <3>1. p \in Range(mPollSpecification[n])
      BY <2>10 DEF Range, spec
    <3> HIDE DEF p
    <3> QED BY <1>1, <2>18, <3>1, Zenon DEF IInv, DoneInv
  <2> HIDE DEF p, serving
  <2>20. Cardinality(serving) = 1
    BY <2>17, FS_Singleton, Zenon
  <2> QED BY <2>14, <2>17, <2>19, <2>20, Zenon DEF serving, poll
<1>2. ASSUME IInv, phase = "done", NEW n \in Networks, NEW p \in Polled(n)
      PROVE  Ident(n, p) \in DOMAIN mObjects
  <2> DEFINE spec == mPollSpecification[n]
             D == At(declared, n)
  <2>1. p \in Range(spec) /\ p.refresh # INVALID_REFRESH
    BY <1>2, Zenon DEF Polled
  <2>2. Union(spec, D)
    BY <1>2, Zenon DEF IInv, DoneInv
  <2>3. Joins(p, Inside(D, p)) /\ p \in Poll
    <3> HIDE DEF spec, D
    <3> QED BY <2>1, <2>2, Zenon DEF Union, Range, Joins
  <2>4. PICK q \in Inside(D, p) : q \in TimedPolls
    BY <2>1, <2>3, JoinServes, Zenon
  <2>5. q \in D /\ Meets(q, p) /\ q \in Poll
    BY <2>4, InsideMeets DEF TimedPolls
  <2>6. PICK x \in declared : x[1] = n /\ x[2] = q
    BY <2>5 DEF At
  <2>7. x \in NodePairs
    BY <1>2, <2>4, <2>6 DEF IInv, DeclaredInv
  <2>8. PICK o \in Range(objects) : \E node \in Range(o.nodes) : x = PairOf(node)
    BY <2>7, Zenon DEF NodePairs
  <2>9. PICK node \in Range(o.nodes) : x = PairOf(node)
    BY <2>8
  <2>10. PICK k \in DOMAIN objects : o = objects[k]
    BY Zenon DEF Range
  <2>11. PICK j \in DOMAIN objects[k].nodes : node = objects[k].nodes[j]
    BY <2>10, Zenon DEF Range
  <2>12. node.network = n /\ node.poll = q
    BY <2>6, <2>9, Zenon DEF PairOf
  <2>13. objects[k].topic \in ObjectsIn(n, p)
    BY <2>3, <2>5, <2>11, <2>12, NodeFound, Zenon
  <2> QED BY <1>2, <2>1, <2>13, Zenon DEF IInv, DoneInv
<1>3. IInv => RegistersServed
  BY <1>1, <1>2, Zenon DEF RegistersServed
<1> QED BY <1>3, ConfigurationInvariance, PTL
=============================================================================
