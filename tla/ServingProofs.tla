--------------------------- MODULE ServingProofs ---------------------------
(***************************************************************************)
(* Sessions add nothing to what the reflections do to the store, so that   *)
(* all that ReflectionProofs shows holds of them; under the lock what a    *)
(* session has read stays in the store for as long as the session lasts;   *)
(* a prompt shows the best of what was read, whatever the list; and what a *)
(* reflection credits in the end is what the session was given.            *)
(***************************************************************************)
EXTENDS Serving, ReflectionProofs, FiniteSetTheorems

\* What the argument needs of the sessions' variables.
SessionTypes ==
    /\ stage \in [Proc -> {"rest", "served", "learning"}]
    /\ seen \in [Proc -> Seq(Bullet)]

\* What a session has read is still in the store: every bullet at its place,
\* under its id, with all the votes it had.
SeenStays == \A p \in Proc : stage[p] # "rest" => Evolves(seen[p], disk)

\* What stays twice stays.
LEMMA EvolvesTransitive ==
    ASSUME NEW r \in Seq(Bullet), NEW s \in Seq(Bullet), NEW t \in Seq(Bullet),
           Evolves(r, s), Evolves(s, t)
    PROVE  Evolves(r, t)
<1>1. Len(r) <= Len(s) /\ Len(s) <= Len(t) /\ Len(r) <= Len(t)
  BY DEF Evolves
<1>2. ASSUME NEW i \in DOMAIN r PROVE Later(r[i], t[i])
  <2>1. i \in DOMAIN s /\ i \in DOMAIN t
    BY <1>1
  <2>2. r[i] \in Bullet /\ s[i] \in Bullet /\ t[i] \in Bullet
    BY <2>1
  <2>3. Later(r[i], s[i]) /\ Later(s[i], t[i])
    BY <2>1 DEF Evolves
  <2>4. QED
    BY <2>2, <2>3, LaterTransitive
<1>3. QED
  BY <1>1, <1>2 DEF Evolves

\* A session's step is a step of a reflection, or leaves the store alone.
LEMMA SessionStep == [ServingNext]_servingVars => [Next]_vars
<1> SUFFICES ASSUME [ServingNext]_servingVars PROVE [Next]_vars
  OBVIOUS
<1>1. ASSUME NEW p \in Proc, Serve(p) \/ Abandon(p) PROVE UNCHANGED vars
  BY <1>1 DEF Serve, Abandon
<1>2. ASSUME NEW p \in Proc, Learn(p) PROVE Next
  BY <1>2 DEF Learn, Next
<1>3. ASSUME NEW p \in Proc, Reflect(p) PROVE Next
  BY <1>3 DEF Reflect, Next
<1>4. ASSUME NEW p \in Proc, Killed(p) PROVE Next
  BY <1>4 DEF Killed, Next
<1>5. CASE AllKilled
  BY <1>5 DEF AllKilled, Next
<1>6. CASE UNCHANGED servingVars
  BY <1>6 DEF servingVars
<1>7. QED
  BY <1>1, <1>2, <1>3, <1>4, <1>5, <1>6 DEF ServingNext

\* A deployment that serves and learns does to the store what its reflections
\* do: the sessions' reads take no part in it.
THEOREM ServingReflects == ServingSpec => Spec
<1>1. ServingInit => Init
  BY DEF ServingInit
<1>2. QED
  BY <1>1, SessionStep, PTL DEF ServingSpec, Spec

\* Type correctness of the reflections that sessions begin.
THEOREM ServingTypeCorrect == ServingSpec => []TypeOK
<1>1. QED
  BY ServingReflects, TypeCorrect, PTL

\* No session and no hook ever reads a half-written store.
THEOREM ReadersNeverTorn == ServingSpec => []NeverTorn
<1>1. QED
  BY ServingReflects, AtomicReplacement, PTL

\* The mem-<id> names of a catalog stand for one lesson each.
THEOREM ServedIdsUnique == ServingSpec => []UniqueIds
<1>1. QED
  BY ServingReflects, IdsStayUnique, PTL

\* No reader is shown as active a lesson whose votes say it misleads.
THEOREM ServedStatusSound == ServingSpec => []SoundStore
<1>1. QED
  BY ServingReflects, StatusAgreesWithVotes, PTL

\* Under the lock no session's learning takes back another's.
THEOREM ServingLosesNothing ==
    ASSUME Locked
    PROVE  ServingSpec => NoLostUpdate
<1>1. QED
  BY ServingReflects, LockedLosesNothing, PTL

-----------------------------------------------------------------------------

\* A session that reads the store reads a complete one.
LEMMA ServeReads ==
    ASSUME IInv, SessionTypes, NEW p \in Proc, Serve(p)
    PROVE  /\ SessionTypes'
           /\ disk \in Seq(Bullet) /\ disk' = disk
           /\ seen' = [seen EXCEPT ![p] = disk]
           /\ stage' = [stage EXCEPT ![p] = "served"]
<1>1. disk \in Seq(Bullet)
  BY DEF IInv, GoodStore
<1>2. disk # Torn
  BY <1>1, ReflectionAssumption
<1>3. Loaded = disk
  BY <1>2 DEF Loaded
<1>4. /\ stage' = [stage EXCEPT ![p] = "served"]
      /\ seen' = [seen EXCEPT ![p] = disk]
      /\ disk' = disk
  BY <1>3 DEF Serve, vars
<1>5. QED
  BY <1>1, <1>4 DEF SessionTypes

\* Every other step leaves what a session has read alone, or ends it.
LEMMA ReadStays ==
    ASSUME SessionTypes, ServingNext \/ UNCHANGED servingVars,
           \A p \in Proc : ~Serve(p)
    PROVE  /\ SessionTypes'
           /\ \A q \in Proc : stage'[q] # "rest" =>
                 seen'[q] = seen[q] /\ stage[q] # "rest"
<1>1. ASSUME NEW p \in Proc, EndSession(p)
      PROVE  /\ SessionTypes'
             /\ \A q \in Proc : stage'[q] # "rest" =>
                   seen'[q] = seen[q] /\ stage[q] # "rest"
  BY <1>1 DEF EndSession, SessionTypes
<1>2. ASSUME NEW p \in Proc, Learn(p)
      PROVE  /\ SessionTypes'
             /\ \A q \in Proc : stage'[q] # "rest" =>
                   seen'[q] = seen[q] /\ stage[q] # "rest"
  <2>1. /\ stage[p] = "served"
        /\ stage' = [stage EXCEPT ![p] = "learning"]
        /\ seen' = seen
    BY <1>2 DEF Learn
  <2>2. QED
    BY <2>1 DEF SessionTypes
<1>3. CASE UNCHANGED sessionVars
  BY <1>3 DEF sessionVars, SessionTypes
<1>4. CASE AllKilled
  BY <1>4 DEF AllKilled, SessionTypes
<1>5. ASSUME NEW p \in Proc, Abandon(p) \/ Reflect(p) \/ Killed(p)
      PROVE  EndSession(p) \/ UNCHANGED sessionVars
  BY <1>5 DEF Abandon, Reflect, Killed
<1>6. CASE UNCHANGED servingVars
  BY <1>6, <1>3 DEF servingVars
<1>7. QED
  BY <1>1, <1>2, <1>3, <1>4, <1>5, <1>6 DEF ServingNext

\* The step of a locked store keeps every bullet.
LEMMA StepKeeps ==
    ASSUME IInv, [Next]_vars, Locked
    PROVE  Evolves(disk, disk')
<1>1. ASSUME NEW p \in Proc, ReplaceStore(p)
      PROVE  Evolves(disk, disk')
  BY <1>1, Publishes
<1>2. disk \in Seq(Bullet)
  BY DEF IInv, GoodStore
<1>3. Evolves(disk, disk)
  BY <1>2, EvolvesReflexive
<1>4. CASE \A p \in Proc : ~ReplaceStore(p)
  BY <1>3, <1>4, OnlyReplaceWrites
<1>5. QED
  BY <1>1, <1>4

LEMMA SeenStep ==
    ASSUME Locked, IInv, IInv', SessionTypes, SeenStays, [ServingNext]_servingVars
    PROVE  SessionTypes' /\ SeenStays'
<1>1. disk \in Seq(Bullet) /\ disk' \in Seq(Bullet) /\ Evolves(disk, disk')
  BY StepKeeps, SessionStep DEF IInv, GoodStore
<1>2. ASSUME NEW p \in Proc, Serve(p)
      PROVE  SessionTypes' /\ SeenStays'
  <2>1. /\ SessionTypes' /\ disk' = disk
        /\ seen' = [seen EXCEPT ![p] = disk]
        /\ stage' = [stage EXCEPT ![p] = "served"]
    BY <1>2, ServeReads
  <2>2. Evolves(disk, disk)
    BY <1>1, EvolvesReflexive
  <2>3. QED
    BY <2>1, <2>2 DEF SeenStays, SessionTypes
<1>3. CASE \A p \in Proc : ~Serve(p)
  <2>1. /\ SessionTypes'
        /\ \A q \in Proc : stage'[q] # "rest" =>
              seen'[q] = seen[q] /\ stage[q] # "rest"
    BY <1>3, ReadStays
  <2>2. ASSUME NEW q \in Proc, stage'[q] # "rest"
        PROVE  Evolves(seen'[q], disk')
    <3>1. seen'[q] = seen[q] /\ Evolves(seen[q], disk) /\ seen[q] \in Seq(Bullet)
      BY <2>1, <2>2 DEF SeenStays, SessionTypes
    <3>2. QED
      BY <3>1, <1>1, EvolvesTransitive
  <2>3. QED
    BY <2>1, <2>2 DEF SeenStays
<1>4. QED
  BY <1>2, <1>3

\* Under the lock every lesson a session has read stays in the store as long
\* as the session lasts, under the same id and with all its votes: what it
\* credits in the end is what it was shown.
THEOREM LessonsStay ==
    ASSUME Locked
    PROVE  ServingSpec => []SeenStays
<1>1. ServingInit => SessionTypes /\ SeenStays
  BY DEF ServingInit, SessionTypes, SeenStays
<1>2. ServingSpec => []IInv
  BY ServingReflects, Invariant, PTL
<1>3. /\ SessionTypes /\ SeenStays /\ IInv /\ IInv' /\ [ServingNext]_servingVars
      => SessionTypes' /\ SeenStays'
  BY SeenStep
<1>4. QED
  BY <1>1, <1>2, <1>3, PTL DEF ServingSpec

-----------------------------------------------------------------------------
\* What the selection computes, for every list.

\* Every pair of elements of the list, in its order, is in R.
Ordered(s, R) == \A m, n \in DOMAIN s : m < n => <<s[m], s[n]>> \in R

Elements(s) == {s[i] : i \in DOMAIN s}

\* Two ordered lists, the one in front of the other.
LEMMA OrderedConcat ==
    ASSUME NEW D, NEW s \in Seq(D), NEW t \in Seq(D), NEW R,
           Ordered(s, R), Ordered(t, R),
           \A x \in Elements(s), y \in Elements(t) : <<x, y>> \in R
    PROVE  /\ s \o t \in Seq(D)
           /\ Elements(s \o t) = Elements(s) \cup Elements(t)
           /\ Ordered(s \o t, R)
<1> DEFINE u == s \o t
<1>1. /\ u \in Seq(D) /\ Len(u) = Len(s) + Len(t)
      /\ Len(s) \in Nat /\ Len(t) \in Nat
      /\ \A i \in 1 .. Len(s) : u[i] = s[i]
      /\ \A i \in 1 .. Len(t) : u[Len(s) + i] = t[i]
  OBVIOUS
<1>2. \A i \in DOMAIN u : \/ i \in DOMAIN s /\ u[i] = s[i]
                          \/ /\ i > Len(s) /\ i - Len(s) \in DOMAIN t
                             /\ u[i] = t[i - Len(s)]
  <2> SUFFICES ASSUME NEW i \in 1 .. Len(s) + Len(t), i \notin 1 .. Len(s)
               PROVE  i > Len(s) /\ i - Len(s) \in 1 .. Len(t) /\ u[i] = t[i - Len(s)]
    BY <1>1
  <2>1. i - Len(s) \in 1 .. Len(t) /\ i = Len(s) + (i - Len(s))
    BY <1>1
  <2>2. QED
    BY <1>1, <2>1
<1>3. Elements(u) = Elements(s) \cup Elements(t)
  <2>1. Elements(u) \subseteq Elements(s) \cup Elements(t)
    BY <1>2 DEF Elements
  <2>2. ASSUME NEW i \in DOMAIN s PROVE s[i] \in Elements(u)
    BY <1>1 DEF Elements
  <2>3. ASSUME NEW i \in DOMAIN t PROVE t[i] \in Elements(u)
    <3>1. Len(s) + i \in DOMAIN u /\ u[Len(s) + i] = t[i]
      BY <1>1
    <3>2. QED
      BY <3>1 DEF Elements
  <2> HIDE DEF u
  <2>4. QED
    BY <2>1, <2>2, <2>3 DEF Elements
<1>4. ASSUME NEW m \in DOMAIN u, NEW n \in DOMAIN u, m < n
      PROVE  <<u[m], u[n]>> \in R
  <2> HIDE DEF u
  <2>0. DOMAIN s = 1 .. Len(s) /\ DOMAIN t = 1 .. Len(t) /\ m \in Nat /\ n \in Nat
    BY <1>1
  <2>1. CASE m \in DOMAIN s /\ u[m] = s[m] /\ n \in DOMAIN s /\ u[n] = s[n]
    BY <2>1, <1>4 DEF Ordered
  <2>2. CASE /\ m \in DOMAIN s /\ u[m] = s[m]
             /\ n - Len(s) \in DOMAIN t /\ u[n] = t[n - Len(s)]
    BY <2>2 DEF Elements
  <2>3. CASE /\ m - Len(s) \in DOMAIN t /\ u[m] = t[m - Len(s)]
             /\ n - Len(s) \in DOMAIN t /\ u[n] = t[n - Len(s)]
    <3>1. m - Len(s) < n - Len(s)
      BY <2>0, <1>1, <1>4
    <3>2. QED
      BY <2>3, <3>1 DEF Ordered
  <2>4. ~ (m > Len(s) /\ n \in DOMAIN s)
    BY <2>0, <1>1, <1>4
  <2>5. QED
    BY <1>2, <2>1, <2>2, <2>3, <2>4
<1>5. QED
  BY <1>1, <1>3, <1>4 DEF Ordered

\* What Append adds.
LEMMA OrderedAppend ==
    ASSUME NEW D, NEW s \in Seq(D), NEW x \in D, NEW R,
           Ordered(s, R), \A y \in Elements(s) : <<y, x>> \in R
    PROVE  /\ Append(s, x) \in Seq(D)
           /\ Elements(Append(s, x)) = Elements(s) \cup {x}
           /\ Ordered(Append(s, x), R)
<1> DEFINE u == Append(s, x)
<1>1. /\ u \in Seq(D) /\ Len(u) = Len(s) + 1 /\ Len(s) \in Nat
      /\ \A i \in 1 .. Len(s) : u[i] = s[i]
      /\ u[Len(s) + 1] = x
      /\ DOMAIN u = DOMAIN s \cup {Len(s) + 1} /\ DOMAIN s = 1 .. Len(s)
  OBVIOUS
<1> HIDE DEF u
<1>2. Elements(u) = Elements(s) \cup {x}
  BY <1>1 DEF Elements
<1>3. ASSUME NEW m \in DOMAIN u, NEW n \in DOMAIN u, m < n
      PROVE  <<u[m], u[n]>> \in R
  <2>1. m \in DOMAIN s /\ u[m] = s[m]
    BY <1>1, <1>3
  <2>2. CASE n \in DOMAIN s
    BY <1>1, <1>3, <2>1, <2>2 DEF Ordered
  <2>3. CASE n = Len(s) + 1
    BY <1>1, <2>1, <2>3 DEF Elements
  <2>4. QED
    BY <1>1, <2>2, <2>3
<1>4. QED
  BY <1>1, <1>2, <1>3 DEF Ordered, u

\* The filter's loop.
LEMMA KeptTurns ==
    ASSUME NEW D, NEW list \in Seq(D), NEW good
    PROVE  /\ KeptUpTo(list, good)[0] = <<>>
           /\ \A i \in 1 .. Len(list) :
                KeptUpTo(list, good)[i] =
                  IF list[i] \in good THEN Append(KeptUpTo(list, good)[i - 1], list[i])
                                      ELSE KeptUpTo(list, good)[i - 1]
<1> DEFINE n == Len(list)
           V == Seq(D)
           Turn(v, i) == IF list[i] \in good THEN Append(v, list[i]) ELSE v
           step == [i \in 1 .. n |-> [v \in V |-> Turn(v, i)]]
           IsLoop(f) == f = [i \in 0 .. n |-> IF i = 0 THEN <<>> ELSE Turn(f[i - 1], i)]
           g == KeptUpTo(list, good)
<1>1. <<>> \in V /\ n \in Nat
  OBVIOUS
<1>2. step \in Turns(n, V)
  BY DEF Turns
<1>3. g = CHOOSE f : IsLoop(f)
  BY DEF KeptUpTo
<1> HIDE DEF V, Turn
<1>4. \E f : IsLoop(f)
  <2>1. PICK f : IsRun(f, V, <<>>, n, step)
    <3> HIDE DEF step, n
    <3>1. QED
      BY <1>1, <1>2, RecursionExists
  <2>2. ASSUME NEW i \in 1 .. n PROVE f[i] = Turn(f[i - 1], i)
    <3>1. f[i - 1] \in V
      BY <1>1, <2>1 DEF IsRun
    <3>2. f[i] = step[i][f[i - 1]]
      BY <2>1 DEF IsRun
    <3>3. QED
      BY <3>1, <3>2
  <2> HIDE DEF step
  <2>3. IsLoop(f)
    BY <1>1, <2>1, <2>2 DEF IsRun
  <2>4. QED
    BY <2>3
<1>5. IsLoop(g)
  <2> HIDE DEF IsLoop, g
  <2>1. QED
    BY <1>3, <1>4
<1> HIDE DEF g
<1>6. g[0] = <<>> /\ \A i \in 1 .. n : g[i] = Turn(g[i - 1], i)
  BY <1>1, <1>5
<1>7. QED
  BY <1>6 DEF g, Turn

\* A filter keeps what is good, and the order.
LEMMA KeptKeeps ==
    ASSUME NEW D, NEW list \in Seq(D), NEW good, NEW R, Ordered(list, R)
    PROVE  /\ Kept(list, good) \in Seq(D)
           /\ Elements(Kept(list, good)) = Elements(list) \cap good
           /\ Ordered(Kept(list, good), R)
<1> DEFINE n == Len(list)
           g == KeptUpTo(list, good)
           Upto(i) == {list[j] : j \in 1 .. i} \cap good
           Good(i) == /\ g[i] \in Seq(D)
                      /\ Elements(g[i]) = Upto(i)
                      /\ Ordered(g[i], R)
           S == {i \in 0 .. n : Good(i)}
<1>1. /\ g[0] = <<>> /\ n \in Nat
      /\ \A i \in 1 .. n : g[i] = IF list[i] \in good THEN Append(g[i - 1], list[i])
                                                      ELSE g[i - 1]
  BY KeptTurns
<1> HIDE DEF g
<1>2. 0 \in S
  <2>1. DOMAIN g[0] = {} /\ g[0] \in Seq(D) /\ 1 .. 0 = {}
    BY <1>1
  <2>2. Elements(g[0]) = {} /\ Upto(0) = {}
    BY <2>1 DEF Elements
  <2>3. Ordered(g[0], R)
    BY <2>1 DEF Ordered
  <2>4. Good(0)
    BY <2>1, <2>2, <2>3
  <2> HIDE DEF Good
  <2>5. QED
    BY <1>1, <2>4
<1>3. ASSUME NEW i \in 1 .. n, i - 1 \in S PROVE i \in S
  <2>1. /\ g[i - 1] \in Seq(D) /\ Elements(g[i - 1]) = Upto(i - 1)
        /\ Ordered(g[i - 1], R) /\ list[i] \in D
    BY <1>3
  <2>2. 1 .. i = 1 .. (i - 1) \cup {i}
    BY <1>1
  <2>3. CASE list[i] \in good
    <3>1. g[i] = Append(g[i - 1], list[i])
      BY <1>1, <2>3
    <3>2. \A y \in Elements(g[i - 1]) : <<y, list[i]>> \in R
      <4> SUFFICES ASSUME NEW j \in 1 .. (i - 1) PROVE <<list[j], list[i]>> \in R
        BY <2>1
      <4>1. j \in DOMAIN list /\ i \in DOMAIN list /\ j < i
        BY <1>1
      <4>2. QED
        BY <4>1 DEF Ordered
    <3>3. /\ g[i] \in Seq(D) /\ Ordered(g[i], R)
          /\ Elements(g[i]) = Elements(g[i - 1]) \cup {list[i]}
      BY <2>1, <3>1, <3>2, OrderedAppend
    <3>4. Upto(i) = Upto(i - 1) \cup {list[i]}
      BY <2>2, <2>3
    <3>5. QED
      BY <2>1, <3>3, <3>4
  <2>4. CASE list[i] \notin good
    <3>1. g[i] = g[i - 1] /\ Upto(i) = Upto(i - 1)
      BY <1>1, <2>2, <2>4
    <3>2. QED
      BY <2>1, <3>1
  <2>5. QED
    BY <2>3, <2>4
<1> HIDE DEF S
<1>4. n \in S
  BY <1>1, <1>2, <1>3, UpTo
<1>5. Elements(g[n]) = Upto(n) /\ g[n] \in Seq(D) /\ Ordered(g[n], R)
  BY <1>4 DEF S
<1>6. Upto(n) = Elements(list) \cap good
  BY DEF Elements
<1>7. QED
  BY <1>5, <1>6 DEF Kept, g

\* Older bullets first, as in the file.
ByAge == {pair \in Bullet \X Bullet : pair[1].id < pair[2].id}

\* The larger key first, of equals the older bullet.
ByKey(key) ==
    {pair \in Bullet \X Bullet :
       \/ key[pair[1]] > key[pair[2]]
       \/ key[pair[1]] = key[pair[2]] /\ pair[1].id < pair[2].id}

\* Inserting makes a list of bullets, in whatever order.
LEMMA InsertedIsList ==
    ASSUME NEW r \in Seq(Bullet), NEW b \in Bullet, NEW key
    PROVE  Inserted(r, b, key) \in Seq(Bullet)
<1>1. Ordered(r, Bullet \X Bullet)
  BY DEF Ordered
<1>2. /\ Kept(r, {x \in Bullet : key[x] >= key[b]}) \in Seq(Bullet)
      /\ Kept(r, {x \in Bullet : key[x] < key[b]}) \in Seq(Bullet)
  BY <1>1, KeptKeeps
<1>3. QED
  BY <1>2 DEF Inserted

\* The newest bullet goes behind those of its key.
LEMMA InsertedKeeps ==
    ASSUME NEW key \in [Bullet -> Int], NEW r \in Seq(Bullet), Ordered(r, ByKey(key)),
           NEW b \in Bullet, \A x \in Elements(r) : x.id < b.id
    PROVE  /\ Elements(Inserted(r, b, key)) = Elements(r) \cup {b}
           /\ Ordered(Inserted(r, b, key), ByKey(key))
<1> DEFINE Above == {x \in Bullet : key[x] >= key[b]}
           Below == {x \in Bullet : key[x] < key[b]}
           s == Kept(r, Above)
           t == Kept(r, Below)
           R == ByKey(key)
<1>1. /\ s \in Seq(Bullet) /\ Elements(s) = Elements(r) \cap Above /\ Ordered(s, R)
      /\ t \in Seq(Bullet) /\ Elements(t) = Elements(r) \cap Below /\ Ordered(t, R)
  <2> HIDE DEF Above, Below
  <2>1. QED
    BY KeptKeeps
<1>2. <<b>> \in Seq(Bullet) /\ Elements(<<b>>) = {b} /\ Ordered(<<b>>, R)
  BY DEF Elements, Ordered
<1>3. Elements(r) \subseteq Bullet
  BY DEF Elements
<1>4. Elements(r) \subseteq Above \cup Below
  BY <1>3
<1>5. \A x \in Elements(s) : <<x, b>> \in R
  <2> SUFFICES ASSUME NEW x \in Elements(r) \cap Above PROVE <<x, b>> \in R
    BY <1>1
  <2>1. x \in Bullet /\ key[x] >= key[b] /\ x.id < b.id /\ key[x] \in Int /\ key[b] \in Int
    BY <1>3
  <2>2. QED
    BY <2>1 DEF ByKey
<1>6. \A x \in Elements(s), y \in Elements(t) : <<x, y>> \in R
  <2> SUFFICES ASSUME NEW x \in Elements(r) \cap Above, NEW y \in Elements(r) \cap Below
               PROVE  <<x, y>> \in R
    BY <1>1
  <2>1. /\ x \in Bullet /\ key[x] >= key[b] /\ y \in Bullet /\ key[y] < key[b]
        /\ key[x] \in Int /\ key[y] \in Int /\ key[b] \in Int
    BY <1>3
  <2>2. QED
    BY <2>1 DEF ByKey
<1>7. \A y \in Elements(t) : <<b, y>> \in R
  <2> SUFFICES ASSUME NEW y \in Elements(r) \cap Below PROVE <<b, y>> \in R
    BY <1>1
  <2>1. y \in Bullet /\ key[y] < key[b] /\ key[y] \in Int /\ key[b] \in Int
    BY <1>3
  <2>2. QED
    BY <2>1 DEF ByKey
<1> DEFINE o == <<b>>
<1> HIDE DEF s, t, R, o
<1>8. /\ s \o o \in Seq(Bullet) /\ Elements(s \o o) = Elements(s) \cup {b}
      /\ Ordered(s \o o, R)
  <2>1. /\ s \in Seq(Bullet) /\ o \in Seq(Bullet) /\ Ordered(s, R) /\ Ordered(o, R)
        /\ Elements(o) = {b}
    BY <1>1, <1>2 DEF o
  <2>2. \A x \in Elements(s), y \in Elements(o) : <<x, y>> \in R
    BY <1>5, <2>1
  <2>3. /\ s \o o \in Seq(Bullet) /\ Elements(s \o o) = Elements(s) \cup Elements(o)
        /\ Ordered(s \o o, R)
    BY <2>1, <2>2, OrderedConcat
  <2>4. QED
    BY <2>1, <2>3
<1> DEFINE u == s \o o
<1>9. \A x \in Elements(u), y \in Elements(t) : <<x, y>> \in R
  BY <1>6, <1>7, <1>8
<1>10. Elements(u \o t) = Elements(u) \cup Elements(t) /\ Ordered(u \o t, R)
  <2>1. u \in Seq(Bullet) /\ Ordered(u, R) /\ t \in Seq(Bullet) /\ Ordered(t, R)
    BY <1>1, <1>8
  <2> HIDE DEF u
  <2>2. QED
    BY <2>1, <1>9, OrderedConcat
<1>11. Inserted(r, b, key) = u \o t
  BY DEF Inserted, s, t, o
<1>12. Elements(u) \cup Elements(t) = Elements(r) \cup {b}
  <2>1. Elements(u) = Elements(s) \cup {b}
    BY <1>8
  <2> HIDE DEF u, Above, Below
  <2>2. QED
    BY <2>1, <1>1, <1>4
<1>13. QED
  BY <1>10, <1>11, <1>12 DEF R

\* The sort's loop.
LEMMA RankedTurns ==
    ASSUME NEW list \in Seq(Bullet), NEW key
    PROVE  /\ RankedUpTo(list, key)[0] = <<>>
           /\ \A i \in 1 .. Len(list) :
                RankedUpTo(list, key)[i] = Inserted(RankedUpTo(list, key)[i - 1], list[i], key)
<1> DEFINE n == Len(list)
           V == Seq(Bullet)
           step == [i \in 1 .. n |-> [v \in V |-> Inserted(v, list[i], key)]]
           IsLoop(f) == f = [i \in 0 .. n |-> IF i = 0 THEN <<>>
                                              ELSE Inserted(f[i - 1], list[i], key)]
           g == RankedUpTo(list, key)
<1>1. <<>> \in V /\ n \in Nat
  OBVIOUS
<1>2. step \in Turns(n, V)
  BY InsertedIsList DEF Turns
<1>3. g = CHOOSE f : IsLoop(f)
  BY DEF RankedUpTo
<1> HIDE DEF V
<1>4. \E f : IsLoop(f)
  <2>1. PICK f : IsRun(f, V, <<>>, n, step)
    <3> HIDE DEF step, n
    <3>1. QED
      BY <1>1, <1>2, RecursionExists
  <2>2. ASSUME NEW i \in 1 .. n PROVE f[i] = Inserted(f[i - 1], list[i], key)
    <3>1. f[i - 1] \in V
      BY <1>1, <2>1 DEF IsRun
    <3>2. f[i] = step[i][f[i - 1]]
      BY <2>1 DEF IsRun
    <3>3. QED
      BY <3>1, <3>2
  <2> HIDE DEF step
  <2>3. IsLoop(f)
    BY <1>1, <2>1, <2>2 DEF IsRun
  <2>4. QED
    BY <2>3
<1>5. IsLoop(g)
  <2> HIDE DEF IsLoop, g
  <2>1. QED
    BY <1>3, <1>4
<1> HIDE DEF g
<1>6. g[0] = <<>> /\ \A i \in 1 .. n : g[i] = Inserted(g[i - 1], list[i], key)
  BY <1>1, <1>5
<1>7. QED
  BY <1>6 DEF g

\* Sorting loses nothing, and the list is then in the order of the key.
LEMMA RankedKeeps ==
    ASSUME NEW list \in Seq(Bullet), NEW key \in [Bullet -> Int], Ordered(list, ByAge)
    PROVE  /\ Ranked(list, key) \in Seq(Bullet)
           /\ Elements(Ranked(list, key)) = Elements(list)
           /\ Ordered(Ranked(list, key), ByKey(key))
<1> DEFINE n == Len(list)
           g == RankedUpTo(list, key)
           Upto(i) == {list[j] : j \in 1 .. i}
           Good(i) == /\ g[i] \in Seq(Bullet)
                      /\ Elements(g[i]) = Upto(i)
                      /\ Ordered(g[i], ByKey(key))
           S == {i \in 0 .. n : Good(i)}
<1>1. /\ g[0] = <<>> /\ n \in Nat
      /\ \A i \in 1 .. n : g[i] = Inserted(g[i - 1], list[i], key)
  BY RankedTurns
<1> HIDE DEF g
<1>2. 0 \in S
  <2>1. DOMAIN g[0] = {} /\ g[0] \in Seq(Bullet) /\ 1 .. 0 = {}
    BY <1>1
  <2>2. Elements(g[0]) = {} /\ Upto(0) = {}
    BY <2>1 DEF Elements
  <2>3. Ordered(g[0], ByKey(key))
    BY <2>1 DEF Ordered
  <2>4. Good(0)
    BY <2>1, <2>2, <2>3
  <2> HIDE DEF Good
  <2>5. QED
    BY <1>1, <2>4
<1>3. ASSUME NEW i \in 1 .. n, i - 1 \in S PROVE i \in S
  <2>1. Good(i - 1) /\ list[i] \in Bullet
    BY <1>3
  <2>2. 1 .. i = 1 .. (i - 1) \cup {i}
    BY <1>1
  <2>3. Upto(i) = Upto(i - 1) \cup {list[i]}
    BY <2>2
  <2>4. \A x \in Elements(g[i - 1]) : x.id < list[i].id
    <3> SUFFICES ASSUME NEW j \in 1 .. (i - 1) PROVE list[j].id < list[i].id
      BY <2>1
    <3>1. j \in DOMAIN list /\ i \in DOMAIN list /\ j < i
      BY <1>1
    <3>2. <<list[j], list[i]>> \in ByAge
      BY <3>1 DEF Ordered
    <3>3. QED
      BY <3>2 DEF ByAge
  <2>5. Good(i)
    <3>1. /\ g[i] = Inserted(g[i - 1], list[i], key)
          /\ g[i - 1] \in Seq(Bullet) /\ Ordered(g[i - 1], ByKey(key))
      BY <1>1, <2>1
    <3>2. /\ g[i] \in Seq(Bullet)
          /\ Elements(g[i]) = Elements(g[i - 1]) \cup {list[i]}
          /\ Ordered(g[i], ByKey(key))
      <4> DEFINE r == g[i - 1]
                 b == list[i]
                 h == g[i]
      <4>1. /\ r \in Seq(Bullet) /\ b \in Bullet /\ Ordered(r, ByKey(key))
            /\ \A x \in Elements(r) : x.id < b.id
            /\ h = Inserted(r, b, key)
        BY <2>1, <2>4, <3>1
      <4> HIDE DEF r, b, h
      <4>2. Inserted(r, b, key) \in Seq(Bullet)
        BY <4>1, InsertedIsList
      <4>3. /\ Elements(Inserted(r, b, key)) = Elements(r) \cup {b}
            /\ Ordered(Inserted(r, b, key), ByKey(key))
        BY <4>1, InsertedKeeps
      <4>4. /\ h \in Seq(Bullet) /\ Elements(h) = Elements(r) \cup {b}
            /\ Ordered(h, ByKey(key))
        BY <4>1, <4>2, <4>3
      <4>5. QED
        BY <4>4 DEF r, b, h
    <3>3. Elements(g[i - 1]) = Upto(i - 1)
      BY <2>1
    <3> HIDE DEF Upto
    <3>4. Elements(g[i]) = Upto(i)
      BY <2>3, <3>2, <3>3
    <3>5. QED
      BY <3>2, <3>4
  <2>6. QED
    BY <2>5
<1> HIDE DEF S
<1>4. n \in S
  <2>1. n \in Nat /\ 0 \in S /\ \A i \in 1 .. n : i - 1 \in S => i \in S
    BY <1>1, <1>2, <1>3
  <2> HIDE DEF n
  <2>2. 0 .. n \subseteq S
    BY <2>1, UpTo
  <2>3. QED
    BY <2>1, <2>2
<1>5. Good(n)
  <2> HIDE DEF Good
  <2>1. QED
    BY <1>4 DEF S
<1>6. Upto(n) = Elements(list)
  BY DEF Elements
<1>7. g[n] = Ranked(list, key)
  BY DEF Ranked, g
<1>8. QED
  <2> HIDE DEF Upto
  <2>1. QED
    BY <1>5, <1>6, <1>7

\* The front of a list, cut where the list ends.
LEMMA FirstIs ==
    ASSUME NEW D, NEW s \in Seq(D), NEW k \in Nat
    PROVE  /\ First(k, s) \in Seq(D)
           /\ Len(First(k, s)) = IF Len(s) < k THEN Len(s) ELSE k
           /\ \A i \in DOMAIN First(k, s) : i \in DOMAIN s /\ First(k, s)[i] = s[i]
           /\ Elements(First(k, s)) \subseteq Elements(s)
<1> DEFINE m == IF Len(s) < k THEN Len(s) ELSE k
           u == SubSeq(s, 1, m)
<1>1. m \in Nat /\ m <= Len(s) /\ Len(s) \in Nat
  OBVIOUS
<1>2. \A i \in 1 .. m : i \in DOMAIN s /\ s[i] \in D
  BY <1>1
<1> HIDE DEF m
<1>3. u \in Seq(D) /\ Len(u) = m /\ \A i \in 1 .. m : u[i] = s[i]
  BY <1>1, <1>2
<1> HIDE DEF u
<1>4. \A i \in DOMAIN u : i \in DOMAIN s /\ u[i] = s[i]
  BY <1>1, <1>2, <1>3
<1>5. First(k, s) = u
  BY DEF First, m, u
<1>6. QED
  BY <1>3, <1>4, <1>5 DEF m, Elements

\* The ids of a list, each at its place.
LEMMA IdsIs ==
    ASSUME NEW s \in Seq(Bullet)
    PROVE  /\ Ids(s) \in Seq(Nat)
           /\ Len(Ids(s)) = Len(s)
           /\ \A i \in DOMAIN Ids(s) : i \in DOMAIN s /\ Ids(s)[i] = s[i].id
<1>1. DOMAIN s = 1 .. Len(s) /\ Len(s) \in Nat /\ \A i \in DOMAIN s : s[i] \in Bullet
  OBVIOUS
<1>2. \A b \in Bullet : b.id \in Nat
  BY DEF Bullet
<1>3. QED
  BY <1>1, <1>2 DEF Ids

\* A score is a number, as a text has finitely many tokens.
LEMMA ScoreIsInt ==
    ASSUME NEW query
    PROVE  ByScore(query) \in [Bullet -> Int]
<1> SUFFICES ASSUME NEW b \in Bullet PROVE Score(b, query) \in Int
  BY DEF ByScore
<1>1. b.content \in Content /\ b.helpful \in Nat /\ b.harmful \in Nat
  BY DEF Bullet
<1>2. Cardinality(Tokens[b.content] \cap query) \in Nat
  BY <1>1, TokensAssumption, FS_Intersection, FS_CardinalityType
<1>3. QED
  BY <1>1, <1>2 DEF Score

\* So is the margin of the votes.
LEMMA NetIsInt == ByNet \in [Bullet -> Int]
<1>1. \A b \in Bullet : b.helpful - b.harmful \in Int
  BY DEF Bullet
<1>2. QED
  BY <1>1 DEF ByNet

\* Ids increase along the file.
LEMMA FileIsByAge ==
    ASSUME NEW list \in Seq(Bullet), IdsIncrease(list)
    PROVE  Ordered(list, ByAge)
BY DEF IdsIncrease, Ordered, ByAge

\* The active bullets of a list.
LEMMA ActiveIs ==
    ASSUME NEW list \in Seq(Bullet), IdsIncrease(list)
    PROVE  /\ Active(list) \in Seq(Bullet)
           /\ Elements(Active(list)) = {b \in Elements(list) : b.status = "active"}
           /\ Ordered(Active(list), ByAge)
<1> DEFINE A == {b \in Bullet : b.status = "active"}
<1>1. Elements(list) \subseteq Bullet
  BY DEF Elements
<1>2. Elements(list) \cap A = {b \in Elements(list) : b.status = "active"}
  BY <1>1
<1>3. Ordered(list, ByAge)
  BY FileIsByAge
<1> HIDE DEF A
<1>4. /\ Kept(list, A) \in Seq(Bullet) /\ Elements(Kept(list, A)) = Elements(list) \cap A
      /\ Ordered(Kept(list, A), ByAge)
  BY <1>3, KeptKeeps
<1>5. QED
  BY <1>2, <1>4 DEF Active, A

\* Those of them that may be shown.
LEMMA RelevantIs ==
    ASSUME NEW list \in Seq(Bullet), IdsIncrease(list), NEW query
    PROVE  /\ Relevant(list, query) \in Seq(Bullet)
           /\ Elements(Relevant(list, query)) =
                {b \in Elements(list) : /\ b.status = "active"
                                        /\ Tokens[b.content] # {}
                                        /\ Score(b, query) > 0}
           /\ Ordered(Relevant(list, query), ByAge)
<1> DEFINE A == {b \in Bullet : Tokens[b.content] # {} /\ Score(b, query) > 0}
           l == Active(list)
<1>1. Elements(list) \subseteq Bullet
  BY DEF Elements
<1>2. /\ l \in Seq(Bullet) /\ Ordered(l, ByAge)
      /\ Elements(l) = {b \in Elements(list) : b.status = "active"}
  BY ActiveIs
<1> HIDE DEF l
<1>3. Elements(l) \cap A = {b \in Elements(list) : /\ b.status = "active"
                                                   /\ Tokens[b.content] # {}
                                                   /\ Score(b, query) > 0}
  BY <1>1, <1>2
<1> HIDE DEF A
<1>4. /\ Kept(l, A) \in Seq(Bullet) /\ Elements(Kept(l, A)) = Elements(l) \cap A
      /\ Ordered(Kept(l, A), ByAge)
  BY <1>2, KeptKeeps
<1>5. QED
  BY <1>3, <1>4 DEF Relevant, A, l

\* A bullet of the file is known by its id, and its place by the bullet.
LEMMA IdTells ==
    ASSUME NEW list \in Seq(Bullet), IdsIncrease(list),
           NEW i \in DOMAIN list, NEW j \in DOMAIN list
    PROVE  /\ list[i].id = list[j].id => i = j
           /\ list[i].id < list[j].id => i < j
<1>1. i \in Nat /\ j \in Nat /\ list[i].id \in Nat /\ list[j].id \in Nat
  <2>1. list[i] \in Bullet /\ list[j] \in Bullet
    OBVIOUS
  <2>2. \A b \in Bullet : b.id \in Nat
    BY DEF Bullet
  <2>3. QED
    BY <2>1, <2>2
<1>2. /\ i < j => list[i].id < list[j].id
      /\ j < i => list[j].id < list[i].id
  BY DEF IdsIncrease
<1>3. QED
  BY <1>1, <1>2

\* What select shows of a list: its best bullets.
EligibleOf(list, query) ==
    {i \in DOMAIN list : /\ list[i].status = "active"
                         /\ Tokens[list[i].content] # {}
                         /\ Score(list[i], query) > 0}

NamedBy(names, list) == {i \in DOMAIN list : \E n \in DOMAIN names : names[n] = list[i].id}

\* select names the TopK best of the list that are eligible, of equals the older,
\* each once.
LEMMA SelectedIsBest ==
    ASSUME NEW list \in Seq(Bullet), IdsIncrease(list), NEW query,
           NEW names, names = Selected(list, query),
           NEW shown, shown = NamedBy(names, list)
    PROVE  /\ names \in Seq(Nat)
           /\ shown \subseteq EligibleOf(list, query)
           /\ Len(names) = Cardinality(shown)
           /\ Len(names) <= TopK
           /\ \A i \in EligibleOf(list, query) \ shown :
                /\ Len(names) = TopK
                /\ \A j \in shown :
                     \/ Score(list[j], query) > Score(list[i], query)
                     \/ Score(list[j], query) = Score(list[i], query) /\ j < i
<1> DEFINE key == ByScore(query)
           relevant == Relevant(list, query)
           best == Ranked(relevant, key)
           front == First(TopK, best)
           m == Len(names)
           Place(n) == CHOOSE i \in DOMAIN list : list[i] = best[n]
<1>1. /\ relevant \in Seq(Bullet) /\ Ordered(relevant, ByAge)
      /\ Elements(relevant) = {b \in Elements(list) : /\ b.status = "active"
                                                      /\ Tokens[b.content] # {}
                                                      /\ Score(b, query) > 0}
  BY RelevantIs
<1>2. key \in [Bullet -> Int] /\ \A b \in Bullet : key[b] = Score(b, query)
  BY ScoreIsInt DEF ByScore
<1>3. names = Ids(front)
  BY DEF Selected
<1> HIDE DEF relevant, key
<1>4. /\ best \in Seq(Bullet) /\ Ordered(best, ByKey(key))
      /\ Elements(best) = Elements(relevant)
  BY <1>1, <1>2, RankedKeeps
<1> HIDE DEF best
<1>5. TopK \in Nat /\ DOMAIN best = 1 .. Len(best) /\ Len(best) \in Nat
  BY <1>4, ServingAssumption
<1>6. /\ front \in Seq(Bullet)
      /\ Len(front) = IF Len(best) < TopK THEN Len(best) ELSE TopK
      /\ \A i \in DOMAIN front : front[i] = best[i]
  BY <1>4, <1>5, FirstIs
<1> HIDE DEF front
<1>7. /\ names \in Seq(Nat) /\ Len(names) = Len(front)
      /\ \A i \in DOMAIN names : i \in DOMAIN front /\ names[i] = front[i].id
  BY <1>3, <1>6, IdsIs
<1>8. /\ m \in Nat /\ DOMAIN names = 1 .. m /\ m <= TopK /\ m <= Len(best)
      /\ \A n \in 1 .. m : n \in DOMAIN best /\ names[n] = best[n].id
      /\ m < Len(best) => m = TopK
  <2>1. m = Len(front) /\ m \in Nat /\ DOMAIN names = 1 .. m
    BY <1>5, <1>6, <1>7
  <2> HIDE DEF m
  <2>2. m <= TopK /\ m <= Len(best) /\ (m < Len(best) => m = TopK)
    <3>1. m = IF Len(best) < TopK THEN Len(best) ELSE TopK
      BY <2>1, <1>6
    <3> DEFINE l == Len(best)
    <3>2. l \in Nat /\ TopK \in Nat
      BY <1>5
    <3>3. m = IF l < TopK THEN l ELSE TopK
      BY <3>1
    <3> HIDE DEF l
    <3>4. m <= TopK /\ m <= l /\ (m < l => m = TopK)
      BY <3>2, <3>3
    <3>5. QED
      BY <3>4 DEF l
  <2>3. \A n \in 1 .. m : n \in DOMAIN best
    BY <2>1, <2>2, <1>5
  <2>4. \A n \in 1 .. m : names[n] = best[n].id
    BY <2>1, <1>6, <1>7
  <2>5. QED
    BY <2>1, <2>2, <2>3, <2>4
<1> HIDE DEF m
<1>9. ASSUME NEW n \in DOMAIN best
      PROVE  Place(n) \in EligibleOf(list, query) /\ list[Place(n)] = best[n]
  <2>1. best[n] \in Elements(relevant)
    BY <1>4 DEF Elements
  <2>2. /\ best[n].status = "active" /\ Tokens[best[n].content] # {}
        /\ Score(best[n], query) > 0
        /\ \E i \in DOMAIN list : list[i] = best[n]
    BY <2>1, <1>1 DEF Elements
  <2>3. Place(n) \in DOMAIN list /\ list[Place(n)] = best[n]
    BY <2>2
  <2> HIDE DEF Place
  <2>4. QED
    BY <2>2, <2>3 DEF EligibleOf
<1>10. ASSUME NEW i \in EligibleOf(list, query)
       PROVE  \E n \in DOMAIN best : i = Place(n)
  <2>1. i \in DOMAIN list /\ list[i] \in Elements(relevant)
    BY <1>1 DEF EligibleOf, Elements
  <2>2. PICK n \in DOMAIN best : best[n] = list[i]
    BY <2>1, <1>4 DEF Elements
  <2>3. Place(n) \in DOMAIN list /\ list[Place(n)].id = list[i].id
    BY <2>2, <1>9 DEF EligibleOf
  <2> HIDE DEF Place
  <2>4. Place(n) = i
    BY <2>1, <2>3, IdTells
  <2>5. QED
    BY <2>4
<1>11. ASSUME NEW a \in DOMAIN best, NEW b \in DOMAIN best, a < b
       PROVE  /\ Place(a) # Place(b)
              /\ \/ Score(list[Place(a)], query) > Score(list[Place(b)], query)
                 \/ /\ Score(list[Place(a)], query) = Score(list[Place(b)], query)
                    /\ Place(a) < Place(b)
  <2>1. <<best[a], best[b]>> \in ByKey(key)
    BY <1>4, <1>11 DEF Ordered
  <2>2. /\ best[a] \in Bullet /\ best[b] \in Bullet
        /\ \/ key[best[a]] > key[best[b]]
           \/ key[best[a]] = key[best[b]] /\ best[a].id < best[b].id
    BY <2>1 DEF ByKey
  <2>3. /\ key[best[a]] \in Int /\ key[best[b]] \in Int
        /\ best[a].id \in Nat /\ best[b].id \in Nat
    BY <2>2, <1>2 DEF Bullet
  <2>4. best[a] # best[b]
    BY <2>2, <2>3
  <2>5. /\ Place(a) \in DOMAIN list /\ Place(b) \in DOMAIN list
        /\ list[Place(a)] = best[a] /\ list[Place(b)] = best[b]
    BY <1>9 DEF EligibleOf
  <2> HIDE DEF Place
  <2>6. best[a].id < best[b].id => Place(a) < Place(b)
    BY <2>5, IdTells
  <2>7. QED
    BY <2>2, <2>4, <2>5, <2>6, <1>2
<1> HIDE DEF Place
<1>12. shown = {Place(n) : n \in 1 .. m}
  <2>1. ASSUME NEW n \in 1 .. m PROVE Place(n) \in shown
    <3>1. Place(n) \in DOMAIN list /\ names[n] = list[Place(n)].id /\ n \in DOMAIN names
      BY <1>8, <1>9 DEF EligibleOf
    <3>2. QED
      BY <3>1 DEF NamedBy
  <2>2. ASSUME NEW i \in shown PROVE \E n \in 1 .. m : i = Place(n)
    <3>1. PICK n \in 1 .. m : names[n] = list[i].id /\ i \in DOMAIN list
      BY <1>8 DEF NamedBy
    <3>2. Place(n) \in DOMAIN list /\ list[Place(n)].id = list[i].id
      BY <3>1, <1>8, <1>9 DEF EligibleOf
    <3>3. QED
      BY <3>1, <3>2, IdTells
  <2>3. QED
    BY <2>1, <2>2
<1>13. shown \subseteq EligibleOf(list, query)
  BY <1>8, <1>9, <1>12
<1>14. Cardinality(shown) = m
  <2> DEFINE f == [n \in 1 .. m |-> Place(n)]
  <2>1. f \in [1 .. m -> shown]
    BY <1>12
  <2>2. ASSUME NEW a \in 1 .. m, NEW b \in 1 .. m, f[a] = f[b] PROVE a = b
    <3>1. /\ a \in DOMAIN best /\ b \in DOMAIN best
          /\ Place(a) = Place(b) /\ a \in Nat /\ b \in Nat
      BY <2>2, <1>8
    <3>2. ~ (a < b) /\ ~ (b < a)
      BY <3>1, <1>11
    <3>3. QED
      BY <3>1, <3>2
  <2>3. \A i \in shown : \E a \in 1 .. m : f[a] = i
    BY <1>12
  <2> HIDE DEF f
  <2>4. f \in Bijection(1 .. m, shown)
    <3>1. f \in Injection(1 .. m, shown)
      <4>1. DOMAIN f = 1 .. m
        BY <2>1
      <4>2. IsInjective(f)
        BY <2>2, <4>1 DEF IsInjective
      <4>3. QED
        BY <2>1, <4>2 DEF Injection
    <3>2. f \in Surjection(1 .. m, shown)
      BY <2>1, <2>3 DEF Surjection
    <3>3. QED
      BY <3>1, <3>2 DEF Bijection
  <2>5. ExistsBijection(1 .. m, shown)
    BY <2>4 DEF ExistsBijection
  <2>6. QED
    BY <2>5, <1>8, FS_CountingElements
<1>15. ASSUME NEW i \in EligibleOf(list, query) \ shown
       PROVE  /\ m = TopK
              /\ \A j \in shown :
                   \/ Score(list[j], query) > Score(list[i], query)
                   \/ Score(list[j], query) = Score(list[i], query) /\ j < i
  <2>1. PICK b \in DOMAIN best : i = Place(b)
    BY <1>10
  <2>2. b \in Nat /\ b > m /\ b <= Len(best)
    BY <2>1, <1>5, <1>8, <1>12
  <2>3. m = TopK
    BY <2>2, <1>5, <1>8
  <2>4. ASSUME NEW j \in shown
        PROVE  \/ Score(list[j], query) > Score(list[i], query)
               \/ Score(list[j], query) = Score(list[i], query) /\ j < i
    <3>1. PICK a \in 1 .. m : j = Place(a)
      BY <1>12
    <3>2. a \in DOMAIN best /\ a < b
      BY <3>1, <2>2, <1>8
    <3>3. QED
      BY <2>1, <3>1, <3>2, <1>11
  <2>5. QED
    BY <2>3, <2>4
<1>16. QED
  BY <1>7, <1>8, <1>13, <1>14, <1>15 DEF m

-----------------------------------------------------------------------------

\* Every id of the list is the id of an active bullet of the store.
NamesActive(names, list) ==
    /\ names \in Seq(Nat)
    /\ \A n \in DOMAIN names :
         \E i \in DOMAIN list : list[i].id = names[n] /\ list[i].status = "active"

\* Any list is in some order.
LEMMA EveryListOrdered ==
    ASSUME NEW D, NEW s \in Seq(D)
    PROVE  Ordered(s, D \X D)
<1>1. \A m \in DOMAIN s : s[m] \in D
  OBVIOUS
<1>2. QED
  BY <1>1 DEF Ordered

\* The ids of a list of active bullets.
LEMMA ActiveNames ==
    ASSUME NEW list \in Seq(Bullet), NEW s \in Seq(Bullet),
           Elements(s) \subseteq {b \in Elements(list) : b.status = "active"}
    PROVE  NamesActive(Ids(s), list)
<1>1. /\ Ids(s) \in Seq(Nat)
      /\ \A n \in DOMAIN Ids(s) : n \in DOMAIN s /\ Ids(s)[n] = s[n].id
  BY IdsIs
<1>2. ASSUME NEW n \in DOMAIN Ids(s)
      PROVE  \E i \in DOMAIN list : list[i].id = Ids(s)[n] /\ list[i].status = "active"
  <2>1. n \in DOMAIN s /\ Ids(s)[n] = s[n].id
    BY <1>1
  <2>2. s[n] \in Elements(list) /\ s[n].status = "active"
    BY <2>1 DEF Elements
  <2>3. PICK i \in DOMAIN list : list[i] = s[n]
    BY <2>2 DEF Elements
  <2>4. QED
    BY <2>1, <2>2, <2>3
<1>3. QED
  BY <1>1, <1>2 DEF NamesActive

\* Fewer names, in whatever order.
LEMMA FewerNames ==
    ASSUME NEW list, NEW names, NamesActive(names, list),
           NEW fewer \in Seq(Nat), Elements(fewer) \subseteq Elements(names)
    PROVE  NamesActive(fewer, list)
<1>1. ASSUME NEW n \in DOMAIN fewer
      PROVE  \E i \in DOMAIN list : list[i].id = fewer[n] /\ list[i].status = "active"
  <2>1. PICK m \in DOMAIN names : names[m] = fewer[n]
    BY DEF Elements
  <2>2. QED
    BY <2>1 DEF NamesActive
<1>2. QED
  BY <1>1 DEF NamesActive

\* Lexical retrieval names active bullets.
LEMMA SelectedNamesActive ==
    ASSUME NEW list \in Seq(Bullet), IdsIncrease(list), NEW query
    PROVE  NamesActive(Selected(list, query), list)
<1> DEFINE relevant == Relevant(list, query)
           key == ByScore(query)
           best == Ranked(relevant, key)
           front == First(TopK, best)
<1>1. /\ relevant \in Seq(Bullet) /\ Ordered(relevant, ByAge)
      /\ Elements(relevant) \subseteq {b \in Elements(list) : b.status = "active"}
  BY RelevantIs
<1>2. key \in [Bullet -> Int]
  BY ScoreIsInt
<1>3. Selected(list, query) = Ids(front)
  BY DEF Selected
<1> HIDE DEF relevant, key
<1>4. best \in Seq(Bullet) /\ Elements(best) = Elements(relevant)
  BY <1>1, <1>2, RankedKeeps
<1> HIDE DEF best
<1>5. front \in Seq(Bullet) /\ Elements(front) \subseteq Elements(best)
  BY <1>4, FirstIs, ServingAssumption
<1> HIDE DEF front
<1>6. Elements(front) \subseteq {b \in Elements(list) : b.status = "active"}
  BY <1>1, <1>4, <1>5
<1>7. QED
  BY <1>3, <1>5, <1>6, ActiveNames

\* The index and the catalog are made of active bullets.
LEMMA MostProven ==
    ASSUME NEW list \in Seq(Bullet), IdsIncrease(list), NEW k \in Nat
    PROVE  /\ First(k, Ranked(Active(list), ByNet)) \in Seq(Bullet)
           /\ Elements(First(k, Ranked(Active(list), ByNet)))
                \subseteq {b \in Elements(list) : b.status = "active"}
<1> DEFINE active == Active(list)
           ranked == Ranked(active, ByNet)
<1>1. /\ active \in Seq(Bullet) /\ Ordered(active, ByAge)
      /\ Elements(active) = {b \in Elements(list) : b.status = "active"}
  BY ActiveIs
<1> HIDE DEF active
<1>2. ranked \in Seq(Bullet) /\ Elements(ranked) = Elements(active)
  BY <1>1, NetIsInt, RankedKeeps
<1> HIDE DEF ranked
<1>3. /\ First(k, ranked) \in Seq(Bullet)
      /\ Elements(First(k, ranked)) \subseteq Elements(ranked)
  BY <1>2, FirstIs
<1>4. QED
  BY <1>1, <1>2, <1>3 DEF ranked, active

\* So is the index of select_agentic, cut or not.
LEMMA IndexIsActive ==
    ASSUME NEW list \in Seq(Bullet), IdsIncrease(list)
    PROVE  /\ Index(list) \in Seq(Bullet)
           /\ Elements(Index(list)) \subseteq {b \in Elements(list) : b.status = "active"}
<1>1. MaxIndex \in Nat
  BY ServingAssumption
<1>2. QED
  BY <1>1, MostProven, ActiveIs DEF Index

\* Whatever the model answers, only ids of the index are picked.
LEMMA PickedNamesActive ==
    ASSUME NEW list \in Seq(Bullet), IdsIncrease(list), NEW answer \in Seq(Nat)
    PROVE  NamesActive(Picked(answer, Index(list)), list)
<1> DEFINE index == Index(list)
           places == {n \in FirstMentions(answer) : KnownId(answer[n], index)}
           all == [n \in DOMAIN answer |-> n]
           kept == Kept(all, places)
           named == [i \in DOMAIN kept |-> answer[kept[i]]]
<1>1. index \in Seq(Bullet) /\ NamesActive(Ids(index), list)
  BY IndexIsActive, ActiveNames
<1>2. /\ all \in Seq(Nat) /\ Elements(all) = DOMAIN answer
      /\ Ordered(all, Nat \X Nat)
  <2>1. DOMAIN answer = 1 .. Len(answer) /\ Len(answer) \in Nat
    OBVIOUS
  <2>2. all \in Seq(Nat)
    BY <2>1
  <2>3. Elements(all) = DOMAIN answer
    BY DEF Elements
  <2>4. QED
    BY <2>2, <2>3, EveryListOrdered
<1>3. Picked(answer, index) = First(TopK, named)
  BY DEF Picked, PickedAt
<1>4. ASSUME NEW n \in places PROVE answer[n] \in Elements(Ids(index)) /\ answer[n] \in Nat
  <2>1. n \in DOMAIN answer /\ KnownId(answer[n], index)
    BY DEF FirstMentions
  <2>2. PICK i \in DOMAIN index : index[i].id = answer[n]
    BY <2>1 DEF KnownId
  <2>3. i \in DOMAIN Ids(index) /\ Ids(index)[i] = index[i].id
    BY DEF Ids
  <2>4. QED
    BY <2>1, <2>2, <2>3 DEF Elements
<1> HIDE DEF all, places, index
<1>5. kept \in Seq(Nat) /\ Elements(kept) = DOMAIN answer \cap places
  BY <1>2, KeptKeeps
<1> HIDE DEF kept
<1>6. ASSUME NEW i \in DOMAIN kept
      PROVE  answer[kept[i]] \in Nat /\ answer[kept[i]] \in Elements(Ids(index))
  <2>1. kept[i] \in places
    BY <1>5 DEF Elements
  <2>2. QED
    BY <2>1, <1>4
<1>7. named \in Seq(Nat) /\ Elements(named) \subseteq Elements(Ids(index))
  <2>1. DOMAIN kept = 1 .. Len(kept) /\ Len(kept) \in Nat
    BY <1>5
  <2>2. named \in Seq(Nat)
    BY <2>1, <1>6
  <2>3. QED
    BY <2>2, <1>6 DEF Elements
<1> HIDE DEF named
<1>8. /\ First(TopK, named) \in Seq(Nat)
      /\ Elements(First(TopK, named)) \subseteq Elements(Ids(index))
  <2>1. TopK \in Nat
    BY ServingAssumption
  <2>2. /\ First(TopK, named) \in Seq(Nat)
        /\ Elements(First(TopK, named)) \subseteq Elements(named)
    BY <1>7, <2>1, FirstIs
  <2>3. QED
    BY <1>7, <2>2
<1>9. NamesActive(Picked(answer, index), list)
  BY <1>1, <1>3, <1>8, FewerNames
<1>10. QED
  BY <1>9 DEF index

\* Whatever the log holds, only ids of the catalog count as invoked.
LEMMA InvokedNamesActive ==
    ASSUME NEW list \in Seq(Bullet), IdsIncrease(list), NEW log
    PROVE  NamesActive(Invoked(log, Catalog(list)), list)
<1> DEFINE catalog == Catalog(list)
           good == {id \in Nat : \E named \in log : Within(id, named)}
           names == Ids(catalog)
<1>1. CatalogCap \in Nat
  BY ServingAssumption
<1>2. /\ catalog \in Seq(Bullet)
      /\ Elements(catalog) \subseteq {b \in Elements(list) : b.status = "active"}
  BY <1>1, MostProven DEF Catalog
<1> HIDE DEF catalog
<1>3. NamesActive(names, list)
  BY <1>2, ActiveNames
<1>4. names \in Seq(Nat)
  BY <1>3 DEF NamesActive
<1>5. Invoked(log, catalog) = Kept(names, good)
  BY DEF Invoked
<1> HIDE DEF names, good
<1>6. Ordered(names, Nat \X Nat)
  BY <1>4, EveryListOrdered
<1>7. /\ Kept(names, good) \in Seq(Nat)
      /\ Elements(Kept(names, good)) = Elements(names) \cap good
  BY <1>4, <1>6, KeptKeeps
<1>8. NamesActive(Invoked(log, catalog), list)
  BY <1>3, <1>5, <1>7, FewerNames
<1>9. QED
  BY <1>8 DEF catalog

-----------------------------------------------------------------------------
\* The inductive invariant of a session, by parts.

\* What a session has read is a store whose ids identify bullets.
SeenWell(p) == stage[p] # "rest" => IdsIncrease(seen[p])

\* What a prompt shows is what select makes of what was read.
ShownIsSelected(p) ==
    stage[p] # "rest" /\ mode \in {"lexical", "prompt"} =>
        chosen[p] = Selected(seen[p], Query[p])

\* A reflection runs for a session that is learning.
RunsForSession(p) == pc[p] # "idle" => stage[p] = "learning"

\* What is still to be credited was active in what the session read.
CreditsNamed(p) == Locked /\ stage[p] = "learning" => NamesActive(ids[p], seen[p])

SessionInv ==
    /\ mode \in Modes
    /\ SessionTypes
    /\ chosen \in [Proc -> Seq(Nat)]
    /\ \A p \in Proc : SeenWell(p)
    /\ \A p \in Proc : ShownIsSelected(p)
    /\ \A p \in Proc : RunsForSession(p)
    /\ \A p \in Proc : CreditsNamed(p)

\* The parts that one process can disturb.
PartsOf(p) == SeenWell(p) /\ ShownIsSelected(p) /\ RunsForSession(p) /\ CreditsNamed(p)

\* A step of a reflection moves its own pc, and credits what it had to credit.
Moves(p) ==
    /\ pc[p] # "idle"
    /\ pc' = pc \/ \E to : pc' = [pc EXCEPT ![p] = to]
    /\ \/ ids' = ids
       \/ ids[p] # <<>> /\ ids' = [ids EXCEPT ![p] = Tail(@)]
       \/ ids' = [ids EXCEPT ![p] = <<>>]

\* Every step of a reflection is such a move.
LEMMA StepMoves == ASSUME NEW p \in Proc, Step(p) PROVE Moves(p)
<1>1. ASSUME AddNew(p) \/ AddDuplicate(p) \/ Reinforce(p) \/ Revise(p) \/ SkipDelta(p)
      PROVE  Moves(p)
  BY <1>1 DEF Moves, AddNew, AddDuplicate, Reinforce, Revise, SkipDelta, AtDelta
<1>2. ASSUME MergeLoad(p) \/ MalformedCaught(p) \/ MergeEnd(p) \/ Acquire(p)
      PROVE  Moves(p)
  BY <1>2 DEF Moves, MergeLoad, MalformedCaught, MergeEnd, Acquire, Goto, local
<1>3. ASSUME MalformedFatal(p) \/ Finish(p) PROVE Moves(p)
  BY <1>3 DEF Moves, MalformedFatal, Finish, Goto, Forget
<1>4. ASSUME CreditNone(p) \/ CreditLoad(p) \/ CreditEnd(p) PROVE Moves(p)
  BY <1>4 DEF Moves, CreditNone, CreditLoad, CreditEnd, Goto, local
<1>5. ASSUME CreditBullet(p) \/ CreditUnknown(p) PROVE Moves(p)
  BY <1>5 DEF Moves, CreditBullet, CreditUnknown
<1>6. ASSUME OpenTmp(p) \/ WriteTmp(p) \/ ReplaceStore(p) PROVE Moves(p)
  BY <1>6 DEF Moves, OpenTmp, WriteTmp, ReplaceStore, Goto, local
<1>7. QED
  BY <1>1, <1>2, <1>3, <1>4, <1>5, <1>6 DEF Step, Merge, Credit, Save

\* What is left of a list was in it.
LEMMA TailElements ==
    ASSUME NEW D, NEW s \in Seq(D), s # <<>>
    PROVE  Elements(Tail(s)) \subseteq Elements(s)
<1>1. /\ Len(s) \in Nat /\ Len(Tail(s)) = Len(s) - 1 /\ Len(s) # 0
      /\ \A i \in 1 .. Len(Tail(s)) : Tail(s)[i] = s[i + 1]
      /\ DOMAIN s = 1 .. Len(s) /\ DOMAIN Tail(s) = 1 .. Len(Tail(s))
  OBVIOUS
<1>2. \A i \in 1 .. Len(Tail(s)) : i + 1 \in 1 .. Len(s)
  BY <1>1
<1>3. QED
  BY <1>1, <1>2 DEF Elements

\* No step credits an id that was not to be credited.
LEMMA MovesIds ==
    ASSUME TypeOK, NEW p \in Proc, Moves(p)
    PROVE  /\ Elements(ids'[p]) \subseteq Elements(ids[p])
           /\ \A q \in Proc \ {p} : pc'[q] = pc[q] /\ ids'[q] = ids[q]
<1>1. /\ DOMAIN pc = Proc /\ DOMAIN ids = Proc /\ ids[p] \in Seq(Nat)
  BY DEF TypeOK
<1>2. \A q \in Proc \ {p} : pc'[q] = pc[q] /\ ids'[q] = ids[q]
  BY <1>1 DEF Moves
<1>3. \/ ids'[p] = ids[p] \/ ids'[p] = <<>>
      \/ ids[p] # <<>> /\ ids'[p] = Tail(ids[p])
  BY <1>1 DEF Moves
<1>4. Elements(<<>>) = {}
  BY DEF Elements
<1>5. QED
  BY <1>1, <1>2, <1>3, <1>4, TailElements

\* What a session does not touch stays as it was.
LEMMA OthersStay ==
    ASSUME NEW q \in Proc, PartsOf(q),
           mode' = mode, stage'[q] = stage[q], seen'[q] = seen[q],
           chosen'[q] = chosen[q], pc'[q] = pc[q], ids'[q] = ids[q]
    PROVE  PartsOf(q)'
BY DEF PartsOf, SeenWell, ShownIsSelected, RunsForSession, CreditsNamed

\* A session reads the store.
LEMMA ServeParts ==
    ASSUME IInv, SessionInv, NEW p \in Proc, Serve(p)
    PROVE  SessionInv'
<1>1. /\ SessionTypes' /\ disk \in Seq(Bullet) /\ disk' = disk
      /\ seen' = [seen EXCEPT ![p] = disk]
      /\ stage' = [stage EXCEPT ![p] = "served"]
  BY ServeReads DEF SessionInv
<1>2. Loaded = disk
  <2>1. disk # Torn
    BY <1>1, ReflectionAssumption
  <2>2. QED
    BY <2>1 DEF Loaded
<1>3. /\ chosen' = [chosen EXCEPT ![p] =
           IF mode \in {"lexical", "prompt"} THEN Selected(disk, Query[p]) ELSE chosen[p]]
      /\ mode' = mode /\ pc' = pc /\ ids' = ids /\ pc[p] = "idle"
  BY <1>2 DEF Serve, vars
<1>4. IdsIncrease(disk)
  BY DEF IInv, GoodStore
<1>5. Selected(disk, Query[p]) \in Seq(Nat)
  BY <1>1, <1>4, SelectedNamesActive DEF NamesActive
<1>6. chosen \in [Proc -> Seq(Nat)] /\ DOMAIN seen = Proc /\ DOMAIN stage = Proc
  BY DEF SessionInv, SessionTypes
<1>7. chosen' \in [Proc -> Seq(Nat)]
  BY <1>3, <1>5, <1>6
<1>8. PartsOf(p)'
  <2>1. stage'[p] = "served" /\ seen'[p] = disk
    BY <1>1, <1>6
  <2>2. mode \in {"lexical", "prompt"} => chosen'[p] = Selected(disk, Query[p])
    BY <1>3, <1>6
  <2>3. QED
    BY <1>3, <1>4, <2>1, <2>2
    DEF PartsOf, SeenWell, ShownIsSelected, RunsForSession, CreditsNamed
<1>9. ASSUME NEW q \in Proc \ {p} PROVE PartsOf(q)'
  <2>1. PartsOf(q)
    BY DEF SessionInv, PartsOf
  <2>2. stage'[q] = stage[q] /\ seen'[q] = seen[q] /\ chosen'[q] = chosen[q]
    BY <1>1, <1>3, <1>6
  <2>3. QED
    BY <1>3, <2>1, <2>2, OthersStay
<1>10. mode' \in Modes
  BY <1>3 DEF SessionInv
<1>11. QED
  BY <1>1, <1>7, <1>8, <1>9, <1>10 DEF SessionInv, PartsOf

\* A session comes to its end.
LEMMA EndParts ==
    ASSUME SessionInv, NEW p \in Proc, EndSession(p), mode' = mode, pc'[p] = "idle",
           \A q \in Proc \ {p} : pc'[q] = pc[q] /\ ids'[q] = ids[q]
    PROVE  SessionInv'
<1>1. /\ chosen \in [Proc -> Seq(Nat)]
      /\ stage \in [Proc -> {"rest", "served", "learning"}]
      /\ seen \in [Proc -> Seq(Bullet)]
  BY DEF SessionInv, SessionTypes
<1>2. /\ chosen' \in [Proc -> Seq(Nat)]
      /\ stage' \in [Proc -> {"rest", "served", "learning"}]
      /\ seen' \in [Proc -> Seq(Bullet)]
      /\ stage'[p] = "rest"
  BY <1>1 DEF EndSession
<1>3. PartsOf(p)'
  BY <1>2 DEF PartsOf, SeenWell, ShownIsSelected, RunsForSession, CreditsNamed
<1>4. ASSUME NEW q \in Proc \ {p} PROVE PartsOf(q)'
  <2>1. PartsOf(q)
    BY DEF SessionInv, PartsOf
  <2>2. stage'[q] = stage[q] /\ seen'[q] = seen[q] /\ chosen'[q] = chosen[q]
    BY <1>1 DEF EndSession
  <2>3. QED
    BY <2>1, <2>2, OthersStay
<1>5. mode' \in Modes
  BY DEF SessionInv
<1>6. QED
  BY <1>2, <1>3, <1>4, <1>5 DEF SessionInv, PartsOf, SessionTypes

\* What the model chose is named in the catalog, in the index or in the prompt.
LEMMA ChosenNamesActive ==
    ASSUME SessionInv, NEW p \in Proc, stage[p] # "rest", NEW list \in Chosen(p)
    PROVE  /\ NamesActive(list, seen[p])
           /\ mode \in {"lexical", "prompt"} => list = chosen[p]
<1>1. seen[p] \in Seq(Bullet) /\ IdsIncrease(seen[p])
  BY DEF SessionInv, SessionTypes, SeenWell
<1>2. CASE mode = "agentic"
  <2>1. PICK answer \in Answers \cup {<<>>} : list = Picked(answer, Index(seen[p]))
    BY <1>2 DEF Chosen
  <2>2. answer \in Seq(Nat)
    <3>1. Answers \subseteq Seq(Nat)
      BY ServingAssumption
    <3>2. <<>> \in Seq(Nat)
      OBVIOUS
    <3>3. QED
      BY <3>1, <3>2
  <2>3. QED
    BY <1>1, <1>2, <2>1, <2>2, PickedNamesActive
<1>3. CASE mode = "native"
  <2>1. PICK log \in Logs \cup {{}} : list = Invoked(log, Catalog(seen[p]))
    BY <1>3 DEF Chosen
  <2>2. QED
    BY <1>1, <1>3, <2>1, InvokedNamesActive
<1>4. CASE mode \in {"lexical", "prompt"}
  <2>1. list = chosen[p]
    BY <1>4 DEF Chosen
  <2>2. chosen[p] = Selected(seen[p], Query[p])
    BY <1>4 DEF SessionInv, ShownIsSelected
  <2>3. QED
    BY <1>1, <2>1, <2>2, SelectedNamesActive
<1>5. mode \in {"lexical", "agentic", "native", "prompt"}
  BY ServingAssumption DEF SessionInv
<1>6. QED
  BY <1>2, <1>3, <1>4, <1>5

\* A session ends and its reflection begins.
LEMMA LearnParts ==
    ASSUME TypeOK, SessionInv, NEW p \in Proc, Learn(p)
    PROVE  SessionInv'
<1>1. PICK list \in Chosen(p) : chosen' = [chosen EXCEPT ![p] = list]
  BY DEF Learn
<1>2. /\ stage[p] = "served" /\ stage' = [stage EXCEPT ![p] = "learning"]
      /\ mode' = mode /\ seen' = seen
      /\ mode = "prompt" \/ ids'[p] = chosen'[p]
  BY DEF Learn
<1>3. /\ NamesActive(list, seen[p])
      /\ mode \in {"lexical", "prompt"} => list = chosen[p]
  BY <1>2, ChosenNamesActive
<1>4. /\ chosen \in [Proc -> Seq(Nat)]
      /\ stage \in [Proc -> {"rest", "served", "learning"}]
      /\ seen \in [Proc -> Seq(Bullet)]
      /\ DOMAIN pc = Proc /\ DOMAIN ids = Proc
  BY DEF SessionInv, SessionTypes, TypeOK
<1>5. list \in Seq(Nat)
  BY <1>3 DEF NamesActive
<1>6. /\ chosen' \in [Proc -> Seq(Nat)] /\ chosen'[p] = list
      /\ stage' \in [Proc -> {"rest", "served", "learning"}] /\ stage'[p] = "learning"
  BY <1>1, <1>2, <1>4, <1>5
<1>7. \A q \in Proc \ {p} :
        /\ stage'[q] = stage[q] /\ chosen'[q] = chosen[q]
        /\ pc'[q] = pc[q] /\ ids'[q] = ids[q]
  BY <1>1, <1>2, <1>4 DEF Learn, Begin, Goto
<1>8. Locked => mode # "prompt"
  BY ServingAssumption DEF SessionInv
<1>9. PartsOf(p)'
  <2>1. PartsOf(p)
    BY DEF SessionInv, PartsOf
  <2>2. Locked => NamesActive(ids'[p], seen'[p])
    BY <1>2, <1>3, <1>6, <1>8
  <2>3. mode \in {"lexical", "prompt"} => chosen'[p] = Selected(seen'[p], Query[p])
    BY <1>2, <1>3, <1>6, <2>1 DEF PartsOf, ShownIsSelected
  <2>4. QED
    BY <1>2, <1>6, <2>1, <2>2, <2>3
    DEF PartsOf, SeenWell, ShownIsSelected, RunsForSession, CreditsNamed
<1>10. ASSUME NEW q \in Proc \ {p} PROVE PartsOf(q)'
  <2>1. PartsOf(q)
    BY DEF SessionInv, PartsOf
  <2>2. QED
    BY <1>2, <1>7, <2>1, OthersStay
<1>11. mode' \in Modes
  BY <1>2 DEF SessionInv
<1>12. QED
  BY <1>2, <1>4, <1>6, <1>9, <1>10, <1>11 DEF SessionInv, PartsOf, SessionTypes

\* The reflection goes on.
LEMMA ReflectParts ==
    ASSUME TypeOK, TypeOK', SessionInv, NEW p \in Proc, Reflect(p)
    PROVE  SessionInv'
<1>1. mode' = mode /\ Moves(p)
  BY StepMoves DEF Reflect
<1>2. /\ Elements(ids'[p]) \subseteq Elements(ids[p])
      /\ \A q \in Proc \ {p} : pc'[q] = pc[q] /\ ids'[q] = ids[q]
  BY <1>1, MovesIds
<1>3. CASE pc'[p] = "idle"
  <2>1. EndSession(p)
    BY <1>3 DEF Reflect
  <2>2. QED
    BY <1>1, <1>2, <1>3, <2>1, EndParts
<1>4. CASE pc'[p] # "idle"
  <2>1. stage' = stage /\ seen' = seen /\ chosen' = chosen
    BY <1>4 DEF Reflect, sessionVars
  <2>2. ids'[p] \in Seq(Nat)
    BY DEF TypeOK
  <2>3. PartsOf(p)
    BY DEF SessionInv, PartsOf
  <2>4. Locked /\ stage[p] = "learning" => NamesActive(ids'[p], seen[p])
    BY <1>2, <2>2, <2>3, FewerNames DEF PartsOf, CreditsNamed
  <2>5. PartsOf(p)'
    BY <1>1, <2>1, <2>3, <2>4
    DEF PartsOf, SeenWell, ShownIsSelected, RunsForSession, CreditsNamed, Moves
  <2>6. ASSUME NEW q \in Proc \ {p} PROVE PartsOf(q)'
    <3>1. PartsOf(q)
      BY DEF SessionInv, PartsOf
    <3>2. QED
      BY <1>1, <1>2, <2>1, <3>1, OthersStay
  <2>7. QED
    BY <1>1, <2>1, <2>5, <2>6 DEF SessionInv, PartsOf, SessionTypes
<1>5. QED
  BY <1>3, <1>4

\* Every step keeps the invariant.
LEMMA SessionStepKeeps ==
    ASSUME IInv, IInv', SessionInv, [ServingNext]_servingVars
    PROVE  SessionInv'
<1>1. TypeOK /\ TypeOK'
  BY DEF IInv
<1>2. ASSUME NEW p \in Proc, Abandon(p) PROVE SessionInv'
  <2>1. EndSession(p) /\ mode' = mode /\ pc' = pc /\ ids' = ids /\ stage[p] = "served"
    BY <1>2 DEF Abandon, vars
  <2>2. pc'[p] = "idle"
    BY <2>1 DEF SessionInv, RunsForSession
  <2>3. QED
    BY <2>1, <2>2, EndParts
<1>3. ASSUME NEW p \in Proc, Killed(p) PROVE SessionInv'
  <2>1. /\ EndSession(p) /\ mode' = mode
        /\ pc' = [pc EXCEPT ![p] = "idle"] /\ ids' = [ids EXCEPT ![p] = <<>>]
    BY <1>3 DEF Killed, Crash, Forget
  <2>2. DOMAIN pc = Proc /\ DOMAIN ids = Proc
    BY <1>1 DEF TypeOK
  <2>3. QED
    BY <2>1, <2>2, EndParts
<1>4. CASE AllKilled
  <2>1. /\ stage' = [p \in Proc |-> "rest"] /\ seen' = [p \in Proc |-> <<>>]
        /\ chosen' = [p \in Proc |-> <<>>] /\ mode' = mode
        /\ pc' = [p \in Proc |-> "idle"]
    BY <1>4 DEF AllKilled, CrashAll
  <2>2. /\ chosen' \in [Proc -> Seq(Nat)] /\ mode' \in Modes
        /\ SessionTypes'
    BY <2>1 DEF SessionInv, SessionTypes
  <2>3. ASSUME NEW p \in Proc PROVE PartsOf(p)'
    BY <2>1 DEF PartsOf, SeenWell, ShownIsSelected, RunsForSession, CreditsNamed
  <2>4. QED
    BY <2>2, <2>3 DEF SessionInv, PartsOf
<1>5. CASE UNCHANGED servingVars
  BY <1>5 DEF servingVars, vars, sessionVars, SessionInv, SessionTypes, SeenWell,
              ShownIsSelected, RunsForSession, CreditsNamed
<1>6. QED
  BY <1>1, <1>2, <1>3, <1>4, <1>5, ServeParts, LearnParts, ReflectParts DEF ServingNext

\* The invariant holds in every state, with the one of the reflections.
LEMMA SessionInvariant == ServingSpec => [](IInv /\ SessionInv)
<1>1. ServingInit => SessionInv
  BY DEF ServingInit, Init, SessionInv, SessionTypes, SeenWell, ShownIsSelected,
         RunsForSession, CreditsNamed
<1>2. ServingSpec => []IInv
  BY ServingReflects, Invariant, PTL
<1>3. IInv /\ IInv' /\ SessionInv /\ [ServingNext]_servingVars => SessionInv'
  BY SessionStepKeeps
<1>4. QED
  BY <1>1, <1>2, <1>3, PTL DEF ServingSpec

\* Whatever writes the store meanwhile, a prompt shows the TopK best of the active
\* lessons that score: none that misleads, none twice, none left out for a worse
\* one, of equals the older (retrieve.select).
THEOREM BestAreShown == ServingSpec => []ShowsTheBest
<1>1. SessionInv => ShowsTheBest
  <2> SUFFICES ASSUME SessionInv, NEW p \in Proc, stage[p] # "rest",
                      mode \in {"lexical", "prompt"}
               PROVE  /\ ShownTo(p) \subseteq Eligible(p)
                      /\ Len(chosen[p]) = Cardinality(ShownTo(p))
                      /\ Len(chosen[p]) <= TopK
                      /\ \A i \in Eligible(p) \ ShownTo(p) :
                           /\ Len(chosen[p]) = TopK
                           /\ \A j \in ShownTo(p) :
                                \/ Score(seen[p][j], Query[p]) > Score(seen[p][i], Query[p])
                                \/ /\ Score(seen[p][j], Query[p]) = Score(seen[p][i], Query[p])
                                   /\ j < i
    BY DEF ShowsTheBest
  <2>1. /\ seen[p] \in Seq(Bullet) /\ IdsIncrease(seen[p])
        /\ chosen[p] = Selected(seen[p], Query[p])
    BY DEF SessionInv, SessionTypes, SeenWell, ShownIsSelected
  <2>2. /\ Eligible(p) = EligibleOf(seen[p], Query[p])
        /\ ShownTo(p) = NamedBy(chosen[p], seen[p])
    BY DEF Eligible, EligibleOf, ShownTo, NamedBy
  <2>3. QED
    BY <2>1, <2>2, SelectedIsBest
<1>2. QED
  BY <1>1, SessionInvariant, PTL

\* Under the lock a reflection credits the lessons its session had: every id it
\* still has to credit was active in what the session read, and in the list that
\* is being credited it still is that lesson, with all its votes, however many
\* reflections wrote the store in between.
THEOREM CreditsReachLessons == ServingSpec => []CreditFindsLesson
<1>1. CASE Locked
  <2>1. IInv /\ SessionInv /\ SeenStays => CreditFindsLesson
    <3> SUFFICES ASSUME IInv, SessionInv, SeenStays, NEW p \in Proc, pc[p] = "credit",
                        NEW n \in DOMAIN ids[p]
                 PROVE  \E i \in DOMAIN seen[p] :
                          /\ seen[p][i].id = ids[p][n]
                          /\ seen[p][i].status = "active"
                          /\ i \in DOMAIN items[p]
                          /\ Later(seen[p][i], items[p][i])
      BY DEF CreditFindsLesson
    <3>1. stage[p] = "learning" /\ NamesActive(ids[p], seen[p])
      BY <1>1 DEF SessionInv, RunsForSession, CreditsNamed
    <3>2. PICK i \in DOMAIN seen[p] : /\ seen[p][i].id = ids[p][n]
                                      /\ seen[p][i].status = "active"
      BY <3>1 DEF NamesActive
    <3>3. /\ seen[p] \in Seq(Bullet) /\ disk \in Seq(Bullet) /\ items[p] \in Seq(Bullet)
      BY DEF SessionInv, SessionTypes, IInv, GoodStore
    <3>4. Evolves(seen[p], disk)
      BY <3>1 DEF SeenStays
    <3>5. Evolves(disk, items[p])
      BY <1>1 DEF IInv, KeepsDisk, Editing
    <3>6. Evolves(seen[p], items[p])
      BY <3>3, <3>4, <3>5, EvolvesTransitive
    <3>7. i \in DOMAIN items[p] /\ Later(seen[p][i], items[p][i])
      BY <3>3, <3>6 DEF Evolves
    <3>8. QED
      BY <3>2, <3>7
  <2>2. ServingSpec => []SeenStays
    BY <1>1, LessonsStay
  <2>3. QED
    BY <2>1, <2>2, SessionInvariant, PTL
<1>2. CASE ~Locked
  <2>1. CreditFindsLesson
    BY <1>2 DEF CreditFindsLesson
  <2>2. QED
    BY <2>1, PTL
<1>3. QED
  BY <1>1, <1>2

\* Under the lock a deployment that serves and learns implements the store in which
\* every reflection merges and credits in one step.
THEOREM ServingIsAtomic ==
    ASSUME Locked
    PROVE  ServingSpec => RefinesAtomicStore
<1>1. Spec => RefinesAtomicStore
  BY LockedIsAtomic
<1>2. QED
  BY <1>1, ServingReflects, PTL
=============================================================================
