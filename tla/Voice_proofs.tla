---------------------------- MODULE Voice_proofs ----------------------------
(***************************************************************************)
(* Proofs about the side of Discord, for all values of the constants.      *)
(*                                                                         *)
(* VoiceOnboarding.  The invariant has two halves: the queue, the marks    *)
(* and the helpers' runs name each member once; and the rooms there are,   *)
(* the notes of them and what a round has yet to look at agree, for every  *)
(* member who never had two rooms and did not leave at the wrong moment.   *)
(* GuildSetup.  The invariant says how far the run is, what it has made,   *)
(* whom its fetched lists missed, and who is let in where it has shut.     *)
(* RecoverCommand.  The role is followed for whom nothing overlapped, and  *)
(* a press agrees with its worker, the cooldown and the last answer.       *)
(* SlashCommands.  Handler, fetch and request of a press agree, and what   *)
(* is on its way to the user is as true as what the user has read.         *)
(***************************************************************************)
EXTENDS Bot, Ranking_proofs

-----------------------------------------------------------------------------
(***************************************************************************)
(* The queue.  Every job and every run that is under way is for an active  *)
(* member, and no member has two of them.                                  *)
(***************************************************************************)
QueueInOrder(jobs, runs, active) ==
  /\ \A i, j \in DOMAIN jobs : jobs[i].member = jobs[j].member => i = j
  /\ \A g, h \in Helpers : runs[g].member = runs[h].member /\ runs[g].member # None => g = h
  /\ \A i \in DOMAIN jobs, h \in Helpers : jobs[i].member # runs[h].member
  /\ \A i \in DOMAIN jobs : jobs[i].member \in active
  /\ \A h \in Helpers : runs[h].member # None => runs[h].member \in active
  /\ \A m \in active : \/ \E i \in DOMAIN jobs : jobs[i].member = m
                       \/ \E h \in Helpers : runs[h].member = m

RoomOf(m, r) == r \in 1..created /\ owner[r] = m

Untroubled == Members \ (crossed \cup doubled)

(***************************************************************************)
(* What the state of a run says of it.                                     *)
(***************************************************************************)
RunInOrder(r) ==
  /\ r.at \in {"absent", "idle"} <=> r.member = None
  /\ r.at = "idle" => r = Free
  /\ r.at \notin {"absent", "idle", "cleanup"} => RoomOf(r.member, r.room)
  /\ r.at \in {"fetch", "settle"} => ~r.away /\ ~r.enough /\ ~r.stopped
  /\ r.at \in {"postroll", "unlock"} => r.enough

(***************************************************************************)
(* The room of a run is the one noted, or is no more.  As long as it is    *)
(* there, a member who left it early has stopped the player, and one who   *)
(* has not is in it.                                                       *)
(***************************************************************************)
RunIsTrue(r) ==
  r.member \in Untroubled /\ r.at # "cleanup" =>
    /\ r.room = privateChannels[r.member] \/ r.room \notin open
    /\ r.at \in {"disconnect", "delete"} => verified[r.member] \/ r.room \notin open
    /\ r.at = "unlock" => ~r.away
    /\ r.at \in {"start", "playing", "postroll"} /\ r.away =>
         \/ r.stopped /\ ~r.enough
         \/ r.room \notin open
    /\ r.at \in {"start", "playing"} /\ ~r.enough /\ ~r.away =>
         voice[r.member] = r.room \/ r.room \notin open

JobIsTrue(job) ==
  /\ RoomOf(job.member, job.room)
  /\ job.member \in Untroubled =>
       job.room = privateChannels[job.member] \/ job.room \notin open

QInv ==
  /\ pendingOnboarding \in Seq(Job) /\ run \in [Helpers -> Run] /\ activeMembers \subseteq Members
  /\ QueueInOrder(pendingOnboarding, run, activeMembers)
  /\ NobodyWaitsForAFreeHelper
  /\ \A h \in Helpers : rounds = "login" <=> run[h].at = "absent"
  /\ \A h \in Helpers : RunInOrder(run[h]) /\ RunIsTrue(run[h])
  /\ \A i \in DOMAIN pendingOnboarding : JobIsTrue(pendingOnboarding[i])

-----------------------------------------------------------------------------
(***************************************************************************)
(* The rooms.                                                              *)
(***************************************************************************)
RoomTypes ==
  /\ inGuild \in [Members -> BOOLEAN] /\ verified \in [Members -> BOOLEAN]
  /\ voice \in [Members -> Nat]
  /\ created \in 0..maxRooms /\ owner \in Seq(Members) /\ Len(owner) = created
  /\ open \subseteq 1..created
  /\ privateChannels \in [Members -> 0..created]
  /\ creating \subseteq Call
  /\ unchecked \subseteq 1..created /\ unvisited \subseteq Members

MemberInOrder(m) ==
  /\ voice[m] # 0 => voice[m] \in open /\ owner[voice[m]] = m
  /\ privateChannels[m] # 0 => owner[privateChannels[m]] = m
  /\ ~inGuild[m] => ~verified[m]
  /\ ~inGuild[m] /\ m \notin crossed =>
       privateChannels[m] = 0 /\ \A call \in creating : call.member # m

(***************************************************************************)
(* A member has one room at most, unless the bot made a second one; for an *)
(* untroubled one the noted room is there as long as the member needs it,  *)
(* and a round finds a room where it saw it.                               *)
(***************************************************************************)
OneRoom(m) == \A r, q \in open : owner[r] = m /\ owner[q] = m => r = q

RoomsAreTrue(m) ==
  /\ shouldOnboard(m) /\ privateChannels[m] # 0 => privateChannels[m] \in open
  /\ \A r \in unchecked : owner[r] = m /\ ~verified[m] => r \in open

RInv ==
  /\ RoomTypes
  /\ \A m \in Members : MemberInOrder(m)
  /\ \A m \in Members \ doubled : OneRoom(m)
  /\ \A m \in Untroubled : RoomsAreTrue(m)

VInv == QInv /\ RInv

-----------------------------------------------------------------------------
(***************************************************************************)
(* A set of rooms has a first and a last.                                  *)
(***************************************************************************)
LEMMA FirstAndLast ==
  ASSUME NEW n \in Nat, NEW S \in SUBSET (1..n), S # {}
  PROVE  /\ \E r \in S : \A q \in S : r <= q
         /\ \E r \in S : \A q \in S : q <= r
<1> DEFINE rank == [e \in S |-> e]
           Below(e) == {f \in S : rank[f] <= rank[e]}
           pos == [e \in S |-> Cardinality(Below(e))]
<1>1. IsFiniteSet(S) /\ Cardinality(S) \in Nat /\ Cardinality(S) # 0
  <2>1. IsFiniteSet(1..n) BY FS_Interval
  <2>2. IsFiniteSet(S) BY <2>1, FS_Subset
  <2> QED BY <2>2, FS_CardinalityType, FS_EmptySet
<1>2. rank \in [S -> Int] /\ \A e, g \in S : rank[e] = rank[g] => e = g
  BY SMT
<1>3. pos \in Bijection(S, 1..Cardinality(S))
  <2> HIDE DEF rank
  <2> QED BY <1>1, <1>2, RankCounts
<1>4. \A k \in 1..Cardinality(S) : \E e \in S : Cardinality(Below(e)) = k
  <2>1. \A k \in 1..Cardinality(S) : \E e \in S : pos[e] = k
    <3> HIDE DEF pos
    <3> QED BY <1>3 DEF Bijection, Surjection
  <2> QED BY <2>1
<1>5. \A e \in S : Below(e) \subseteq S /\ e \in Below(e) /\ IsFiniteSet(Below(e))
  <2> SUFFICES ASSUME NEW e \in S
               PROVE  Below(e) \subseteq S /\ e \in Below(e) /\ IsFiniteSet(Below(e))
    OBVIOUS
  <2>1. Below(e) \subseteq S OBVIOUS
  <2>2. e \in Below(e) BY SMT
  <2>3. IsFiniteSet(Below(e)) BY <1>1, <2>1, FS_Subset
  <2> QED BY <2>1, <2>2, <2>3
<1>6. \E r \in S : \A q \in S : r <= q
  <2>1. PICK e \in S : Cardinality(Below(e)) = 1
    <3>1. 1 \in 1..Cardinality(S) BY <1>1
    <3> HIDE DEF Below
    <3> QED BY <1>4, <3>1
  <2>2. Below(e) = {e} BY <1>5, <2>1, FS_Singleton
  <2>3. \A q \in S : q <= e => q = e BY <2>2
  <2> QED BY <2>3
<1>7. \E r \in S : \A q \in S : q <= r
  <2>1. PICK e \in S : Cardinality(Below(e)) = Cardinality(S)
    <3>1. Cardinality(S) \in 1..Cardinality(S) BY <1>1
    <3> HIDE DEF Below
    <3> QED BY <1>4, <3>1
  <2>2. Below(e) = S
    <3> HIDE DEF Below
    <3> QED BY <1>1, <1>5, <2>1, FS_Subset
  <2>3. \A q \in S : q <= e BY <2>2
  <2> QED BY <2>3
<1> QED BY <1>6, <1>7

Fetching(job) == [Free EXCEPT !.at = "fetch", !.member = job.member, !.room = job.room]

(***************************************************************************)
(* pumpHelperQueue gives the first jobs, one each, to the first helpers    *)
(* that are free, until it runs out of one or the other.                   *)
(***************************************************************************)
LEMMA HandedOut ==
  ASSUME NEW jobs \in Seq(Job), NEW runs \in [Helpers -> Run]
  PROVE  \E free \in SUBSET Helpers, k \in 0..Len(jobs) :
         \E served \in SUBSET free : \E place \in Bijection(served, 1..k) :
           /\ free = {h \in Helpers : runs[h].at = "idle"}
           /\ pumpHelperQueue(jobs, runs).jobs = SubSeq(jobs, k + 1, Len(jobs))
           /\ pumpHelperQueue(jobs, runs).runs =
                [h \in Helpers |-> IF h \in served THEN Fetching(jobs[place[h]]) ELSE runs[h]]
           /\ k = Len(jobs) \/ served = free
<1>1. PICK free \in SUBSET Helpers : free = {h \in Helpers : runs[h].at = "idle"} OBVIOUS
<1>2. PICK n : n = Cardinality(free) OBVIOUS
<1>3. IsFiniteSet(free) /\ n \in Nat
  <2>1. helperCount \in Int BY BoundsAssumption
  <2>2. IsFiniteSet(Helpers) BY <2>1, FS_Interval DEF Helpers
  <2>3. IsFiniteSet(free) BY <2>2, FS_Subset
  <2> QED BY <1>2, <2>3, FS_CardinalityType
<1>4. PICK pos : pos = [h \in free |-> Cardinality({g \in free : g <= h})] OBVIOUS
<1>5. pos \in Bijection(free, 1..n)
  <2>1. PICK rank : rank = [e \in free |-> e] OBVIOUS
  <2>2. rank \in [free -> Int] /\ \A e, g \in free : rank[e] = rank[g] => e = g
    BY <2>1, BoundsAssumption DEF Helpers
  <2>3. [e \in free |-> Cardinality({f \in free : rank[f] <= rank[e]})] \in Bijection(free, 1..n)
    BY <1>2, <1>3, <2>2, RankCounts
  <2>4. \A e \in free : {f \in free : rank[f] <= rank[e]} = {g \in free : g <= e}
    BY <2>1
  <2>5. [e \in free |-> Cardinality({f \in free : rank[f] <= rank[e]})] = pos
    BY <1>4, <2>4
  <2> QED BY <2>3, <2>5
<1>6. PICK served \in SUBSET free : served = {h \in free : pos[h] <= Len(jobs)} OBVIOUS
<1>7. PICK k \in 0..Len(jobs) : k = (IF n <= Len(jobs) THEN n ELSE Len(jobs)) BY <1>3
<1>8. PICK place : place = [h \in served |-> pos[h]] OBVIOUS
<1>9. pos \in [free -> 1..n] /\ (\A g, h \in free : pos[g] = pos[h] => g = h)
      /\ \A i \in 1..n : \E h \in free : pos[h] = i
  BY <1>5 DEF Bijection, Injection, Surjection, IsInjective
<1>10. place \in Bijection(served, 1..k)
  <2>1. \A h \in served : h \in free /\ pos[h] \in 1..k /\ place[h] = pos[h]
    BY <1>3, <1>6, <1>7, <1>8, <1>9
  <2>2. place \in [served -> 1..k] BY <1>8, <2>1
  <2>3. \A g, h \in served : place[g] = place[h] => g = h BY <1>9, <2>1
  <2>4. \A i \in 1..k : \E h \in served : place[h] = i
    <3> SUFFICES ASSUME NEW i \in 1..k PROVE \E h \in served : place[h] = i OBVIOUS
    <3>1. i \in 1..n /\ i <= Len(jobs) BY <1>3, <1>7
    <3>2. PICK h \in free : pos[h] = i BY <1>9, <3>1
    <3>3. h \in served BY <1>6, <3>1, <3>2
    <3> QED BY <2>1, <3>2, <3>3
  <2> QED BY <2>2, <2>3, <2>4 DEF Bijection, Injection, Surjection, IsInjective
<1>11. Cardinality(served) = k
  <2>1. IsFiniteSet(served) BY <1>3, FS_Subset
  <2>2. ExistsBijection(served, 1..k) BY <1>10 DEF ExistsBijection
  <2>3. Cardinality(1..k) = k BY <1>7, FS_Interval
  <2> QED BY <2>1, <2>2, <2>3, FS_Bijection
<1>12. k = Len(jobs) \/ served = free
  BY <1>3, <1>6, <1>7, <1>9
<1>13. /\ pumpHelperQueue(jobs, runs).jobs = SubSeq(jobs, k + 1, Len(jobs))
       /\ pumpHelperQueue(jobs, runs).runs =
            [h \in Helpers |-> IF h \in served THEN Fetching(jobs[place[h]]) ELSE runs[h]]
  <2>1. \A h \in free : Cardinality({g \in free : g <= h}) = pos[h] BY <1>4
  <2>2. {h \in free : Cardinality({g \in free : g <= h}) <= Len(jobs)} = served
    BY <1>6, <2>1
  <2>3. \A h \in served : place[h] = Cardinality({g \in free : g <= h}) BY <1>8, <2>1
  <2> QED BY <1>1, <1>11, <2>2, <2>3 DEF pumpHelperQueue, Fetching
<1> QED BY <1>1, <1>10, <1>12, <1>13

(***************************************************************************)
(* What Pump makes of a queue and of runs that are in order is in order:   *)
(* each job is in the queue still or with a helper, and if one is in the   *)
(* queue then no helper is free.                                           *)
(***************************************************************************)
LEMMA PumpKeepsOrder ==
  ASSUME NEW jobs \in Seq(Job), NEW runs \in [Helpers -> Run], NEW active \in SUBSET Members,
         QueueInOrder(jobs, runs, active),
         \A h \in Helpers : runs[h].at = "idle" => runs[h].member = None
  PROVE  LET after == pumpHelperQueue(jobs, runs) IN
         /\ after.jobs \in Seq(Job) /\ after.runs \in [Helpers -> Run]
         /\ QueueInOrder(after.jobs, after.runs, active)
         /\ after.jobs = <<>> \/ \A h \in Helpers : after.runs[h].at # "idle"
         /\ \A h \in Helpers :
              \/ after.runs[h] = runs[h]
              \/ /\ runs[h].at = "idle"
                 /\ \E i \in DOMAIN jobs : after.runs[h] = Fetching(jobs[i])
         /\ \A i \in DOMAIN after.jobs : \E j \in DOMAIN jobs : after.jobs[i] = jobs[j]
<1>1. PICK free \in SUBSET Helpers, k \in 0..Len(jobs) :
      \E served \in SUBSET free : \E place \in Bijection(served, 1..k) :
        /\ free = {h \in Helpers : runs[h].at = "idle"}
        /\ pumpHelperQueue(jobs, runs).jobs = SubSeq(jobs, k + 1, Len(jobs))
        /\ pumpHelperQueue(jobs, runs).runs =
             [h \in Helpers |-> IF h \in served THEN Fetching(jobs[place[h]]) ELSE runs[h]]
        /\ k = Len(jobs) \/ served = free
  BY HandedOut
<1>. PICK served \in SUBSET free :
     \E place \in Bijection(served, 1..k) :
        /\ free = {h \in Helpers : runs[h].at = "idle"}
        /\ pumpHelperQueue(jobs, runs).jobs = SubSeq(jobs, k + 1, Len(jobs))
        /\ pumpHelperQueue(jobs, runs).runs =
             [h \in Helpers |-> IF h \in served THEN Fetching(jobs[place[h]]) ELSE runs[h]]
        /\ k = Len(jobs) \/ served = free
  BY <1>1
<1>2. PICK place \in Bijection(served, 1..k) :
        /\ free = {h \in Helpers : runs[h].at = "idle"}
        /\ pumpHelperQueue(jobs, runs).jobs = SubSeq(jobs, k + 1, Len(jobs))
        /\ pumpHelperQueue(jobs, runs).runs =
             [h \in Helpers |-> IF h \in served THEN Fetching(jobs[place[h]]) ELSE runs[h]]
        /\ k = Len(jobs) \/ served = free
  OBVIOUS
<1>3. PICK left : left = pumpHelperQueue(jobs, runs).jobs OBVIOUS
<1>4. PICK gone : gone = pumpHelperQueue(jobs, runs).runs OBVIOUS
<1>5. /\ left \in Seq(Job) /\ Len(left) = Len(jobs) - k
      /\ \A i \in 1..Len(left) : k + i \in 1..Len(jobs) /\ left[i] = jobs[k + i]
  BY <1>2, <1>3
<1>6. /\ \A h \in served : place[h] \in 1..k
      /\ \A g, h \in served : place[g] = place[h] => g = h
      /\ \A i \in 1..k : \E h \in served : place[h] = i
  BY DEF Bijection, Injection, Surjection, IsInjective
<1>7. \A i \in 1..Len(jobs) : jobs[i] \in Job OBVIOUS
<1>8. \A job \in Job : /\ Fetching(job) \in Run /\ Fetching(job).member = job.member
                       /\ Fetching(job).at = "fetch"
  BY DEF Fetching, Free, Job, Run
<1>9. \A h \in served : /\ place[h] \in 1..Len(jobs) /\ place[h] <= k
                        /\ gone[h] = Fetching(jobs[place[h]])
                        /\ gone[h] \in Run
                        /\ gone[h].member = jobs[place[h]].member /\ gone[h].at = "fetch"
  BY <1>2, <1>4, <1>6, <1>7, <1>8
<1>10. \A h \in Helpers \ served : gone[h] = runs[h] BY <1>2, <1>4
<1>11. gone \in [Helpers -> Run]
  <2>1. gone = [h \in Helpers |-> gone[h]] BY <1>2, <1>4
  <2>2. \A h \in Helpers : gone[h] \in Run BY <1>9, <1>10
  <2> QED BY <2>1, <2>2
<1>12. left = <<>> \/ \A h \in Helpers : gone[h].at # "idle"
  <2>1. CASE k = Len(jobs) BY <1>5, <2>1
  <2>2. CASE served = free BY <1>2, <1>9, <1>10, <2>2
  <2> QED BY <1>2, <2>1, <2>2
<1>13. DOMAIN left = 1..Len(left) /\ DOMAIN jobs = 1..Len(jobs) BY <1>5
<1>14. \A i \in DOMAIN left : \E j \in DOMAIN jobs : left[i] = jobs[j] BY <1>5, <1>13
<1>15. \A h \in Helpers :
         \/ gone[h] = runs[h]
         \/ /\ runs[h].at = "idle"
            /\ \E i \in DOMAIN jobs : gone[h] = Fetching(jobs[i])
  BY <1>2, <1>9, <1>10, <1>13
<1>16. QueueInOrder(left, gone, active)
  <2>0. \A i, j \in 1..Len(jobs) : jobs[i].member = jobs[j].member => i = j
    BY <1>13 DEF QueueInOrder
  <2>1. \A h \in Helpers : runs[h].member # None => h \notin served BY <1>2
  <2>2. \A i, j \in DOMAIN left : left[i].member = left[j].member => i = j
    <3> SUFFICES ASSUME NEW i \in DOMAIN left, NEW j \in DOMAIN left,
                        left[i].member = left[j].member
                 PROVE  i = j
      OBVIOUS
    <3>1. i \in 1..Len(left) /\ j \in 1..Len(left) BY <1>13
    <3>2. k + i \in 1..Len(jobs) /\ left[i] = jobs[k + i] BY <1>5, <3>1
    <3>3. k + j \in 1..Len(jobs) /\ left[j] = jobs[k + j] BY <1>5, <3>1
    <3>4. k + i = k + j BY <2>0, <3>2, <3>3
    <3> QED BY <3>1, <3>4
  <2>3. \A i \in DOMAIN left, h \in Helpers : left[i].member # gone[h].member
    <3> SUFFICES ASSUME NEW i \in DOMAIN left, NEW h \in Helpers,
                        left[i].member = gone[h].member
                 PROVE  FALSE
      OBVIOUS
    <3>1. k + i \in DOMAIN jobs /\ left[i] = jobs[k + i] BY <1>5, <1>13
    <3>2. h \in served BY <1>10, <3>1 DEF QueueInOrder
    <3>3. /\ place[h] \in 1..Len(jobs) /\ place[h] <= k
          /\ gone[h].member = jobs[place[h]].member
      BY <1>9, <3>2
    <3>4. k + i = place[h] BY <1>13, <2>0, <3>1, <3>3
    <3>5. i \in 1..Len(left) BY <1>13
    <3> QED BY <3>3, <3>4, <3>5
  <2>4. \A g, h \in Helpers : gone[g].member = gone[h].member /\ gone[g].member # None => g = h
    <3> SUFFICES ASSUME NEW g \in Helpers, NEW h \in Helpers,
                        gone[g].member = gone[h].member, gone[g].member # None
                 PROVE  g = h
      OBVIOUS
    <3>1. CASE g \in served /\ h \in served
      <4>1. place[g] = place[h] BY <1>9, <2>0, <3>1
      <4> QED BY <1>6, <3>1, <4>1
    <3>2. CASE g \notin served /\ h \notin served
      BY <1>10, <3>2 DEF QueueInOrder
    <3>3. CASE g \in served /\ h \notin served
      <4>1. gone[g].member = jobs[place[g]].member /\ place[g] \in DOMAIN jobs BY <1>9, <1>13, <3>3
      <4>2. gone[h] = runs[h] BY <1>10, <3>3
      <4>3. jobs[place[g]].member # runs[h].member BY <4>1 DEF QueueInOrder
      <4> QED BY <4>1, <4>2, <4>3
    <3>4. CASE g \notin served /\ h \in served
      <4>1. gone[h].member = jobs[place[h]].member /\ place[h] \in DOMAIN jobs BY <1>9, <1>13, <3>4
      <4>2. gone[g] = runs[g] BY <1>10, <3>4
      <4>3. jobs[place[h]].member # runs[g].member BY <4>1 DEF QueueInOrder
      <4> QED BY <4>1, <4>2, <4>3
    <3> QED BY <3>1, <3>2, <3>3, <3>4
  <2>5. \A i \in DOMAIN left : left[i].member \in active BY <1>14 DEF QueueInOrder
  <2>6. \A h \in Helpers : gone[h].member # None => gone[h].member \in active
    <3> SUFFICES ASSUME NEW h \in Helpers, gone[h].member # None
                 PROVE  gone[h].member \in active
      OBVIOUS
    <3>1. CASE h \in served
      <4>1. gone[h].member = jobs[place[h]].member /\ place[h] \in DOMAIN jobs BY <1>9, <1>13, <3>1
      <4> QED BY <4>1 DEF QueueInOrder
    <3>2. CASE h \notin served BY <1>10, <3>2 DEF QueueInOrder
    <3> QED BY <3>1, <3>2
  <2>7. \A m \in active : \/ \E i \in DOMAIN left : left[i].member = m
                          \/ \E h \in Helpers : gone[h].member = m
    <3> SUFFICES ASSUME NEW m \in active, \A h \in Helpers : gone[h].member # m
                 PROVE  \E i \in DOMAIN left : left[i].member = m
      OBVIOUS
    <3>1. CASE \E h \in Helpers : runs[h].member = m
      <4>1. PICK h \in Helpers : runs[h].member = m BY <3>1
      <4>2. m # None BY MembersAssumption
      <4> QED BY <1>10, <2>1, <4>1, <4>2
    <3>2. CASE \E i \in DOMAIN jobs : jobs[i].member = m
      <4>1. PICK i \in 1..Len(jobs) : jobs[i].member = m BY <1>13, <3>2
      <4>2. CASE i <= k
        <5>1. PICK h \in served : place[h] = i BY <1>6, <4>2
        <5> QED BY <1>9, <4>1, <5>1
      <4>3. CASE i > k
        <5>1. i - k \in 1..Len(left) /\ k + (i - k) = i BY <1>5, <4>3
        <5>2. left[i - k] = jobs[i] BY <1>5, <5>1
        <5> QED BY <1>13, <4>1, <5>1, <5>2
      <4> QED BY <4>2, <4>3
    <3> QED BY <3>1, <3>2 DEF QueueInOrder
  <2> QED BY <2>2, <2>3, <2>4, <2>5, <2>6, <2>7 DEF QueueInOrder
<1> QED BY <1>3, <1>4, <1>5, <1>11, <1>12, <1>14, <1>15, <1>16

-----------------------------------------------------------------------------
(***************************************************************************)
(* What a step may do to a room that a run is in, without the run being    *)
(* any less true: as long as the room is there and noted it stays noted,   *)
(* and the member stays in it and is not any less verified.                *)
(***************************************************************************)
RoomsGrow ==
  /\ created' \in Nat /\ created <= created'
  /\ \A r \in 1..created : owner'[r] = owner[r] /\ (r \in open' => r \in open)

NoteStays(m) ==
  m \in Untroubled' =>
    /\ m \in Untroubled
    /\ \A r \in 1..created : r \in open' /\ r = privateChannels[m] => r = privateChannels'[m]

MemberStays(m) ==
  m \in Untroubled' =>
    \A r \in 1..created :
      r \in open' /\ r = privateChannels[m] =>
        (verified[m] => verified'[m]) /\ (voice[m] = r => voice'[m] = r)

(***************************************************************************)
(* So what was true of a run stays true of it, ...                         *)
(***************************************************************************)
LEMMA RunStaysTrue ==
  ASSUME RoomTypes, RoomsGrow, NEW r \in Run, RunInOrder(r), RunIsTrue(r),
         r.member \in Members => NoteStays(r.member) /\ MemberStays(r.member)
  PROVE  RunInOrder(r)' /\ RunIsTrue(r)'
<1>1. \A q \in 1..created : q \in 1..created' BY DEF RoomsGrow, RoomTypes
<1>2. RunInOrder(r)' BY <1>1 DEF RunInOrder, RoomsGrow, RoomOf
<1>3. RunIsTrue(r)'
  <2> SUFFICES ASSUME r.member \in Untroubled', r.at # "cleanup"
               PROVE  RunIsTrue(r)'
    BY DEF RunIsTrue
  <2>1. r.member \in Members /\ r.member # None BY MembersAssumption DEF Untroubled
  <2>2. r.member \in Untroubled BY <2>1 DEF NoteStays
  <2>3. r.at \notin {"absent", "idle", "cleanup"} BY <2>1 DEF RunInOrder
  <2>4. r.room \in 1..created BY <2>3 DEF RunInOrder, RoomOf
  <2>5. CASE r.room \notin open'
    BY <2>2, <2>5 DEF RunIsTrue
  <2>6. CASE r.room \in open'
    <3>1. r.room \in open /\ r.room = privateChannels[r.member]
      BY <2>2, <2>4, <2>6 DEF RunIsTrue, RoomsGrow
    <3>2. r.room = privateChannels'[r.member] /\ (verified[r.member] => verified'[r.member])
          /\ (voice[r.member] = r.room => voice'[r.member] = r.room)
      BY <2>1, <2>4, <2>6, <3>1 DEF NoteStays, MemberStays
    <3> QED BY <2>2, <3>1, <3>2 DEF RunIsTrue
  <2> QED BY <2>5, <2>6
<1> QED BY <1>2, <1>3

(***************************************************************************)
(* ... and of a job that waits.                                            *)
(***************************************************************************)
LEMMA JobStaysTrue ==
  ASSUME RoomTypes, RoomsGrow, NEW job \in Job, JobIsTrue(job), NoteStays(job.member)
  PROVE  JobIsTrue(job)'
<1>1. \A q \in 1..created : q \in 1..created' BY DEF RoomsGrow, RoomTypes
<1> QED BY <1>1 DEF JobIsTrue, RoomOf, RoomsGrow, NoteStays

(***************************************************************************)
(* What is in the queue is a job, for a member.                            *)
(***************************************************************************)
LEMMA JobsAreJobs ==
  ASSUME NEW jobs \in Seq(Job)
  PROVE  /\ DOMAIN jobs = 1..Len(jobs) /\ Len(jobs) \in Nat
         /\ \A i \in DOMAIN jobs : jobs[i] \in Job /\ jobs[i].member \in Members
<1>1. DOMAIN jobs = 1..Len(jobs) /\ Len(jobs) \in Nat OBVIOUS
<1>2. \A i \in DOMAIN jobs : jobs[i] \in Job OBVIOUS
<1>3. \A job \in Job : job.member \in Members BY DEF Job
<1> QED BY <1>1, <1>2, <1>3

(***************************************************************************)
(* A step that leaves the queue alone, ...                                 *)
(***************************************************************************)
LEMMA QueueRests ==
  ASSUME QInv, RoomTypes, RoomsGrow, UNCHANGED queueVars,
         rounds' = "login" <=> rounds = "login",
         \A m \in Members : NoteStays(m),
         \A h \in Helpers : run[h].member \in Members => MemberStays(run[h].member)
  PROVE  QInv'
<1>1. UNCHANGED <<activeMembers, pendingOnboarding, run, early>> BY DEF queueVars
<1>2. \A h \in Helpers : run[h] \in Run BY DEF QInv
<1>3. \A h \in Helpers : RunInOrder(run[h])' /\ RunIsTrue(run[h])'
  <2> SUFFICES ASSUME NEW h \in Helpers PROVE RunInOrder(run[h])' /\ RunIsTrue(run[h])'
    OBVIOUS
  <2>1. PICK r \in Run : r = run[h] BY <1>2
  <2>2. RunInOrder(r)' /\ RunIsTrue(r)' BY <2>1, RunStaysTrue DEF QInv
  <2>3. run'[h] = r BY <1>1, <2>1
  <2> QED BY <2>2, <2>3
<1>4. \A i \in DOMAIN pendingOnboarding' : JobIsTrue(pendingOnboarding[i])'
  <2> SUFFICES ASSUME NEW i \in DOMAIN pendingOnboarding PROVE JobIsTrue(pendingOnboarding[i])'
    BY <1>1
  <2>1. PICK job \in Job : job = pendingOnboarding[i] BY JobsAreJobs DEF QInv
  <2>2. JobIsTrue(job)' BY <2>1, JobStaysTrue DEF QInv, Job
  <2> QED BY <1>1, <2>1, <2>2
<1>5. NobodyWaitsForAFreeHelper' BY <1>1 DEF QInv, NobodyWaitsForAFreeHelper
<1> QED BY <1>1, <1>3, <1>4, <1>5 DEF QInv, QueueInOrder

(***************************************************************************)
(* ... one that moves one run on, ...                                      *)
(***************************************************************************)
LEMMA OneRunMoves ==
  ASSUME QInv, RoomTypes, RoomsGrow, NEW h \in Helpers, NEW r \in Run,
         run' = [run EXCEPT ![h] = r], UNCHANGED <<activeMembers, pendingOnboarding, early>>,
         rounds' = "login" <=> rounds = "login",
         run[h].at \notin {"absent", "idle"}, r.at \notin {"absent", "idle"},
         r.member = run[h].member,
         RunInOrder(r)', RunIsTrue(r)',
         \A m \in Members : NoteStays(m),
         \A m \in Members \ {run[h].member} : MemberStays(m)
  PROVE  QInv'
<1>1. run' \in [Helpers -> Run] /\ run'[h] = r /\ \A g \in Helpers \ {h} : run'[g] = run[g]
  BY DEF QInv
<1>2. \A g \in Helpers : run'[g].member = run[g].member BY <1>1
<1>3. run[h].member # None BY DEF QInv, RunInOrder
<1>4. \A g \in Helpers : RunInOrder(run[g])' /\ RunIsTrue(run[g])'
  <2> SUFFICES ASSUME NEW g \in Helpers \ {h} PROVE RunInOrder(run[g])' /\ RunIsTrue(run[g])'
    BY <1>1
  <2>1. PICK q \in Run : q = run[g] BY DEF QInv
  <2>2. q.member # run[h].member BY <1>3, <2>1 DEF QInv, QueueInOrder
  <2>3. RunInOrder(q)' /\ RunIsTrue(q)' BY <2>1, <2>2, RunStaysTrue DEF QInv
  <2>4. run'[g] = q BY <1>1, <2>1
  <2> QED BY <2>3, <2>4
<1>5. \A i \in DOMAIN pendingOnboarding' : JobIsTrue(pendingOnboarding[i])'
  <2> SUFFICES ASSUME NEW i \in DOMAIN pendingOnboarding PROVE JobIsTrue(pendingOnboarding[i])'
    OBVIOUS
  <2>1. PICK job \in Job : job = pendingOnboarding[i] BY JobsAreJobs DEF QInv
  <2>2. JobIsTrue(job)' BY <2>1, JobStaysTrue DEF QInv, Job
  <2> QED BY <2>1, <2>2
<1>6. QueueInOrder(pendingOnboarding, run, activeMembers)'
  <2>1. QueueInOrder(pendingOnboarding, run, activeMembers) BY DEF QInv
  <2> QED BY <1>2, <2>1 DEF QueueInOrder
<1>7. NobodyWaitsForAFreeHelper'
  BY <1>1 DEF QInv, NobodyWaitsForAFreeHelper
<1>8. \A g \in Helpers : rounds' = "login" <=> run'[g].at = "absent"
  <2>1. rounds # "login" BY DEF QInv
  <2> QED BY <1>1, <2>1 DEF QInv
<1> QED BY <1>1, <1>4, <1>5, <1>6, <1>7, <1>8 DEF QInv

(***************************************************************************)
(* ... and one that ends in pumpHelperQueue.                               *)
(***************************************************************************)
LEMMA PumpKeeps ==
  ASSUME NEW jobs \in Seq(Job), NEW runs \in [Helpers -> Run], NEW active \in SUBSET Members,
         QueueInOrder(jobs, runs, active), Pump(jobs, runs), activeMembers' = active,
         \A h \in Helpers : rounds' = "login" <=> runs[h].at = "absent",
         \A h \in Helpers : RunInOrder(runs[h])' /\ RunIsTrue(runs[h])',
         \A i \in DOMAIN jobs : JobIsTrue(jobs[i])'
  PROVE  QInv'
<1>1. PICK left : left = pumpHelperQueue(jobs, runs).jobs OBVIOUS
<1>2. PICK gone : gone = pumpHelperQueue(jobs, runs).runs OBVIOUS
<1>3. pendingOnboarding' = left /\ run' = gone BY <1>1, <1>2 DEF Pump
<1>4. \A h \in Helpers : runs[h].at = "idle" => runs[h].member = None BY DEF RunInOrder
<1>5. /\ left \in Seq(Job) /\ gone \in [Helpers -> Run]
      /\ QueueInOrder(left, gone, active)
      /\ left = <<>> \/ \A h \in Helpers : gone[h].at # "idle"
      /\ \A h \in Helpers :
           \/ gone[h] = runs[h]
           \/ /\ runs[h].at = "idle"
              /\ \E i \in DOMAIN jobs : gone[h] = Fetching(jobs[i])
      /\ \A i \in DOMAIN left : \E j \in DOMAIN jobs : left[i] = jobs[j]
  BY <1>1, <1>2, <1>4, PumpKeepsOrder
<1>6. ASSUME NEW job \in Job, JobIsTrue(job)'
      PROVE  Fetching(job).at = "fetch" /\ RunInOrder(Fetching(job))' /\ RunIsTrue(Fetching(job))'
  <2>1. PICK r : r = Fetching(job) OBVIOUS
  <2>2. /\ r.at = "fetch" /\ r.member = job.member /\ r.room = job.room
        /\ ~r.away /\ ~r.enough /\ ~r.stopped /\ r.member # None
    BY <2>1, MembersAssumption DEF Fetching, Free, Job
  <2>3. RunInOrder(r)' BY <1>6, <2>2 DEF RunInOrder, JobIsTrue
  <2>4. RunIsTrue(r)' BY <1>6, <2>2 DEF RunIsTrue, JobIsTrue
  <2> QED BY <2>1, <2>2, <2>3, <2>4
<1>7. \A i \in DOMAIN jobs : jobs[i] \in Job BY JobsAreJobs
<1>8. ASSUME NEW h \in Helpers
      PROVE  /\ RunInOrder(gone[h])' /\ RunIsTrue(gone[h])'
             /\ gone[h].at = "absent" <=> runs[h].at = "absent"
  <2>1. CASE gone[h] = runs[h] BY <2>1
  <2>2. ASSUME runs[h].at = "idle", NEW i \in DOMAIN jobs, gone[h] = Fetching(jobs[i])
        PROVE  /\ RunInOrder(gone[h])' /\ RunIsTrue(gone[h])'
               /\ gone[h].at # "absent"
    <3>1. PICK job \in Job : job = jobs[i] BY <1>7, <2>2
    <3>2. JobIsTrue(job)' BY <2>2, <3>1
    <3>3. gone[h] = Fetching(job) BY <2>2, <3>1
    <3> QED BY <1>6, <3>2, <3>3
  <2> QED BY <1>5, <2>1, <2>2
<1>9. \A i \in DOMAIN left : JobIsTrue(left[i])'
  <2> SUFFICES ASSUME NEW i \in DOMAIN left PROVE JobIsTrue(left[i])' OBVIOUS
  <2>1. PICK j \in DOMAIN jobs : left[i] = jobs[j] BY <1>5
  <2> QED BY <2>1
<1>10. NobodyWaitsForAFreeHelper' BY <1>3, <1>5 DEF NobodyWaitsForAFreeHelper
<1> QED BY <1>3, <1>5, <1>8, <1>9, <1>10 DEF QInv

-----------------------------------------------------------------------------
(***************************************************************************)
(* The steps that only concern the rooms.                                  *)
(***************************************************************************)
LEMMA RoomFacts ==
  ASSUME RInv
  PROVE  /\ created \in Nat /\ created <= maxRooms /\ maxRooms \in Nat
         /\ owner \in Seq(Members) /\ Len(owner) = created
         /\ \A r \in 1..created : owner[r] \in Members
         /\ \A r \in open : r \in 1..created
         /\ \A r \in unchecked : r \in 1..created
<1>1. created \in Nat /\ created <= maxRooms /\ maxRooms \in Nat
      /\ owner \in Seq(Members) /\ Len(owner) = created
  BY BoundsAssumption DEF RInv, RoomTypes
<1>2. \A r \in 1..created : owner[r] \in Members BY <1>1
<1> QED BY <1>1, <1>2 DEF RInv, RoomTypes

(***************************************************************************)
(* Only a creation can give a member a second room.                        *)
(***************************************************************************)
LEMMA OneRoomStays ==
  ASSUME RInv, open' \subseteq open, owner' = owner, doubled \subseteq doubled'
  PROVE  \A m \in Members \ doubled' : OneRoom(m)'
BY DEF RInv, OneRoom

(***************************************************************************)
(* createPrivateChannel comes back: the room is noted for its member, and  *)
(* if they had one, noted or open, the bot has made them two.              *)
(***************************************************************************)
LEMMA ChannelCreatedKeeps ==
  ASSUME VInv, NEW call \in Call, ChannelCreated(call)
  PROVE  VInv'
<1>1. PICK m \in Members : m = call.member BY DEF Call
<1>2. PICK n : n = created + 1 OBVIOUS
<1>3. /\ n \in Nat /\ n \in 1..maxRooms /\ n \notin 1..created /\ 1..created \subseteq 1..n
      /\ created' = n /\ owner' = Append(owner, m) /\ open' = open \cup {n}
      /\ privateChannels' = [privateChannels EXCEPT ![m] = n]
      /\ call \in creating /\ creating' = creating \ {call}
      /\ doubled' = IF privateChannels[m] # 0 \/ \E r \in open : owner[r] = m
                    THEN doubled \cup {m} ELSE doubled
      /\ UNCHANGED <<inGuild, verified, voice, roundVars, queueVars, restarts, crossed>>
  BY <1>1, <1>2, RoomFacts DEF VInv, ChannelCreated
<1>4. /\ owner' \in Seq(Members) /\ Len(owner') = n /\ owner'[n] = m
      /\ \A r \in 1..created : owner'[r] = owner[r]
  BY <1>2, <1>3, RoomFacts DEF VInv
<1>5. /\ privateChannels' \in [Members -> 0..n] /\ privateChannels'[m] = n
      /\ \A q \in Members \ {m} : privateChannels'[q] = privateChannels[q]
  <2>1. privateChannels \in [Members -> 0..created] BY DEF VInv, RInv, RoomTypes
  <2>2. privateChannels \in [Members -> 0..n]
    <3>1. 0..created \subseteq 0..n BY <1>2, RoomFacts DEF VInv
    <3> QED BY <2>1, <3>1
  <2> QED BY <1>3, <2>1, <2>2
<1>6. RoomTypes'
  BY <1>3, <1>4, <1>5 DEF VInv, RInv, RoomTypes, roundVars
<1>7. RoomsGrow BY <1>2, <1>3, <1>4, RoomFacts DEF VInv, RoomsGrow
<1>8. /\ Untroubled' \subseteq Untroubled
      /\ m \in Untroubled' => privateChannels[m] = 0 /\ \A r \in open : owner[r] # m
  BY <1>3 DEF Untroubled
<1>9. \A q \in Members : NoteStays(q) /\ MemberStays(q)
  BY <1>3, <1>5, <1>8 DEF NoteStays, MemberStays
<1>10. \A r \in open : r \in 1..created /\ r # n BY <1>3, RoomFacts DEF VInv
<1>11. ASSUME NEW q \in Members PROVE MemberInOrder(q)'
  <2>1. MemberInOrder(q) BY DEF VInv, RInv
  <2>2. privateChannels[q] # 0 => privateChannels[q] \in 1..created
    BY DEF VInv, RInv, RoomTypes
  <2>3. CASE q = m BY <1>1, <1>3, <1>4, <1>5, <1>10, <2>1, <2>3 DEF MemberInOrder
  <2>4. CASE q # m BY <1>3, <1>4, <1>5, <1>10, <2>1, <2>2, <2>4 DEF MemberInOrder
  <2> QED BY <2>3, <2>4
<1>12. ASSUME NEW q \in Untroubled' PROVE RoomsAreTrue(q)'
  <2>1. RoomsAreTrue(q) /\ q \in Members BY <1>8 DEF VInv, RInv, Untroubled
  <2>2. \A r \in unchecked : r \in 1..created BY RoomFacts DEF VInv
  <2>3. UNCHANGED <<inGuild, verified, unchecked>> BY <1>3 DEF roundVars
  <2>4. CASE q = m
    <3>1. privateChannels'[m] \in open' BY <1>3, <1>5
    <3>2. \A r \in unchecked : owner'[r] = m => owner[r] = m BY <1>4, <2>2
    <3> QED BY <1>3, <2>1, <2>3, <2>4, <3>1, <3>2 DEF RoomsAreTrue, shouldOnboard
  <2>5. CASE q # m
    <3>1. \A r \in unchecked : owner'[r] = owner[r] BY <1>4, <2>2
    <3> QED BY <1>3, <1>5, <2>1, <2>3, <2>5, <3>1 DEF RoomsAreTrue, shouldOnboard
  <2> QED BY <2>4, <2>5
<1>13. ASSUME NEW q \in Members \ doubled' PROVE OneRoom(q)'
  <2>1. OneRoom(q) BY <1>3 DEF VInv, RInv
  <2>2. CASE q = m
    <3>1. \A r \in open : owner[r] # m BY <1>3, <2>2
    <3> QED BY <1>3, <1>4, <1>10, <2>2, <3>1 DEF OneRoom
  <2>3. CASE q # m
    <3>1. \A r \in open' : owner'[r] = q => r \in open /\ owner[r] = q
      BY <1>3, <1>4, <1>10, <2>3
    <3> QED BY <2>1, <3>1 DEF OneRoom
  <2> QED BY <2>2, <2>3
<1>14. QInv'
  BY <1>3, <1>7, <1>9, QueueRests DEF VInv, RInv, roundVars
<1> QED BY <1>6, <1>11, <1>12, <1>13, <1>14 DEF VInv, RInv

(***************************************************************************)
(* A step that changes none of the rooms, the notes and who is in them.    *)
(***************************************************************************)
LEMMA NothingStirs ==
  ASSUME VInv, UNCHANGED <<verified, voice, created, owner, open, privateChannels, doubled,
                           crossed>>
  PROVE  RoomsGrow /\ \A m \in Members : NoteStays(m) /\ MemberStays(m)
BY RoomFacts DEF VInv, RoomsGrow, NoteStays, MemberStays, Untroubled

(***************************************************************************)
(* It fails: there is a call less, and a round that waited for it may end. *)
(***************************************************************************)
LEMMA CreationFailsKeeps ==
  ASSUME VInv, NEW call \in Call, CreationFails(call)
  PROVE  VInv'
<1>1. /\ creating' \subseteq creating /\ unvisited' \subseteq unvisited
      /\ rounds' = "login" <=> rounds = "login"
      /\ UNCHANGED <<discordVars, privateChannels, unchecked, queueVars, history>>
  BY DEF CreationFails
<1>2. UNCHANGED <<inGuild, verified, voice, created, owner, open, privateChannels, doubled,
                  crossed, unchecked>>
  BY <1>1 DEF discordVars, history
<1>3. RoomTypes' BY <1>1, <1>2 DEF VInv, RInv, RoomTypes
<1>4. \A m \in Members : MemberInOrder(m)' BY <1>1, <1>2 DEF VInv, RInv, MemberInOrder
<1>5. \A m \in Untroubled' : RoomsAreTrue(m)'
  BY <1>2 DEF VInv, RInv, RoomsAreTrue, shouldOnboard, Untroubled
<1>6. QInv' BY <1>1, <1>2, NothingStirs, QueueRests DEF VInv, RInv
<1>7. \A m \in Members \ doubled' : OneRoom(m)' BY <1>2, OneRoomStays DEF VInv
<1> QED BY <1>3, <1>4, <1>5, <1>6, <1>7 DEF VInv, RInv

(***************************************************************************)
(* handleMemberAdd: a newcomer of whom nothing is noted unless they left   *)
(* at the wrong moment.                                                    *)
(***************************************************************************)
LEMMA MemberAddKeeps ==
  ASSUME VInv, NEW m \in Members, handleMemberAdd(m)
  PROVE  VInv'
<1>1. /\ ~inGuild[m] /\ inGuild' = [inGuild EXCEPT ![m] = TRUE]
      /\ creating' \subseteq creating \cup {[by |-> "memberAdd", member |-> m]}
      /\ UNCHANGED <<verified, voice, created, owner, open, privateChannels,
                     roundVars, queueVars, history>>
  BY DEF handleMemberAdd
<1>2. UNCHANGED <<verified, voice, created, owner, open, privateChannels, doubled,
                  crossed, unchecked, unvisited, rounds>>
  BY <1>1 DEF roundVars, history
<1>3. inGuild' \in [Members -> BOOLEAN] /\ inGuild'[m]
      /\ \A q \in Members \ {m} : inGuild'[q] = inGuild[q]
  BY <1>1 DEF VInv, RInv, RoomTypes
<1>4. creating' \subseteq Call BY <1>1 DEF VInv, RInv, RoomTypes, Call, Callers
<1>5. RoomTypes' BY <1>2, <1>3, <1>4 DEF VInv, RInv, RoomTypes
<1>6. ASSUME NEW q \in Members PROVE MemberInOrder(q)'
  <2>1. MemberInOrder(q) BY DEF VInv, RInv
  <2>2. CASE q = m BY <1>2, <1>3, <2>1, <2>2 DEF MemberInOrder
  <2>3. CASE q # m BY <1>1, <1>2, <1>3, <2>1, <2>3 DEF MemberInOrder
  <2> QED BY <2>2, <2>3
<1>7. ASSUME NEW q \in Untroubled' PROVE RoomsAreTrue(q)'
  <2>1. RoomsAreTrue(q) /\ MemberInOrder(q) /\ q \in Members /\ q \notin crossed
    BY <1>2 DEF VInv, RInv, Untroubled
  <2>2. CASE q = m
    BY <1>1, <1>2, <2>1, <2>2 DEF RoomsAreTrue, MemberInOrder
  <2>3. CASE q # m
    BY <1>2, <1>3, <2>1, <2>3 DEF RoomsAreTrue, shouldOnboard
  <2> QED BY <2>2, <2>3
<1>8. QInv' BY <1>1, <1>2, NothingStirs, QueueRests DEF VInv, RInv
<1>9. \A q \in Members \ doubled' : OneRoom(q)' BY <1>2, OneRoomStays DEF VInv
<1> QED BY <1>5, <1>6, <1>7, <1>8, <1>9 DEF VInv, RInv

(***************************************************************************)
(* A round asks for a room for a member who has none.                      *)
(***************************************************************************)
LEMMA VisitMemberKeeps ==
  ASSUME VInv, NEW m \in Members, VisitMember(m)
  PROVE  VInv'
<1>1. /\ unvisited' \subseteq unvisited
      /\ creating' \subseteq creating \cup {[by |-> "reconcile", member |-> m]}
      /\ creating' = creating \/ inGuild[m]
      /\ UNCHANGED <<discordVars, privateChannels, rounds, unchecked, queueVars, history>>
  BY DEF VisitMember, WantsRoom, shouldOnboard
<1>2. UNCHANGED <<inGuild, verified, voice, created, owner, open, privateChannels, doubled,
                  crossed, unchecked, rounds>>
  BY <1>1 DEF discordVars, history
<1>3. creating' \subseteq Call BY <1>1 DEF VInv, RInv, RoomTypes, Call, Callers
<1>4. RoomTypes' BY <1>1, <1>2, <1>3 DEF VInv, RInv, RoomTypes
<1>5. ASSUME NEW q \in Members PROVE MemberInOrder(q)'
  BY <1>1, <1>2 DEF VInv, RInv, MemberInOrder
<1>6. \A q \in Untroubled' : RoomsAreTrue(q)'
  BY <1>2 DEF VInv, RInv, RoomsAreTrue, shouldOnboard, Untroubled
<1>7. QInv' BY <1>1, <1>2, NothingStirs, QueueRests DEF VInv, RInv
<1>8. \A q \in Members \ doubled' : OneRoom(q)' BY <1>2, OneRoomStays DEF VInv
<1> QED BY <1>4, <1>5, <1>6, <1>7, <1>8 DEF VInv, RInv

(***************************************************************************)
(* A part of a round: the rooms that are noted are needed, and the room    *)
(* that is deleted is not.                                                 *)
(***************************************************************************)
LEMMA RoomsChecked ==
  ASSUME VInv, NEW todo \in SUBSET (1..created), CheckRooms(todo)
  PROVE  \E seen, removed, gone \in SUBSET todo :
           /\ \A r \in seen : shouldOnboard(owner[r]) /\ r \notin removed
           /\ \A r \in removed : ~shouldOnboard(owner[r])
           /\ gone \subseteq removed
           /\ unchecked' = todo \ (seen \cup removed)
           /\ open' = open \ gone
           /\ voice' = [m \in Members |-> IF voice[m] \in gone THEN 0 ELSE voice[m]]
           /\ privateChannels' \in [Members -> 0..created]
           /\ \A m \in Members :
                \/ /\ privateChannels'[m] = privateChannels[m]
                   /\ \A r \in seen : owner[r] # m
                \/ privateChannels'[m] \in seen /\ owner[privateChannels'[m]] = m
           /\ unvisited' \subseteq Members
<1> DEFINE doomed == {r \in todo : Useless(r)}
           next == CHOOSE r \in doomed : \A q \in doomed : r <= q
           seen == IF doomed = {} THEN todo ELSE {r \in todo : r < next}
           removed == IF doomed = {} THEN {} ELSE {next}
           of(m) == {r \in seen : owner[r] = m}
<1>1. created \in Nat BY RoomFacts DEF VInv
<1>2. doomed # {} => next \in doomed /\ \A q \in doomed : next <= q
  <2> SUFFICES ASSUME doomed # {} PROVE \E r \in doomed : \A q \in doomed : r <= q
    OBVIOUS
  <2>1. doomed \in SUBSET (1..created) OBVIOUS
  <2> HIDE DEF doomed
  <2> QED BY <1>1, <2>1, FirstAndLast
<1>3. seen \in SUBSET todo /\ removed \in SUBSET todo
  BY <1>2
<1>4. \A r \in seen : r \notin doomed /\ r \notin removed
  <2> SUFFICES ASSUME NEW r \in seen, doomed # {} PROVE r \notin doomed /\ r \notin removed
    OBVIOUS
  <2>1. r < next /\ r \in 1..created /\ next \in 1..created BY <1>2
  <2> HIDE DEF doomed, next
  <2> QED BY <1>1, <1>2, <2>1
<1>5. \A r \in seen : shouldOnboard(owner[r]) BY <1>3, <1>4 DEF Useless
<1>6. \A r \in removed : ~shouldOnboard(owner[r]) BY <1>2 DEF Useless
<1>7. \A m : of(m) # {} => \E r \in of(m) : \A q \in of(m) : q <= r
  <2> SUFFICES ASSUME NEW m, of(m) # {} PROVE \E r \in of(m) : \A q \in of(m) : q <= r
    OBVIOUS
  <2>1. of(m) \in SUBSET (1..created) BY <1>3
  <2> HIDE DEF of
  <2> QED BY <1>1, <2>1, FirstAndLast
<1>8. /\ privateChannels' =
           [m \in Members |-> IF of(m) = {} THEN privateChannels[m]
                              ELSE CHOOSE r \in of(m) : \A q \in of(m) : q <= r]
      /\ unchecked' = todo \ (seen \cup removed)
      /\ unvisited' = IF unchecked' = {} THEN Members ELSE {}
      /\ \E gone \in {removed, {}} :
           /\ open' = open \ gone
           /\ voice' = [m \in Members |-> IF voice[m] \in gone THEN 0 ELSE voice[m]]
  BY DEF CheckRooms
<1>9. ASSUME NEW m \in Members
      PROVE  /\ privateChannels'[m] \in 0..created
             /\ \/ /\ privateChannels'[m] = privateChannels[m]
                   /\ \A r \in seen : owner[r] # m
                \/ privateChannels'[m] \in seen /\ owner[privateChannels'[m]] = m
  <2>1. CASE of(m) = {}
    <3>1. \A r \in seen : owner[r] # m BY <2>1
    <3>2. privateChannels'[m] = privateChannels[m] BY <1>8, <2>1
    <3> QED BY <3>1, <3>2 DEF VInv, RInv, RoomTypes
  <2>2. CASE of(m) # {}
    <3>1. privateChannels'[m] = CHOOSE r \in of(m) : \A q \in of(m) : q <= r
      BY <1>8, <2>2
    <3>2. privateChannels'[m] \in of(m)
      <4> HIDE DEF of
      <4> QED BY <1>7, <2>2, <3>1
    <3>3. privateChannels'[m] \in seen /\ owner[privateChannels'[m]] = m BY <3>2
    <3>4. privateChannels'[m] \in 1..created
      <4>1. seen \subseteq 1..created BY <1>3
      <4> HIDE DEF seen
      <4> QED BY <3>3, <4>1
    <3>5. privateChannels'[m] \in 0..created
      <4> HIDE DEF of
      <4> QED BY <1>1, <3>4
    <3> HIDE DEF of, seen
    <3> QED BY <3>3, <3>5
  <2> QED BY <2>1, <2>2
<1>10. privateChannels' \in [Members -> 0..created]
  <2>1. privateChannels' = [m \in Members |-> privateChannels'[m]] BY <1>8
  <2> QED BY <1>9, <2>1
<1> HIDE DEF seen, removed
<1>11. PICK gone \in {removed, {}} :
         /\ open' = open \ gone
         /\ voice' = [m \in Members |-> IF voice[m] \in gone THEN 0 ELSE voice[m]]
  BY <1>8
<1>12. gone \in SUBSET todo /\ gone \subseteq removed BY <1>3
<1>13. unvisited' \subseteq Members BY <1>8
<1>14. PICK A \in SUBSET todo, B \in SUBSET todo, C \in SUBSET todo :
         A = seen /\ B = removed /\ C = gone
  BY <1>3, <1>12
<1>15. /\ \A r \in A : shouldOnboard(owner[r]) /\ r \notin B
       /\ \A r \in B : ~shouldOnboard(owner[r])
       /\ C \subseteq B
  BY <1>4, <1>5, <1>6, <1>12, <1>14
<1>16. /\ unchecked' = todo \ (A \cup B)
       /\ open' = open \ C
       /\ voice' = [m \in Members |-> IF voice[m] \in C THEN 0 ELSE voice[m]]
  BY <1>8, <1>11, <1>14
<1>17. \A m \in Members :
         \/ /\ privateChannels'[m] = privateChannels[m]
            /\ \A r \in A : owner[r] # m
         \/ privateChannels'[m] \in A /\ owner[privateChannels'[m]] = m
  BY <1>9, <1>14
<1> HIDE DEF doomed, next, of
<1> QED BY <1>10, <1>13, <1>15, <1>16, <1>17

(***************************************************************************)
(* So a round notes, of a member with one room, the room already noted,    *)
(* and deletes only the rooms of those who need none.                      *)
(***************************************************************************)
LEMMA CheckRoomsKeeps ==
  ASSUME VInv, NEW todo \in SUBSET (1..created), CheckRooms(todo),
         \A m \in Untroubled : \A r \in todo : owner[r] = m /\ ~verified[m] => r \in open,
         rounds' = "login" <=> rounds = "login"
  PROVE  VInv'
<1>1. PICK seen \in SUBSET todo, removed \in SUBSET todo, gone \in SUBSET todo :
           /\ \A r \in seen : shouldOnboard(owner[r]) /\ r \notin removed
           /\ \A r \in removed : ~shouldOnboard(owner[r])
           /\ gone \subseteq removed
           /\ unchecked' = todo \ (seen \cup removed)
           /\ open' = open \ gone
           /\ voice' = [m \in Members |-> IF voice[m] \in gone THEN 0 ELSE voice[m]]
           /\ privateChannels' \in [Members -> 0..created]
           /\ \A m \in Members :
                \/ /\ privateChannels'[m] = privateChannels[m]
                   /\ \A r \in seen : owner[r] # m
                \/ privateChannels'[m] \in seen /\ owner[privateChannels'[m]] = m
           /\ unvisited' \subseteq Members
  BY RoomsChecked
<1>2. UNCHANGED <<inGuild, verified, created, owner, creating, queueVars, doubled, crossed>>
  BY DEF CheckRooms, history
<1>3. /\ voice' \in [Members -> Nat]
      /\ \A m \in Members : voice'[m] = IF voice[m] \in gone THEN 0 ELSE voice[m]
  BY <1>1 DEF VInv, RInv, RoomTypes
<1>4. RoomTypes' BY <1>1, <1>2, <1>3 DEF VInv, RInv, RoomTypes
<1>5. RoomsGrow BY <1>1, <1>2, RoomFacts DEF VInv, RoomsGrow
<1>6. Untroubled' = Untroubled BY <1>2 DEF Untroubled
<1>7. ASSUME NEW m \in Untroubled, NEW r \in seen, owner[r] = m
      PROVE  r \in open /\ r \in open' /\ shouldOnboard(m)
  <2>1. shouldOnboard(m) /\ r \notin removed BY <1>1, <1>7
  <2>2. r \in open BY <1>7, <2>1 DEF shouldOnboard
  <2> QED BY <1>1, <2>1, <2>2
<1>8. ASSUME NEW m \in Members PROVE NoteStays(m) /\ MemberStays(m)
  <2>1. MemberStays(m)
    BY <1>1, <1>2, <1>3 DEF MemberStays
  <2>2. ASSUME m \in Untroubled, NEW r \in 1..created, r \in open', r = privateChannels[m]
        PROVE  r = privateChannels'[m]
    <3>1. CASE privateChannels'[m] = privateChannels[m] BY <2>2, <3>1
    <3>2. CASE privateChannels'[m] \in seen /\ owner[privateChannels'[m]] = m
      <4>1. privateChannels'[m] \in open BY <1>7, <2>2, <3>2
      <4>2. r \in open /\ owner[r] = m
        BY <1>1, <2>2, RoomFacts DEF VInv, RInv, MemberInOrder
      <4>3. OneRoom(m) BY <2>2 DEF VInv, RInv, Untroubled
      <4> QED BY <2>2, <3>2, <4>1, <4>2, <4>3 DEF OneRoom
    <3> QED BY <1>1, <3>1, <3>2
  <2> QED BY <1>6, <2>1, <2>2 DEF NoteStays
<1>9. ASSUME NEW m \in Members PROVE MemberInOrder(m)'
  <2>1. MemberInOrder(m) BY DEF VInv, RInv
  <2>2. voice'[m] # 0 => voice'[m] \in open' /\ owner'[voice'[m]] = m
    BY <1>1, <1>2, <1>3, <2>1 DEF MemberInOrder
  <2>3. CASE privateChannels'[m] = privateChannels[m]
    BY <1>2, <2>1, <2>2, <2>3 DEF MemberInOrder
  <2>4. CASE privateChannels'[m] \in seen /\ owner[privateChannels'[m]] = m
    <3>1. inGuild[m] BY <1>1, <2>4 DEF shouldOnboard
    <3> QED BY <1>2, <2>1, <2>2, <2>4, <3>1 DEF MemberInOrder
  <2> QED BY <1>1, <2>3, <2>4
<1>10. ASSUME NEW m \in Untroubled PROVE RoomsAreTrue(m)'
  <2>1. RoomsAreTrue(m) /\ m \in Members BY DEF VInv, RInv, Untroubled
  <2>2. shouldOnboard(m)' /\ privateChannels'[m] # 0 => privateChannels'[m] \in open'
    <3> SUFFICES ASSUME shouldOnboard(m)', privateChannels'[m] # 0
                 PROVE  privateChannels'[m] \in open'
      OBVIOUS
    <3>1. shouldOnboard(m) BY <1>2 DEF shouldOnboard
    <3>2. CASE privateChannels'[m] = privateChannels[m]
      <4>1. privateChannels[m] \in open /\ owner[privateChannels[m]] = m
        BY <2>1, <3>1, <3>2 DEF RoomsAreTrue, VInv, RInv, MemberInOrder
      <4> QED BY <1>1, <3>1, <3>2, <4>1
    <3>3. CASE privateChannels'[m] \in seen /\ owner[privateChannels'[m]] = m
      BY <1>7, <3>3
    <3> QED BY <1>1, <2>1, <3>2, <3>3
  <2>3. \A r \in unchecked' : owner'[r] = m /\ ~verified'[m] => r \in open'
    BY <1>1, <1>2
  <2> QED BY <2>2, <2>3 DEF RoomsAreTrue
<1>11. QInv' BY <1>2, <1>5, <1>8, QueueRests DEF VInv, RInv
<1>12. \A m \in Members \ doubled' : OneRoom(m)' BY <1>1, <1>2, OneRoomStays DEF VInv
<1> QED BY <1>4, <1>6, <1>9, <1>10, <1>11, <1>12 DEF VInv, RInv

(***************************************************************************)
(* Every step of a round: its start, the rooms, the members and its end.   *)
(***************************************************************************)
LEMMA ReconcileKeeps ==
  ASSUME VInv, Reconcile
  PROVE  VInv'
<1>1. CASE RoundStarts
  <2>1. open \in SUBSET (1..created) BY DEF VInv, RInv, RoomTypes
  <2>2. CheckRooms(open) /\ (rounds' = "login" <=> rounds = "login") BY <1>1 DEF RoundStarts
  <2> QED BY <2>1, <2>2, CheckRoomsKeeps
<1>2. CASE RoundGoesOn
  <2>1. unchecked \in SUBSET (1..created) BY DEF VInv, RInv, RoomTypes
  <2>2. CheckRooms(unchecked) /\ rounds' = rounds BY <1>2 DEF RoundGoesOn
  <2>3. \A m \in Untroubled : \A r \in unchecked : owner[r] = m /\ ~verified[m] => r \in open
    BY DEF VInv, RInv, RoomsAreTrue
  <2> QED BY <2>1, <2>2, <2>3, CheckRoomsKeeps
<1>3. CASE FirstRoundEnds
  <2>1. /\ rounds = "first" /\ rounds' = "timer"
        /\ UNCHANGED <<discordVars, privateChannels, creating, unchecked, unvisited,
                       queueVars, history>>
    BY <1>3 DEF FirstRoundEnds
  <2>2. UNCHANGED <<inGuild, verified, voice, created, owner, open, privateChannels, doubled,
                    crossed, unchecked, creating, unvisited>>
    BY <2>1 DEF discordVars, history
  <2>3. RoomTypes' BY <2>2 DEF VInv, RInv, RoomTypes
  <2>4. \A m \in Members : MemberInOrder(m)' BY <2>2 DEF VInv, RInv, MemberInOrder
  <2>5. \A m \in Untroubled' : RoomsAreTrue(m)'
    BY <2>2 DEF VInv, RInv, RoomsAreTrue, shouldOnboard, Untroubled
  <2>6. QInv' BY <2>1, <2>2, NothingStirs, QueueRests DEF VInv, RInv
  <2>7. \A m \in Members \ doubled' : OneRoom(m)' BY <2>2, OneRoomStays DEF VInv
  <2> QED BY <2>3, <2>4, <2>5, <2>6, <2>7 DEF VInv, RInv
<1>4. ASSUME NEW m \in Members, VisitMember(m) PROVE VInv' BY <1>4, VisitMemberKeeps
<1> QED BY <1>1, <1>2, <1>3, <1>4 DEF Reconcile


-----------------------------------------------------------------------------
(***************************************************************************)
(* The member's own comings and goings.                                    *)
(***************************************************************************)
LEMMA Leaving ==
  ASSUME NEW h \in Helpers, run[h] \in Run, NEW r \in {run[h], Stopped(h)}
  PROVE  /\ Left(h, r) \in Run
         /\ Left(h, r).at = run[h].at /\ Left(h, r).member = run[h].member
         /\ Left(h, r).room = run[h].room /\ Left(h, r).enough = run[h].enough
         /\ run[h].at \notin {"start", "playing"} => Left(h, r) = run[h]
         /\ run[h].stopped => Left(h, r).stopped
         /\ run[h].at \in {"start", "playing"} /\ r = Stopped(h) => Left(h, r).stopped
         /\ run[h].enough => Left(h, r).away = run[h].away
         /\ run[h].at \in {"start", "playing"} /\ ~run[h].enough => Left(h, r).away
<1>1. PICK q \in Run : q = run[h] OBVIOUS
<1>2. PICK p : p = Stopped(h) OBVIOUS
<1>3. p = IF q.at \in {"start", "playing"} THEN [q EXCEPT !.stopped = TRUE] ELSE q
  BY <1>1, <1>2 DEF Stopped
<1>4. /\ p \in Run /\ p.at = q.at /\ p.member = q.member /\ p.room = q.room
      /\ p.enough = q.enough /\ p.away = q.away
      /\ p.stopped = (q.stopped \/ q.at \in {"start", "playing"})
      /\ q.at \notin {"start", "playing"} => p = q
  BY <1>3 DEF Run
<1>5. r \in Run /\ (r = q \/ r = p) BY <1>1, <1>2, <1>4
<1>6. PICK l : l = Left(h, r) OBVIOUS
<1>7. l = IF q.at \in {"start", "playing"} /\ ~q.enough THEN [r EXCEPT !.away = TRUE] ELSE r
  BY <1>1, <1>6 DEF Left
<1>8. /\ l \in Run /\ l.at = r.at /\ l.member = r.member /\ l.room = r.room
      /\ l.enough = r.enough /\ l.stopped = r.stopped
      /\ q.at \in {"start", "playing"} /\ ~q.enough => l.away
      /\ q.at \notin {"start", "playing"} => l = r
      /\ q.enough => l = r
  BY <1>5, <1>7 DEF Run
<1>9. /\ l \in Run /\ l.at = q.at /\ l.member = q.member /\ l.room = q.room
      /\ l.enough = q.enough
      /\ q.at \notin {"start", "playing"} => l = q
      /\ q.stopped => l.stopped
      /\ q.at \in {"start", "playing"} /\ r = p => l.stopped
      /\ q.enough => l.away = q.away
      /\ q.at \in {"start", "playing"} /\ ~q.enough => l.away
  <2>1. /\ l \in Run /\ l.at = q.at /\ l.member = q.member /\ l.room = q.room
        /\ l.enough = q.enough
    BY <1>4, <1>5, <1>8
  <2>2. q.at \notin {"start", "playing"} => l = q BY <1>4, <1>5, <1>8
  <2>3. q.stopped => l.stopped BY <1>4, <1>5, <1>8
  <2>4. q.at \in {"start", "playing"} /\ r = p => l.stopped BY <1>4, <1>8
  <2>5. q.enough => l.away = q.away BY <1>4, <1>5, <1>8
  <2> QED BY <1>8, <2>1, <2>2, <2>3, <2>4, <2>5
<1> QED BY <1>1, <1>2, <1>6, <1>9

(***************************************************************************)
(* An event of one member concerns the run that plays to them, if any.     *)
(***************************************************************************)
LEMMA OneMemberMoves ==
  ASSUME QInv, RoomTypes, RoomsGrow, NEW m \in Members,
         run' \in [Helpers -> Run],
         \A h \in Helpers : run[h].member # m => run'[h] = run[h],
         \A h \in Helpers : run[h].member = m =>
           /\ run'[h].member = m /\ run'[h].at = run[h].at
           /\ RunInOrder(run[h])' /\ RunIsTrue(run[h])',
         UNCHANGED <<activeMembers, pendingOnboarding, early, rounds>>,
         \A q \in Members : NoteStays(q),
         \A q \in Members \ {m} : MemberStays(q)
  PROVE  QInv'
<1>1. m # None BY MembersAssumption
<1>2. CASE \A h \in Helpers : run[h].member # m
  <2>1. run' = run BY <1>2 DEF QInv
  <2>2. UNCHANGED queueVars BY <2>1 DEF queueVars
  <2>3. \A h \in Helpers : run[h].member \in Members => MemberStays(run[h].member)
    BY <1>2
  <2> QED BY <2>2, <2>3, QueueRests
<1>3. ASSUME NEW h \in Helpers, run[h].member = m PROVE QInv'
  <2>1. PICK r \in Run : r = run'[h] OBVIOUS
  <2>2. \A g \in Helpers \ {h} : run'[g] = run[g]
    BY <1>1, <1>3 DEF QInv, QueueInOrder
  <2>3. run' = [run EXCEPT ![h] = r] BY <2>1, <2>2 DEF QInv
  <2>4. run[h].at \notin {"absent", "idle"} /\ r.at \notin {"absent", "idle"}
        /\ r.member = run[h].member
    BY <1>1, <1>3, <2>1 DEF QInv, RunInOrder
  <2>5. RunInOrder(r)' /\ RunIsTrue(r)' BY <1>3, <2>1
  <2>6. \A q \in Members \ {run[h].member} : MemberStays(q) BY <1>3
  <2> QED BY <2>3, <2>4, <2>5, <2>6, OneRunMoves
<1> QED BY <1>2, <1>3

(***************************************************************************)
(* handleMemberRemove: the room that was noted for the member is deleted,  *)
(* so whatever a run of theirs waits for, its room is no more.             *)
(***************************************************************************)
LEMMA MemberRemoveKeeps ==
  ASSUME VInv, NEW m \in Members, handleMemberRemove(m)
  PROVE  VInv'
<1>1. /\ inGuild' = [inGuild EXCEPT ![m] = FALSE]
      /\ verified' = [verified EXCEPT ![m] = FALSE]
      /\ voice' = [voice EXCEPT ![m] = 0]
      /\ open' = open \ {privateChannels[m]}
      /\ privateChannels' = [privateChannels EXCEPT ![m] = 0]
      /\ crossed \subseteq crossed'
      /\ m \notin crossed' => /\ \A call \in creating : call.member # m
                              /\ \A r \in unchecked : owner[r] # m
      /\ \E heard \in {TRUE, FALSE} :
           run' = [h \in Helpers |->
                     IF run[h].member = m /\ voice[m] # 0
                     THEN Left(h, IF heard THEN Stopped(h) ELSE run[h])
                     ELSE run[h]]
      /\ UNCHANGED <<created, owner, creating, roundVars, activeMembers,
                     pendingOnboarding, early, restarts, doubled>>
  BY DEF handleMemberRemove, Forgotten
<1>2. /\ inGuild' \in [Members -> BOOLEAN] /\ ~inGuild'[m]
      /\ verified' \in [Members -> BOOLEAN] /\ ~verified'[m]
      /\ voice' \in [Members -> Nat] /\ voice'[m] = 0
      /\ privateChannels' \in [Members -> 0..created] /\ privateChannels'[m] = 0
      /\ \A q \in Members \ {m} : /\ inGuild'[q] = inGuild[q] /\ verified'[q] = verified[q]
                                  /\ voice'[q] = voice[q]
                                  /\ privateChannels'[q] = privateChannels[q]
  <2>1. 0 \in 0..created BY RoomFacts DEF VInv
  <2> QED BY <1>1, <2>1 DEF VInv, RInv, RoomTypes
<1>3. UNCHANGED <<created, owner, creating, unchecked, unvisited, rounds>>
  BY <1>1 DEF roundVars
<1>4. RoomTypes' BY <1>1, <1>2, <1>3 DEF VInv, RInv, RoomTypes
<1>5. Untroubled' \subseteq Untroubled BY <1>1 DEF Untroubled
<1>6. RoomsGrow BY <1>1, <1>3, RoomFacts DEF VInv, RoomsGrow
<1>7. ASSUME NEW q \in Members PROVE NoteStays(q) /\ MemberStays(q)
  <2>1. CASE q = m BY <1>1, <1>5, <2>1 DEF NoteStays, MemberStays
  <2>2. CASE q # m BY <1>2, <1>5, <2>2 DEF NoteStays, MemberStays
  <2> QED BY <2>1, <2>2
<1>8. privateChannels[m] # 0 => owner[privateChannels[m]] = m
  BY DEF VInv, RInv, MemberInOrder
<1>9. ASSUME NEW q \in Members PROVE MemberInOrder(q)'
  <2>1. MemberInOrder(q) BY DEF VInv, RInv
  <2>2. CASE q = m BY <1>1, <1>2, <1>3, <2>2 DEF MemberInOrder
  <2>3. CASE q # m BY <1>1, <1>2, <1>3, <1>8, <2>1, <2>3 DEF MemberInOrder
  <2> QED BY <2>2, <2>3
<1>10. \A r \in unchecked : r # 0 BY RoomFacts DEF VInv
<1>11. ASSUME NEW q \in Untroubled' PROVE RoomsAreTrue(q)'
  <2>1. RoomsAreTrue(q) /\ MemberInOrder(q) /\ q \in Members
    BY <1>5 DEF VInv, RInv, Untroubled
  <2>2. CASE q = m
    <3>1. m \notin crossed' BY <2>2 DEF Untroubled
    <3> QED BY <1>1, <1>2, <1>3, <2>1, <2>2, <3>1 DEF RoomsAreTrue, shouldOnboard
  <2>3. CASE q # m
    <3>1. \A r \in open : owner[r] = q /\ r # 0 => r \in open' BY <1>1, <1>8, <2>3
    <3>2. shouldOnboard(q)' /\ privateChannels'[q] # 0 => privateChannels'[q] \in open'
      BY <1>2, <2>1, <2>3, <3>1 DEF RoomsAreTrue, MemberInOrder, shouldOnboard
    <3>3. \A r \in unchecked' : owner'[r] = q /\ ~verified'[q] => r \in open'
      BY <1>2, <1>3, <1>10, <2>1, <2>3, <3>1 DEF RoomsAreTrue
    <3> QED BY <3>2, <3>3 DEF RoomsAreTrue
  <2> QED BY <2>2, <2>3
<1>12. PICK heard \in {TRUE, FALSE} :
         run' = [h \in Helpers |->
                   IF run[h].member = m /\ voice[m] # 0
                   THEN Left(h, IF heard THEN Stopped(h) ELSE run[h])
                   ELSE run[h]]
  BY <1>1
<1>13. ASSUME NEW h \in Helpers
       PROVE  /\ run'[h] \in Run
              /\ run'[h].at = run[h].at /\ run'[h].member = run[h].member
              /\ run'[h].room = run[h].room /\ run'[h].enough = run[h].enough
              /\ run[h].at \notin {"start", "playing"} => run'[h] = run[h]
              /\ run[h].member # m => run'[h] = run[h]
  <2>1. run[h] \in Run BY DEF VInv, QInv
  <2>2. PICK r \in {run[h], Stopped(h)} : r = IF heard THEN Stopped(h) ELSE run[h]
    OBVIOUS
  <2>3. run'[h] = IF run[h].member = m /\ voice[m] # 0 THEN Left(h, r) ELSE run[h]
    BY <1>12, <2>2
  <2> QED BY <2>1, <2>3, Leaving
<1>14. run' \in [Helpers -> Run]
  <2>1. run' = [h \in Helpers |-> run'[h]] BY <1>12
  <2> QED BY <1>13, <2>1
<1>15. ASSUME NEW h \in Helpers, run[h].member = m
       PROVE  RunInOrder(run[h])' /\ RunIsTrue(run[h])'
  <2>1. PICK r \in Run : r = run[h] BY DEF VInv, QInv
  <2>2. PICK l \in Run : l = run'[h] BY <1>13
  <2>3. /\ l.at = r.at /\ l.member = m /\ r.member = m /\ l.room = r.room /\ l.enough = r.enough
        /\ r.at \notin {"start", "playing"} => l = r
    BY <1>13, <1>15, <2>1, <2>2
  <2>4. RunInOrder(r) /\ RunIsTrue(r) BY <2>1 DEF VInv, QInv
  <2>5. RunInOrder(r)' /\ RunIsTrue(r)'
    BY <1>6, <1>7, <2>4, RunStaysTrue DEF VInv, RInv
  <2>6. RunInOrder(l)' BY <2>3, <2>5 DEF RunInOrder
  <2>7. m \in Untroubled' /\ r.at # "cleanup" => r.room \notin open'
    BY <1>1, <1>5, <2>3, <2>4 DEF RunIsTrue
  <2>8. RunIsTrue(l)'
    BY <2>3, <2>5, <2>7 DEF RunIsTrue
  <2> QED BY <2>2, <2>6, <2>8
<1>16. UNCHANGED <<activeMembers, pendingOnboarding, early, rounds>>
  BY <1>1, <1>3
<1>17. QInv'
  BY <1>6, <1>7, <1>13, <1>14, <1>15, <1>16, OneMemberMoves DEF VInv, RInv
<1>18. \A q \in Members \ doubled' : OneRoom(q)' BY <1>1, OneRoomStays DEF VInv
<1> QED BY <1>4, <1>5, <1>9, <1>11, <1>17, <1>18 DEF VInv, RInv

(***************************************************************************)
(* handleVoiceStateUpdate: who enters the noted room has no job yet, or no *)
(* other is made; who leaves the noted room stops the player.              *)
(***************************************************************************)
LEMMA MoveKeeps ==
  ASSUME VInv, NEW m \in Members, NEW to \in 0..maxRooms, Move(m, to)
  PROVE  VInv'
<1>1. /\ to = 0 \/ (to \in open /\ owner[to] = m)
      /\ voice' = [voice EXCEPT ![m] = to]
      /\ handleVoiceStateUpdate(m, voice[m], to)
      /\ UNCHANGED <<inGuild, verified, created, owner, open, privateChannels,
                     creating, roundVars, history>>
  BY DEF Move
<1>2. UNCHANGED <<inGuild, verified, created, owner, open, privateChannels, creating,
                  rounds, unchecked, unvisited, doubled, crossed>>
  BY <1>1 DEF roundVars, history
<1>3. /\ voice' \in [Members -> Nat] /\ voice'[m] = to
      /\ \A q \in Members \ {m} : voice'[q] = voice[q]
  <2>1. to \in Nat BY BoundsAssumption
  <2> QED BY <1>1, <2>1 DEF VInv, RInv, RoomTypes
<1>4. RoomTypes' BY <1>2, <1>3 DEF VInv, RInv, RoomTypes
<1>5. ASSUME NEW q \in Members PROVE MemberInOrder(q)'
  <2>1. MemberInOrder(q) BY DEF VInv, RInv
  <2>2. CASE q = m BY <1>1, <1>2, <1>3, <2>1, <2>2 DEF MemberInOrder
  <2>3. CASE q # m BY <1>2, <1>3, <2>1, <2>3 DEF MemberInOrder
  <2> QED BY <2>2, <2>3
<1>6. \A q \in Untroubled' : RoomsAreTrue(q)'
  BY <1>2 DEF VInv, RInv, RoomsAreTrue, shouldOnboard, Untroubled
<1>7. RoomsGrow BY <1>2, RoomFacts DEF VInv, RoomsGrow
<1>8. \A q \in Members : NoteStays(q) BY <1>2 DEF NoteStays, Untroubled
<1>12. \A q \in Members \ doubled' : OneRoom(q)' BY <1>2, OneRoomStays DEF VInv
<1>9. \A q \in Members \ {m} : MemberStays(q) BY <1>2, <1>3 DEF MemberStays
<1>10. CASE m \notin activeMembers /\ privateChannels[m] # 0 /\ to = privateChannels[m]
            /\ activeMembers' = activeMembers \cup {m}
            /\ Pump(Append(pendingOnboarding, [member |-> m, room |-> to]), run)
  <2>1. to \in 1..created /\ owner[to] = m
    BY <1>10 DEF VInv, RInv, RoomTypes, MemberInOrder
  <2>2. PICK job : job = [member |-> m, room |-> to] OBVIOUS
  <2>3. job \in Job /\ job.member = m /\ job.room = to
    <3>1. to \in 1..maxRooms BY <2>1, RoomFacts DEF VInv
    <3> QED BY <2>2, <3>1 DEF Job, Rooms
  <2>4. PICK jobs : jobs = Append(pendingOnboarding, job) OBVIOUS
  <2>5. /\ jobs \in Seq(Job) /\ DOMAIN pendingOnboarding = 1..Len(pendingOnboarding)
        /\ Len(pendingOnboarding) \in Nat
        /\ DOMAIN jobs = 1..(Len(pendingOnboarding) + 1)
        /\ \A i \in DOMAIN pendingOnboarding : i \in DOMAIN jobs /\ jobs[i] = pendingOnboarding[i]
        /\ Len(pendingOnboarding) + 1 \in DOMAIN jobs
        /\ jobs[Len(pendingOnboarding) + 1] = job
    BY <2>3, <2>4 DEF VInv, QInv
  <2>6. \A i \in DOMAIN jobs : i \in DOMAIN pendingOnboarding \/ i = Len(pendingOnboarding) + 1
    BY <2>5
  <2>7. PICK active \in SUBSET Members : active = activeMembers \cup {m}
    BY DEF VInv, QInv
  <2>8. QueueInOrder(pendingOnboarding, run, activeMembers) BY DEF VInv, QInv
  <2>9. /\ \A i \in DOMAIN pendingOnboarding : pendingOnboarding[i].member # m
        /\ \A h \in Helpers : run[h].member # m
    <3>1. m # None BY MembersAssumption
    <3> QED BY <1>10, <2>8, <3>1 DEF QueueInOrder
  <2>10. QueueInOrder(jobs, run, active)
    <3>1. \A i, j \in DOMAIN jobs : jobs[i].member = jobs[j].member => i = j
      BY <2>3, <2>5, <2>6, <2>8, <2>9 DEF QueueInOrder
    <3>2. \A i \in DOMAIN jobs, h \in Helpers : jobs[i].member # run[h].member
      BY <2>3, <2>5, <2>6, <2>8, <2>9 DEF QueueInOrder
    <3>3. \A i \in DOMAIN jobs : jobs[i].member \in active
      BY <2>3, <2>5, <2>6, <2>7, <2>8 DEF QueueInOrder
    <3>4. \A q \in active : \/ \E i \in DOMAIN jobs : jobs[i].member = q
                            \/ \E h \in Helpers : run[h].member = q
      BY <2>3, <2>5, <2>7, <2>8 DEF QueueInOrder
    <3> QED BY <2>7, <2>8, <3>1, <3>2, <3>3, <3>4 DEF QueueInOrder
  <2>11. PICK runs \in [Helpers -> Run] : runs = run BY DEF VInv, QInv
  <2>12. ASSUME NEW h \in Helpers PROVE RunInOrder(runs[h])' /\ RunIsTrue(runs[h])'
    <3>1. PICK r \in Run : r = runs[h] OBVIOUS
    <3>2. r.member \in Members => NoteStays(r.member) /\ MemberStays(r.member)
      BY <1>8, <1>9, <2>9, <2>11, <3>1
    <3>3. RunInOrder(r) /\ RunIsTrue(r) BY <2>11, <3>1 DEF VInv, QInv
    <3>4. RunInOrder(r)' /\ RunIsTrue(r)'
      BY <1>4, <1>7, <3>2, <3>3, RunStaysTrue DEF VInv, RInv
    <3> QED BY <3>1, <3>4
  <2>13. ASSUME NEW i \in DOMAIN jobs PROVE JobIsTrue(jobs[i])'
    <3>1. CASE i = Len(pendingOnboarding) + 1
      <4>1. JobIsTrue(job)' BY <1>2, <1>10, <2>1, <2>3 DEF JobIsTrue, RoomOf
      <4> QED BY <2>5, <3>1, <4>1
    <3>2. CASE i \in DOMAIN pendingOnboarding
      <4>1. PICK j \in Job : j = pendingOnboarding[i]
        BY <3>2, JobsAreJobs DEF VInv, QInv
      <4>2. JobIsTrue(j) /\ j.member \in Members BY <3>2, <4>1 DEF VInv, QInv, Job
      <4>3. JobIsTrue(j)' BY <1>7, <1>8, <4>2, JobStaysTrue DEF VInv, RInv
      <4> QED BY <2>5, <3>2, <4>1, <4>3
    <3> QED BY <2>6, <3>1, <3>2
  <2>14. Pump(jobs, runs) /\ activeMembers' = active
    BY <1>10, <2>2, <2>4, <2>7, <2>11
  <2>15. QueueInOrder(jobs, runs, active) BY <2>10, <2>11
  <2>16. \A h \in Helpers : rounds' = "login" <=> runs[h].at = "absent"
    BY <1>2, <2>11 DEF VInv, QInv
  <2>17. QInv' BY <2>5, <2>7, <2>12, <2>13, <2>14, <2>15, <2>16, PumpKeeps
  <2> QED BY <1>4, <1>5, <1>6, <1>12, <2>17 DEF VInv, RInv, Untroubled
<1>11. CASE /\ run' = [h \in Helpers |->
                       IF run[h].member = m
                       THEN Left(h, IF privateChannels[m] # 0 /\ voice[m] = privateChannels[m]
                                    THEN Stopped(h) ELSE run[h])
                       ELSE run[h]]
            /\ UNCHANGED <<activeMembers, pendingOnboarding, early>>
  <2>1. ASSUME NEW h \in Helpers
        PROVE  /\ run'[h] \in Run
               /\ run'[h].at = run[h].at /\ run'[h].member = run[h].member
               /\ run[h].member # m => run'[h] = run[h]
    <3>1. run[h] \in Run BY DEF VInv, QInv
    <3>2. PICK r \in {run[h], Stopped(h)} :
            r = IF privateChannels[m] # 0 /\ voice[m] = privateChannels[m]
                THEN Stopped(h) ELSE run[h]
      OBVIOUS
    <3>3. run'[h] = IF run[h].member = m THEN Left(h, r) ELSE run[h] BY <1>11, <3>2
    <3> QED BY <3>1, <3>3, Leaving
  <2>2. run' \in [Helpers -> Run]
    <3>1. run' = [h \in Helpers |-> run'[h]] BY <1>11
    <3> QED BY <2>1, <3>1
  <2>3. ASSUME NEW h \in Helpers, run[h].member = m
        PROVE  RunInOrder(run[h])' /\ RunIsTrue(run[h])'
    <3>1. PICK r \in Run : r = run[h] BY DEF VInv, QInv
    <3>2. PICK l \in Run : l = run'[h] BY <2>1
    <3>3. PICK s \in {run[h], Stopped(h)} :
            s = IF privateChannels[m] # 0 /\ voice[m] = privateChannels[m]
                THEN Stopped(h) ELSE run[h]
      OBVIOUS
    <3>4. l = Left(h, s) BY <1>11, <2>3, <3>2, <3>3
    <3>5. /\ l.at = r.at /\ l.member = m /\ r.member = m /\ l.room = r.room
          /\ l.enough = r.enough
          /\ r.at \notin {"start", "playing"} => l = r
          /\ r.stopped => l.stopped
          /\ r.at \in {"start", "playing"} /\ s = Stopped(h) => l.stopped
          /\ r.enough => l.away = r.away
          /\ r.at \in {"start", "playing"} /\ ~r.enough => l.away
      BY <2>3, <3>1, <3>4, Leaving
    <3>6. RunInOrder(r) /\ RunIsTrue(r) BY <3>1 DEF VInv, QInv
    <3>7. RunInOrder(l)' BY <1>2, <3>5, <3>6 DEF RunInOrder, RoomOf
    <3>8. ASSUME m \in Untroubled, r.at \in {"start", "playing"}, r.room \in open, l.away
          PROVE  l.stopped /\ ~l.enough
      <4>1. r.room = privateChannels[m] /\ r.room \in 1..created
        BY <3>5, <3>6, <3>8 DEF RunIsTrue, RunInOrder, RoomOf
      <4>2. CASE r.away BY <3>5, <3>6, <3>8, <4>2 DEF RunIsTrue
      <4>3. CASE ~r.away
        <5>1. ~r.enough BY <3>5, <3>8, <4>3
        <5>2. voice[m] = r.room BY <3>5, <3>6, <3>8, <4>3, <5>1 DEF RunIsTrue
        <5>3. r.room # 0 BY <4>1, RoomFacts DEF VInv
        <5>4. s = Stopped(h) BY <3>3, <4>1, <5>2, <5>3
        <5> QED BY <3>5, <3>8, <5>1, <5>4
      <4> QED BY <4>2, <4>3
    <3>9. RunIsTrue(l)'
      <4> SUFFICES ASSUME m \in Untroubled, l.at # "cleanup" PROVE RunIsTrue(l)'
        BY <1>2, <3>5 DEF RunIsTrue, Untroubled
      <4>1. CASE r.at \notin {"start", "playing"}
        <5>1. l = r BY <3>5, <4>1
        <5> QED BY <1>2, <3>6, <4>1, <5>1 DEF RunIsTrue, Untroubled
      <4>2. CASE r.at \in {"start", "playing"}
        <5>1. l.away => (l.stopped /\ ~l.enough) \/ l.room \notin open BY <3>5, <3>8, <4>2
        <5>2. l.room = privateChannels[m] \/ l.room \notin open
          BY <3>5, <3>6, <4>2 DEF RunIsTrue
        <5>3. ~l.enough => l.away BY <3>5, <4>2
        <5> QED BY <1>2, <3>5, <4>2, <5>1, <5>2, <5>3 DEF RunIsTrue
      <4> QED BY <4>1, <4>2
    <3> QED BY <3>2, <3>7, <3>9
  <2>4. QInv'
    BY <1>2, <1>4, <1>7, <1>8, <1>9, <1>11, <2>1, <2>2, <2>3, OneMemberMoves
    DEF VInv, RInv
  <2> QED BY <1>4, <1>5, <1>6, <1>12, <2>4 DEF VInv, RInv
<1> QED BY <1>1, <1>10, <1>11 DEF handleVoiceStateUpdate, MayEnter


-----------------------------------------------------------------------------
(***************************************************************************)
(* The helpers log in, and the bot starts again.                           *)
(***************************************************************************)
LEMMA RoomsRest ==
  ASSUME RInv, UNCHANGED <<inGuild, verified, voice, created, owner, open, privateChannels,
                           creating, unchecked, unvisited, doubled, crossed>>
  PROVE  RInv'
<1>1. RoomTypes' BY DEF RInv, RoomTypes
<1>2. \A m \in Members : MemberInOrder(m)' BY DEF RInv, MemberInOrder
<1>3. \A m \in Members \ doubled' : OneRoom(m)' BY DEF RInv, OneRoom
<1>4. \A m \in Untroubled' : RoomsAreTrue(m)'
  BY DEF RInv, RoomsAreTrue, shouldOnboard, Untroubled
<1> QED BY <1>1, <1>2, <1>3, <1>4 DEF RInv

(***************************************************************************)
(* There is nothing to be true of a helper that is free, ...               *)
(***************************************************************************)
LEMMA FreeIsTrue ==
  /\ Free \in Run /\ Free.at = "idle" /\ Free.member = None
  /\ RunInOrder(Free) /\ RunInOrder(Free)' /\ RunIsTrue(Free) /\ RunIsTrue(Free)'
<1>1. PICK r : r = Free OBVIOUS
<1>2. r \in Run /\ r.at = "idle" /\ r.member = None BY <1>1 DEF Free, Run
<1>3. None \notin Untroubled /\ None \notin Untroubled' BY MembersAssumption DEF Untroubled
<1>4. RunInOrder(r) /\ RunInOrder(r)' BY <1>1, <1>2 DEF RunInOrder
<1>5. RunIsTrue(r) /\ RunIsTrue(r)' BY <1>2, <1>3 DEF RunIsTrue
<1>6. UNCHANGED Free BY DEF Free
<1> QED BY <1>1, <1>2, <1>4, <1>5, <1>6

(***************************************************************************)
(* ... or of one that has yet to log in.                                   *)
(***************************************************************************)
LEMMA AbsentIsTrue ==
  /\ Absent \in Run /\ Absent.at = "absent" /\ Absent.member = None
  /\ RunInOrder(Absent) /\ RunInOrder(Absent)' /\ RunIsTrue(Absent) /\ RunIsTrue(Absent)'
<1>1. PICK r : r = Absent OBVIOUS
<1>2. r \in Run /\ r.at = "absent" /\ r.member = None BY <1>1 DEF Absent, Free, Run
<1>3. None \notin Untroubled /\ None \notin Untroubled' BY MembersAssumption DEF Untroubled
<1>4. RunInOrder(r) /\ RunInOrder(r)' BY <1>2 DEF RunInOrder
<1>5. RunIsTrue(r) /\ RunIsTrue(r)' BY <1>2, <1>3 DEF RunIsTrue
<1> QED BY <1>1, <1>2, <1>4, <1>5 DEF Absent, Free

(***************************************************************************)
(* startHelperWorkers: no helper had a run, and the members that wait have *)
(* come before their time.                                                 *)
(***************************************************************************)
LEMMA HelpersStartKeeps ==
  ASSUME VInv, startHelperWorkers
  PROVE  VInv'
<1>1. /\ rounds = "login" /\ rounds' = "due"
      /\ run' = [h \in Helpers |-> Free]
      /\ early' = (pendingOnboarding # <<>>)
      /\ UNCHANGED <<discordVars, privateChannels, creating, unchecked, unvisited,
                     activeMembers, pendingOnboarding, history>>
  BY DEF startHelperWorkers
<1>2. UNCHANGED <<inGuild, verified, voice, created, owner, open, privateChannels,
                  creating, unchecked, unvisited, doubled, crossed,
                  activeMembers, pendingOnboarding>>
  BY <1>1 DEF discordVars, history
<1>3. RInv' BY <1>2, RoomsRest DEF VInv
<1>4. \A h \in Helpers : run[h].member = None
  BY <1>1 DEF VInv, QInv, RunInOrder
<1>5. \A h \in Helpers : run'[h] = Free BY <1>1
<1>6. /\ run' \in [Helpers -> Run]
      /\ \A h \in Helpers : run'[h].at = "idle" /\ run'[h].member = None
  BY <1>1, FreeIsTrue
<1>7. QueueInOrder(pendingOnboarding, run, activeMembers)'
  <2>1. QueueInOrder(pendingOnboarding, run, activeMembers) BY DEF VInv, QInv
  <2>2. \A h \in Helpers : run'[h].member = run[h].member BY <1>4, <1>6
  <2> QED BY <1>2, <2>1, <2>2 DEF QueueInOrder
<1>8. \A h \in Helpers : RunInOrder(run[h])' /\ RunIsTrue(run[h])'
  <2> SUFFICES ASSUME NEW h \in Helpers PROVE RunInOrder(run[h])' /\ RunIsTrue(run[h])'
    OBVIOUS
  <2>1. PICK r : r = Free OBVIOUS
  <2>2. RunInOrder(r)' /\ RunIsTrue(r)' BY <2>1, FreeIsTrue DEF Free
  <2>3. run'[h] = r BY <1>5, <2>1
  <2> QED BY <2>2, <2>3
<1>9. \A i \in DOMAIN pendingOnboarding' : JobIsTrue(pendingOnboarding[i])'
  BY <1>2 DEF VInv, QInv, JobIsTrue, RoomOf, Untroubled
<1>10. NobodyWaitsForAFreeHelper' BY <1>1, <1>2 DEF NobodyWaitsForAFreeHelper
<1>11. \A h \in Helpers : rounds' = "login" <=> run'[h].at = "absent" BY <1>1, <1>6
<1>12. pendingOnboarding' \in Seq(Job) /\ activeMembers' \subseteq Members
  BY <1>2 DEF VInv, QInv
<1>13. QInv' BY <1>6, <1>7, <1>8, <1>9, <1>10, <1>11, <1>12 DEF QInv
<1> QED BY <1>3, <1>13 DEF VInv

(***************************************************************************)
(* With no job, no helper logged in and nobody active the queue is true.   *)
(***************************************************************************)
LEMMA QueueStartsTrue ==
  ASSUME Init
  PROVE  QInv
<1>1. /\ pendingOnboarding = <<>> /\ run = [h \in Helpers |-> Absent]
      /\ activeMembers = {} /\ rounds = "login"
  BY DEF Init
<1>2. \A h \in Helpers : run[h] = Absent BY <1>1
<1>3. /\ run \in [Helpers -> Run]
      /\ \A h \in Helpers : run[h].at = "absent" /\ run[h].member = None
  BY <1>1, AbsentIsTrue
<1>4. \A h \in Helpers : RunInOrder(run[h]) /\ RunIsTrue(run[h]) BY <1>2, AbsentIsTrue
<1>5. DOMAIN pendingOnboarding = {} /\ pendingOnboarding \in Seq(Job) BY <1>1
<1>6. QueueInOrder(pendingOnboarding, run, activeMembers)
  BY <1>1, <1>3, <1>5 DEF QueueInOrder
<1> QED BY <1>1, <1>3, <1>4, <1>5, <1>6 DEF QInv, NobodyWaitsForAFreeHelper

(***************************************************************************)
(* ... and when the bot has forgotten everything.                          *)
(***************************************************************************)
LEMMA QueueRestartsTrue ==
  ASSUME pendingOnboarding' = <<>>, run' = [h \in Helpers |-> Absent], activeMembers' = {},
         rounds' = "login"
  PROVE  QInv'
<1>1. PICK r : r = Absent OBVIOUS
<1>2. /\ r \in Run /\ r.at = "absent" /\ r.member = None
      /\ RunInOrder(r)' /\ RunIsTrue(r)'
  BY <1>1, AbsentIsTrue DEF Absent, Free
<1>3. run' \in [Helpers -> Run] /\ \A h \in Helpers : run'[h] = r BY <1>1, <1>2
<1>4. \A h \in Helpers : RunInOrder(run[h])' /\ RunIsTrue(run[h])'
  <2> SUFFICES ASSUME NEW h \in Helpers PROVE RunInOrder(run[h])' /\ RunIsTrue(run[h])'
    OBVIOUS
  <2>1. run'[h] = r BY <1>3
  <2> QED BY <1>2, <2>1
<1>5. DOMAIN pendingOnboarding' = {} /\ pendingOnboarding' \in Seq(Job) OBVIOUS
<1>6. QueueInOrder(pendingOnboarding, run, activeMembers)'
  BY <1>2, <1>3, <1>5 DEF QueueInOrder
<1> QED BY <1>2, <1>3, <1>4, <1>5, <1>6 DEF QInv, NobodyWaitsForAFreeHelper

(***************************************************************************)
(* A restart keeps the rooms and forgets the notes: what is owed is only   *)
(* that nobody has more rooms than before.                                 *)
(***************************************************************************)
LEMMA RestartKeeps ==
  ASSUME VInv, Restart
  PROVE  VInv'
<1>1. /\ privateChannels' = [m \in Members |-> 0] /\ creating' = {}
      /\ rounds' = "login" /\ unchecked' = {} /\ unvisited' = {}
      /\ activeMembers' = {} /\ pendingOnboarding' = <<>>
      /\ run' = [h \in Helpers |-> Absent]
      /\ crossed' = {}
      /\ UNCHANGED <<inGuild, verified, voice, created, owner, open, doubled>>
  BY DEF Restart, discordVars
<1>2. RoomTypes'
  <2>1. 0 \in 0..created BY RoomFacts DEF VInv
  <2> QED BY <1>1, <2>1 DEF VInv, RInv, RoomTypes
<1>3. \A m \in Members : MemberInOrder(m)' BY <1>1 DEF VInv, RInv, MemberInOrder
<1>4. \A m \in Members \ doubled' : OneRoom(m)' BY <1>1, OneRoomStays DEF VInv
<1>5. \A m \in Untroubled' : RoomsAreTrue(m)' BY <1>1 DEF RoomsAreTrue, Untroubled
<1>6. QInv' BY <1>1, QueueRestartsTrue
<1> QED BY <1>2, <1>3, <1>4, <1>5, <1>6 DEF VInv, RInv

-----------------------------------------------------------------------------
(***************************************************************************)
(* The steps of runOnboarding.                                             *)
(***************************************************************************)
Stages == {"fetch", "settle", "start", "playing", "postroll", "unlock", "disconnect",
           "delete", "cleanup"}

(***************************************************************************)
(* The next stage of a run: the same member in the same room; what the     *)
(* player was asked matters while it plays.                                *)
(***************************************************************************)
LEMMA Onward ==
  ASSUME NEW r \in Run, RunInOrder(r), r.at \in Stages, NEW to \in Stages
  PROVE  /\ Now(r, to) \in Run /\ Now(r, to).at = to /\ Now(r, to).member = r.member
         /\ r.member \in Members
         /\ to # "cleanup" => /\ Now(r, to).room = r.room
                              /\ Now(r, to).enough = r.enough
                              /\ Now(r, to).away = r.away
                              /\ Now(r, to).stopped = (r.stopped /\ to = "playing")
<1>1. PICK n : n = Now(r, to) OBVIOUS
<1>2. r.member \in Members BY DEF Run, RunInOrder, Stages
<1>3. CASE to = "cleanup"
  <2>1. n = [Free EXCEPT !.at = "cleanup", !.member = r.member] BY <1>1, <1>3 DEF Now
  <2>2. n \in Run /\ n.at = "cleanup" /\ n.member = r.member BY <1>2, <2>1 DEF Free, Run
  <2> QED BY <1>1, <1>2, <1>3, <2>2
<1>4. CASE to # "cleanup"
  <2>1. n = [r EXCEPT !.at = to, !.stopped = @ /\ to = "playing"] BY <1>1, <1>4 DEF Now
  <2>2. /\ n \in Run /\ n.at = to /\ n.member = r.member /\ n.room = r.room
        /\ n.enough = r.enough /\ n.away = r.away
        /\ n.stopped = (r.stopped /\ to = "playing")
    BY <2>1 DEF Run, Stages
  <2> QED BY <1>1, <1>2, <2>2
<1> QED BY <1>3, <1>4

(***************************************************************************)
(* Whatever goes wrong ends in the finally block.                          *)
(***************************************************************************)
LEMMA CleanupIsTrue ==
  ASSUME NEW r \in Run, r.at = "cleanup", r.member \in Members
  PROVE  RunInOrder(r) /\ RunIsTrue(r) /\ RunInOrder(r)' /\ RunIsTrue(r)'
<1>1. r.member # None BY MembersAssumption
<1> QED BY <1>1 DEF RunInOrder, RunIsTrue

(***************************************************************************)
(* A step of a run that leaves everything else as it was.                  *)
(***************************************************************************)
LEMMA OnlyRunMoves ==
  ASSUME VInv, NEW h \in Helpers, NEW r \in Run,
         run[h].at \in Stages, r.at \in Stages, r.member = run[h].member,
         RunInOrder(r), RunIsTrue(r),
         run' = [run EXCEPT ![h] = r], UNCHANGED <<activeMembers, pendingOnboarding, early>>,
         UNCHANGED <<discordVars, privateChannels, creating, roundVars, history>>
  PROVE  VInv'
<1>1. UNCHANGED <<inGuild, verified, voice, created, owner, open, privateChannels,
                  creating, rounds, unchecked, unvisited, doubled, crossed>>
  BY DEF discordVars, roundVars, history
<1>2. RInv' BY <1>1, RoomsRest DEF VInv
<1>3. RoomsGrow /\ \A m \in Members : NoteStays(m) /\ MemberStays(m)
  BY <1>1, NothingStirs
<1>4. RunInOrder(r)' BY <1>1 DEF RunInOrder, RoomOf
<1>5. RunIsTrue(r)' BY <1>1 DEF RunIsTrue, Untroubled
<1>6. run[h].at \notin {"absent", "idle"} /\ r.at \notin {"absent", "idle"} BY DEF Stages
<1>7. QInv' BY <1>1, <1>3, <1>4, <1>5, <1>6, OneRunMoves DEF VInv, RInv
<1> QED BY <1>2, <1>7 DEF VInv

(***************************************************************************)
(* Such a step ends in the finally block or in a stage that is true.       *)
(***************************************************************************)
LEMMA GoesKeeps ==
  ASSUME VInv, NEW h \in Helpers, NEW from \in Stages, NEW to \in Stages, Goes(h, from, to),
         UNCHANGED <<discordVars, privateChannels, creating, roundVars, history>>,
         \/ to = "cleanup"
         \/ RunInOrder(Now(run[h], to)) /\ RunIsTrue(Now(run[h], to))
  PROVE  VInv'
<1>1. PICK r \in Run : r = run[h] BY DEF VInv, QInv
<1>2. RunInOrder(r) /\ r.at = from BY <1>1 DEF VInv, QInv, Goes
<1>3. PICK n : n = Now(r, to) OBVIOUS
<1>4. n \in Run /\ n.at = to /\ n.member = r.member /\ r.member \in Members
  BY <1>2, <1>3, Onward
<1>5. RunInOrder(n) /\ RunIsTrue(n) BY <1>1, <1>3, <1>4, CleanupIsTrue
<1>6. /\ run' = [run EXCEPT ![h] = n]
      /\ UNCHANGED <<activeMembers, pendingOnboarding, early>>
  BY <1>1, <1>3 DEF Goes
<1> QED BY <1>1, <1>2, <1>4, <1>5, <1>6, OnlyRunMoves

(***************************************************************************)
(* .finally of pumpHelperQueue: the member is active no more, the helper   *)
(* is free and may be given the next job at once.                          *)
(***************************************************************************)
LEMMA SettlesKeeps ==
  ASSUME VInv, NEW h \in Helpers, run[h].at \in Stages, Settles(h),
         UNCHANGED <<discordVars, privateChannels, creating, roundVars, history>>
  PROVE  VInv'
<1>1. UNCHANGED <<inGuild, verified, voice, created, owner, open, privateChannels,
                  creating, rounds, unchecked, unvisited, doubled, crossed>>
  BY DEF discordVars, roundVars, history
<1>2. RInv' BY <1>1, RoomsRest DEF VInv
<1>3. RoomsGrow /\ \A m \in Members : NoteStays(m) /\ MemberStays(m)
  BY <1>1, NothingStirs
<1>4. PICK runs \in [Helpers -> Run] : runs = [run EXCEPT ![h] = Free]
  BY FreeIsTrue DEF VInv, QInv
<1>5. runs[h] = Free /\ \A g \in Helpers \ {h} : runs[g] = run[g]
  BY <1>4 DEF VInv, QInv
<1>6. PICK jobs \in Seq(Job) : jobs = pendingOnboarding BY DEF VInv, QInv
<1>7. PICK m : m = run[h].member OBVIOUS
<1>8. m \in Members /\ m # None
  <2>1. m # None BY <1>7 DEF VInv, QInv, RunInOrder, Stages
  <2> QED BY <1>7, <2>1 DEF VInv, QInv, Run
<1>9. PICK active \in SUBSET Members : active = activeMembers \ {m} BY DEF VInv, QInv
<1>10. QueueInOrder(jobs, runs, active)
  <2>1. QueueInOrder(jobs, run, activeMembers) BY <1>6 DEF VInv, QInv
  <2>2. /\ \A i \in DOMAIN jobs : jobs[i].member # m
        /\ \A g \in Helpers \ {h} : run[g].member # m
        /\ runs[h].member = None
    BY <1>5, <1>7, <1>8, <2>1, FreeIsTrue DEF QueueInOrder
  <2>3. \A i, j \in DOMAIN jobs : jobs[i].member = jobs[j].member => i = j
    BY <2>1 DEF QueueInOrder
  <2>4. \A g, k \in Helpers : runs[g].member = runs[k].member /\ runs[g].member # None => g = k
    BY <1>5, <2>1, <2>2 DEF QueueInOrder
  <2>5. \A i \in DOMAIN jobs : jobs[i].member # None
    BY JobsAreJobs, MembersAssumption
  <2>6. \A i \in DOMAIN jobs, g \in Helpers : jobs[i].member # runs[g].member
    BY <1>5, <2>1, <2>2, <2>5 DEF QueueInOrder
  <2>7. \A i \in DOMAIN jobs : jobs[i].member \in active BY <1>9, <2>1, <2>2 DEF QueueInOrder
  <2>8. \A g \in Helpers : runs[g].member # None => runs[g].member \in active
    BY <1>5, <1>9, <2>1, <2>2 DEF QueueInOrder
  <2>9. \A q \in active : \/ \E i \in DOMAIN jobs : jobs[i].member = q
                          \/ \E g \in Helpers : runs[g].member = q
    BY <1>5, <1>7, <1>9, <2>1 DEF QueueInOrder
  <2> QED BY <2>3, <2>4, <2>6, <2>7, <2>8, <2>9 DEF QueueInOrder
<1>11. Pump(jobs, runs) /\ activeMembers' = active
  BY <1>4, <1>6, <1>7, <1>9 DEF Settles
<1>12. \A g \in Helpers : rounds' = "login" <=> runs[g].at = "absent"
  <2>1. rounds # "login" BY DEF VInv, QInv, Stages
  <2> QED BY <1>1, <1>5, <2>1, FreeIsTrue DEF VInv, QInv
<1>13. \A g \in Helpers : RunInOrder(runs[g])' /\ RunIsTrue(runs[g])'
  <2> SUFFICES ASSUME NEW g \in Helpers PROVE RunInOrder(runs[g])' /\ RunIsTrue(runs[g])'
    OBVIOUS
  <2>1. CASE g = h
    <3>1. PICK r : r = Free OBVIOUS
    <3>2. RunInOrder(r)' /\ RunIsTrue(r)' BY <3>1, FreeIsTrue DEF Free
    <3> QED BY <1>5, <2>1, <3>1, <3>2
  <2>2. CASE g # h
    <3>1. PICK r \in Run : r = runs[g] OBVIOUS
    <3>2. RunInOrder(r) /\ RunIsTrue(r) BY <1>5, <2>2, <3>1 DEF VInv, QInv
    <3>3. RunInOrder(r)' /\ RunIsTrue(r)' BY <1>3, <3>2, RunStaysTrue DEF VInv, RInv
    <3> QED BY <3>1, <3>3
  <2> QED BY <2>1, <2>2
<1>14. \A i \in DOMAIN jobs : JobIsTrue(jobs[i])'
  <2> SUFFICES ASSUME NEW i \in DOMAIN jobs PROVE JobIsTrue(jobs[i])' OBVIOUS
  <2>1. PICK job \in Job : job = jobs[i] BY JobsAreJobs
  <2>2. JobIsTrue(job) /\ job.member \in Members BY <1>6, <2>1 DEF VInv, QInv, Job
  <2>3. JobIsTrue(job)' BY <1>3, <2>2, JobStaysTrue DEF VInv, RInv
  <2> QED BY <2>1, <2>3
<1>15. QInv' BY <1>10, <1>11, <1>12, <1>13, <1>14, PumpKeeps
<1> QED BY <1>2, <1>15 DEF VInv

(***************************************************************************)
(* What is known of the run at each await makes the next stage true: who   *)
(* is in the room when the player starts, who has left when it ends early, *)
(* and who is still there when the role is due.                            *)
(***************************************************************************)
LEMMA StageIsTrue ==
  ASSUME VInv, NEW h \in Helpers, run[h].at \in Stages, NEW to \in Stages \ {"cleanup"},
         \/ run[h].at = "fetch" /\ to = "settle"
         \/ run[h].at = "settle" /\ to = "start" /\ InRoom(h)
         \/ run[h].at = "start" /\ to = "playing" /\ ~run[h].stopped
         \/ run[h].at = "playing" /\ to = "postroll" /\ run[h].enough
         \/ run[h].at = "postroll" /\ to = "unlock" /\ InRoom(h)
  PROVE  RunInOrder(Now(run[h], to)) /\ RunIsTrue(Now(run[h], to))
<1>1. PICK r \in Run : r = run[h] BY DEF VInv, QInv
<1>2. RunInOrder(r) /\ RunIsTrue(r) /\ r.at \in Stages BY <1>1 DEF VInv, QInv
<1>3. PICK n : n = Now(r, to) OBVIOUS
<1>4. /\ n \in Run /\ n.at = to /\ n.member = r.member /\ r.member \in Members
      /\ n.room = r.room /\ n.enough = r.enough /\ n.away = r.away
      /\ n.stopped = (r.stopped /\ to = "playing")
  BY <1>2, <1>3, Onward
<1>5. PICK m \in Members : m = r.member BY <1>4
<1>6. m # None BY MembersAssumption
<1>7. RoomOf(m, r.room) BY <1>1, <1>2, <1>5 DEF RunInOrder
<1>8. RunInOrder(n)
  BY <1>1, <1>2, <1>4, <1>5, <1>6, <1>7 DEF RunInOrder
<1>9. InRoom(h) => voice[m] = r.room BY <1>1, <1>5 DEF InRoom
<1>10. ASSUME m \in Untroubled PROVE RunIsTrue(n)
  <2>1. r.room = privateChannels[m] \/ r.room \notin open
    BY <1>1, <1>2, <1>5, <1>10 DEF RunIsTrue
  <2>2. CASE r.at = "fetch" /\ to = "settle"
    BY <1>4, <1>5, <2>1, <2>2 DEF RunIsTrue
  <2>3. CASE r.at = "settle" /\ to = "start" /\ InRoom(h)
    <3>1. ~r.away BY <1>2, <2>3 DEF RunInOrder
    <3> QED BY <1>4, <1>5, <1>9, <2>1, <2>3, <3>1 DEF RunIsTrue
  <2>4. CASE r.at = "start" /\ to = "playing" /\ ~r.stopped
    <3>1. r.away => r.room \notin open BY <1>2, <1>5, <1>10, <2>4 DEF RunIsTrue
    <3>2. ~r.enough /\ ~r.away => voice[m] = r.room \/ r.room \notin open
      BY <1>2, <1>5, <1>10, <2>4 DEF RunIsTrue
    <3> QED BY <1>4, <1>5, <2>1, <2>4, <3>1, <3>2 DEF RunIsTrue
  <2>5. CASE r.at = "playing" /\ to = "postroll" /\ r.enough
    <3>1. r.away => r.room \notin open BY <1>2, <1>5, <1>10, <2>5 DEF RunIsTrue
    <3> QED BY <1>4, <1>5, <2>1, <2>5, <3>1 DEF RunIsTrue
  <2>6. CASE r.at = "postroll" /\ to = "unlock" /\ InRoom(h)
    <3>1. r.room \in open
      <4>1. r.room # 0 BY <1>7, RoomFacts DEF VInv, RoomOf
      <4> QED BY <1>9, <2>6, <4>1 DEF VInv, RInv, MemberInOrder
    <3>2. r.enough BY <1>2, <2>6 DEF RunInOrder
    <3>3. ~r.away BY <1>2, <1>5, <1>10, <2>6, <3>1, <3>2 DEF RunIsTrue
    <3> QED BY <1>4, <1>5, <2>1, <2>6, <3>3 DEF RunIsTrue
  <2> QED BY <1>1, <2>2, <2>3, <2>4, <2>5, <2>6
<1>11. RunIsTrue(n) BY <1>4, <1>5, <1>10 DEF RunIsTrue
<1> QED BY <1>1, <1>3, <1>8, <1>11

(***************************************************************************)
(* The steps of a run up to the role.                                      *)
(***************************************************************************)
LEMMA RunStepsKeep ==
  ASSUME VInv, NEW h \in Helpers, RunSteps(h)
  PROVE  VInv'
<1>1. /\ run[h].at \in {"fetch", "settle", "start", "playing", "postroll"}
      /\ UNCHANGED <<discordVars, privateChannels, creating, roundVars, history>>
  BY DEF RunSteps
<1>2. run[h].at \in Stages BY <1>1 DEF Stages
<1>3. ASSUME NEW from \in Stages, Goes(h, from, "cleanup") PROVE VInv'
  BY <1>1, <1>3, GoesKeeps DEF Stages
<1>4. ASSUME NEW from \in Stages, NEW to \in Stages \ {"cleanup"}, Goes(h, from, to),
             \/ from = "fetch" /\ to = "settle"
             \/ from = "settle" /\ to = "start" /\ InRoom(h)
             \/ from = "start" /\ to = "playing" /\ ~run[h].stopped
             \/ from = "playing" /\ to = "postroll" /\ run[h].enough
             \/ from = "postroll" /\ to = "unlock" /\ InRoom(h)
      PROVE  VInv'
  <2>1. run[h].at = from BY <1>4 DEF Goes
  <2>2. RunInOrder(Now(run[h], to)) /\ RunIsTrue(Now(run[h], to))
    BY <1>2, <1>4, <2>1, StageIsTrue
  <2> QED BY <1>1, <1>4, <2>2, GoesKeeps
<1>5. CASE Fetch(h)
  <2>1. CASE Settles(h) BY <1>1, <1>2, <2>1, SettlesKeeps
  <2>2. CASE Goes(h, "fetch", "settle") BY <1>4, <2>2 DEF Stages
  <2> QED BY <1>5, <2>1, <2>2 DEF Fetch
<1>6. CASE SettleDelay(h) BY <1>3, <1>4, <1>6 DEF SettleDelay, Stages
<1>7. CASE PlaybackStarts(h) BY <1>3, <1>4, <1>7 DEF PlaybackStarts, Stages
<1>8. CASE PlaybackEnds(h) BY <1>3, <1>4, <1>8 DEF PlaybackEnds, Stages
<1>9. CASE PostRoll(h) BY <1>3, <1>4, <1>9 DEF PostRoll, Stages
<1> QED BY <1>5, <1>6, <1>7, <1>8, <1>9 DEF RunSteps

(***************************************************************************)
(* The minimum has been played to somebody who did not leave meanwhile:    *)
(* the player would have been stopped, unless the room is gone.            *)
(***************************************************************************)
LEMMA PlaysKeeps ==
  ASSUME VInv, NEW h \in Helpers, Plays(h)
  PROVE  VInv'
<1>1. /\ run[h].at = "playing" /\ ~run[h].stopped
      /\ run' = [run EXCEPT ![h].enough = TRUE]
      /\ UNCHANGED <<activeMembers, pendingOnboarding, early>>
      /\ UNCHANGED <<discordVars, privateChannels, creating, roundVars, history>>
  BY DEF Plays, PlayedEnough
<1>2. PICK r \in Run : r = run[h] BY DEF VInv, QInv
<1>3. PICK n \in Run : n = [r EXCEPT !.enough = TRUE] BY DEF Run
<1>4. /\ n.at = r.at /\ n.member = r.member /\ n.room = r.room /\ n.enough
      /\ n.stopped = r.stopped /\ n.away = r.away
  BY <1>3 DEF Run
<1>5. run' = [run EXCEPT ![h] = n] BY <1>1, <1>2, <1>3
<1>6. RunInOrder(r) /\ RunIsTrue(r) BY <1>2 DEF VInv, QInv
<1>7. RunInOrder(n) BY <1>1, <1>2, <1>4, <1>6 DEF RunInOrder
<1>8. RunIsTrue(n) BY <1>1, <1>2, <1>4, <1>6 DEF RunIsTrue
<1>9. run[h].at \in Stages /\ n.at \in Stages /\ n.member = run[h].member
  BY <1>1, <1>2, <1>4 DEF Stages
<1> QED BY <1>1, <1>5, <1>7, <1>8, <1>9, OnlyRunMoves

(***************************************************************************)
(* The end of the finally block.                                           *)
(***************************************************************************)
LEMMA CleanUpKeeps ==
  ASSUME VInv, NEW h \in Helpers, CleanUp(h)
  PROVE  VInv'
BY SettlesKeeps DEF CleanUp, Stages

(***************************************************************************)
(* A run that verifies its member, takes them out of the room and deletes  *)
(* it: whoever the room was for is no newcomer any more.                   *)
(***************************************************************************)
LEMMA AddRoleKeeps ==
  ASSUME VInv, NEW h \in Helpers, AddRole(h)
  PROVE  VInv'
<1>1. /\ run[h].at = "unlock"
      /\ \/ /\ inGuild[run[h].member]
            /\ verified' = [verified EXCEPT ![run[h].member] = TRUE]
            /\ Goes(h, "unlock", "disconnect")
         \/ Goes(h, "unlock", "cleanup") /\ UNCHANGED verified
      /\ UNCHANGED <<inGuild, voice, created, owner, open, privateChannels, creating,
                     roundVars, history>>
  BY DEF AddRole
<1>2. UNCHANGED <<inGuild, voice, created, owner, open, privateChannels, creating,
                  rounds, unchecked, unvisited, doubled, crossed>>
  BY <1>1 DEF roundVars, history
<1>3. CASE Goes(h, "unlock", "cleanup") /\ UNCHANGED verified
  <2>1. UNCHANGED <<discordVars, privateChannels, creating, roundVars, history>>
    BY <1>1, <1>2, <1>3 DEF discordVars
  <2> QED BY <1>3, <2>1, GoesKeeps DEF Stages
<1>4. CASE /\ inGuild[run[h].member]
           /\ verified' = [verified EXCEPT ![run[h].member] = TRUE]
           /\ Goes(h, "unlock", "disconnect")
  <2>1. PICK r \in Run : r = run[h] BY DEF VInv, QInv
  <2>2. RunInOrder(r) /\ RunIsTrue(r) /\ r.at = "unlock" BY <1>1, <2>1 DEF VInv, QInv
  <2>3. PICK n : n = Now(r, "disconnect") OBVIOUS
  <2>4. /\ n \in Run /\ n.at = "disconnect" /\ n.member = r.member /\ r.member \in Members
        /\ n.room = r.room
    BY <2>2, <2>3, Onward DEF Stages
  <2>5. PICK m \in Members : m = r.member BY <2>4
  <2>6. /\ verified' \in [Members -> BOOLEAN] /\ verified'[m] /\ inGuild[m]
        /\ \A q \in Members : verified[q] => verified'[q]
        /\ \A q \in Members \ {m} : verified'[q] = verified[q]
    BY <1>4, <2>1, <2>5 DEF VInv, RInv, RoomTypes
  <2>7. RoomTypes' BY <1>2, <2>6 DEF VInv, RInv, RoomTypes
  <2>8. ASSUME NEW q \in Members PROVE MemberInOrder(q)'
    <3>1. MemberInOrder(q) BY DEF VInv, RInv
    <3> QED BY <1>2, <2>6, <3>1 DEF MemberInOrder
  <2>9. \A q \in Members \ doubled' : OneRoom(q)' BY <1>2, OneRoomStays DEF VInv
  <2>10. ASSUME NEW q \in Untroubled' PROVE RoomsAreTrue(q)'
    <3>1. RoomsAreTrue(q) /\ q \in Members BY <1>2, <2>10 DEF VInv, RInv, Untroubled
    <3> QED BY <1>2, <2>6, <3>1 DEF RoomsAreTrue, shouldOnboard
  <2>11. RoomsGrow BY <1>2, RoomFacts DEF VInv, RoomsGrow
  <2>12. \A q \in Members : NoteStays(q) BY <1>2 DEF NoteStays, Untroubled
  <2>13. \A q \in Members : MemberStays(q) BY <1>2, <2>6 DEF MemberStays
  <2>14. RunInOrder(n)'
    <3>1. m # None BY MembersAssumption
    <3> QED BY <1>2, <2>2, <2>4, <2>5, <3>1 DEF RunInOrder, RoomOf
  <2>15. RunIsTrue(n)'
    BY <1>2, <2>2, <2>4, <2>5, <2>6 DEF RunIsTrue, Untroubled
  <2>16. run' = [run EXCEPT ![h] = n] /\ UNCHANGED <<activeMembers, pendingOnboarding, early>>
    BY <1>4, <2>1, <2>3 DEF Goes
  <2>17. n.at \notin {"absent", "idle"} /\ run[h].at \notin {"absent", "idle"}
         /\ n.member = run[h].member
    BY <2>1, <2>2, <2>4
  <2>18. QInv'
    BY <1>2, <2>4, <2>11, <2>12, <2>13, <2>14, <2>15, <2>16, <2>17, OneRunMoves
    DEF VInv, RInv
  <2> QED BY <2>7, <2>8, <2>9, <2>10, <2>18 DEF VInv, RInv
<1> QED BY <1>1, <1>3, <1>4

(***************************************************************************)
(* The member is taken out of the room, ...                                *)
(***************************************************************************)
LEMMA DisconnectKeeps ==
  ASSUME VInv, NEW h \in Helpers, Disconnect(h)
  PROVE  VInv'
<1>1. /\ Goes(h, "disconnect", "delete")
      /\ voice' = [voice EXCEPT ![run[h].member] = 0]
      /\ UNCHANGED <<inGuild, verified, created, owner, open, privateChannels,
                     creating, roundVars, history>>
  BY DEF Disconnect
<1>2. UNCHANGED <<inGuild, verified, created, owner, open, privateChannels, creating,
                  rounds, unchecked, unvisited, doubled, crossed>>
  BY <1>1 DEF roundVars, history
<1>3. PICK r \in Run : r = run[h] BY DEF VInv, QInv
<1>4. RunInOrder(r) /\ RunIsTrue(r) /\ r.at = "disconnect"
  BY <1>1, <1>3 DEF VInv, QInv, Goes
<1>5. PICK n : n = Now(r, "delete") OBVIOUS
<1>6. /\ n \in Run /\ n.at = "delete" /\ n.member = r.member /\ r.member \in Members
      /\ n.room = r.room
  BY <1>4, <1>5, Onward DEF Stages
<1>7. PICK m \in Members : m = r.member BY <1>6
<1>8. /\ voice' \in [Members -> Nat] /\ voice'[m] = 0
      /\ \A q \in Members \ {m} : voice'[q] = voice[q]
  BY <1>1, <1>3, <1>7 DEF VInv, RInv, RoomTypes
<1>9. RoomTypes' BY <1>2, <1>8 DEF VInv, RInv, RoomTypes
<1>10. ASSUME NEW q \in Members PROVE MemberInOrder(q)'
  <2>1. MemberInOrder(q) BY DEF VInv, RInv
  <2> QED BY <1>2, <1>8, <2>1 DEF MemberInOrder
<1>11. \A q \in Members \ doubled' : OneRoom(q)' BY <1>2, OneRoomStays DEF VInv
<1>12. \A q \in Untroubled' : RoomsAreTrue(q)'
  BY <1>2 DEF VInv, RInv, RoomsAreTrue, shouldOnboard, Untroubled
<1>13. RoomsGrow BY <1>2, RoomFacts DEF VInv, RoomsGrow
<1>14. \A q \in Members : NoteStays(q) BY <1>2 DEF NoteStays, Untroubled
<1>15. \A q \in Members \ {m} : MemberStays(q) BY <1>2, <1>8 DEF MemberStays
<1>16. RunInOrder(n)'
  <2>1. m # None BY MembersAssumption
  <2> QED BY <1>2, <1>4, <1>6, <1>7, <2>1 DEF RunInOrder, RoomOf
<1>17. RunIsTrue(n)'
  BY <1>2, <1>4, <1>6, <1>7 DEF RunIsTrue, Untroubled
<1>18. run' = [run EXCEPT ![h] = n] /\ UNCHANGED <<activeMembers, pendingOnboarding, early>>
  BY <1>1, <1>3, <1>5 DEF Goes
<1>19. n.at \notin {"absent", "idle"} /\ run[h].at \notin {"absent", "idle"}
       /\ n.member = run[h].member
  BY <1>3, <1>4, <1>6
<1>20. QInv'
  BY <1>2, <1>3, <1>6, <1>7, <1>13, <1>14, <1>15, <1>16, <1>17, <1>18, <1>19, OneRunMoves
  DEF VInv, RInv
<1> QED BY <1>9, <1>10, <1>11, <1>12, <1>20 DEF VInv, RInv

(***************************************************************************)
(* ... and the room is deleted, with the note of it: nobody else is in it, *)
(* and it is no newcomer's.                                                *)
(***************************************************************************)
LEMMA DeleteRoomKeeps ==
  ASSUME VInv, NEW h \in Helpers, DeleteRoom(h)
  PROVE  VInv'
<1>1. PICK r \in Run : r = run[h] BY DEF VInv, QInv
<1>2. /\ Goes(h, "delete", "cleanup")
      /\ \/ /\ r.room \in open
            /\ open' = open \ {r.room}
            /\ voice' = [q \in Members |-> IF voice[q] = r.room THEN 0 ELSE voice[q]]
            /\ privateChannels' = [privateChannels EXCEPT ![r.member] = 0]
         \/ UNCHANGED <<open, voice, privateChannels>>
      /\ UNCHANGED <<inGuild, verified, created, owner, creating, roundVars, history>>
  BY <1>1 DEF DeleteRoom, Forgotten
<1>3. UNCHANGED <<inGuild, verified, created, owner, creating,
                  rounds, unchecked, unvisited, doubled, crossed>>
  BY <1>2 DEF roundVars, history
<1>4. RunInOrder(r) /\ RunIsTrue(r) /\ r.at = "delete" BY <1>1, <1>2 DEF VInv, QInv, Goes
<1>5. PICK n : n = Now(r, "cleanup") OBVIOUS
<1>6. n \in Run /\ n.at = "cleanup" /\ n.member = r.member /\ r.member \in Members
  BY <1>4, <1>5, Onward DEF Stages
<1>7. PICK m \in Members : m = r.member BY <1>6
<1>8. RoomOf(m, r.room) BY <1>4, <1>7 DEF RunInOrder
<1>9. CASE UNCHANGED <<open, voice, privateChannels>>
  <2>1. UNCHANGED <<discordVars, privateChannels, creating, roundVars, history>>
    BY <1>2, <1>3, <1>9 DEF discordVars
  <2> QED BY <1>2, <2>1, GoesKeeps DEF Stages
<1>10. CASE /\ r.room \in open
            /\ open' = open \ {r.room}
            /\ voice' = [q \in Members |-> IF voice[q] = r.room THEN 0 ELSE voice[q]]
            /\ privateChannels' = [privateChannels EXCEPT ![r.member] = 0]
  <2>1. /\ voice' \in [Members -> Nat]
        /\ \A q \in Members : voice'[q] = IF voice[q] = r.room THEN 0 ELSE voice[q]
    BY <1>10 DEF VInv, RInv, RoomTypes
  <2>2. /\ privateChannels' \in [Members -> 0..created] /\ privateChannels'[m] = 0
        /\ \A q \in Members \ {m} : privateChannels'[q] = privateChannels[q]
    <3>1. 0 \in 0..created BY RoomFacts DEF VInv
    <3> QED BY <1>7, <1>10, <3>1 DEF VInv, RInv, RoomTypes
  <2>3. RoomTypes' BY <1>3, <1>10, <2>1, <2>2 DEF VInv, RInv, RoomTypes
  <2>4. ASSUME NEW q \in Members PROVE MemberInOrder(q)'
    <3>1. MemberInOrder(q) BY DEF VInv, RInv
    <3>2. voice'[q] # 0 => voice'[q] \in open' /\ owner'[voice'[q]] = q
      BY <1>3, <1>10, <2>1, <3>1 DEF MemberInOrder
    <3>3. privateChannels'[q] = 0 \/ privateChannels'[q] = privateChannels[q] BY <2>2
    <3> QED BY <1>3, <3>1, <3>2, <3>3 DEF MemberInOrder
  <2>5. \A q \in Members \ doubled' : OneRoom(q)' BY <1>3, <1>10, OneRoomStays DEF VInv
  <2>6. ASSUME NEW q \in Untroubled' PROVE RoomsAreTrue(q)'
    <3>1. RoomsAreTrue(q) /\ MemberInOrder(q) /\ q \in Members /\ q \in Untroubled
      BY <1>3, <2>6 DEF VInv, RInv, Untroubled
    <3>2. CASE q = m
      <4>1. verified[m] BY <1>4, <1>7, <1>10, <3>1, <3>2 DEF RunIsTrue
      <4> QED BY <1>3, <2>2, <3>2, <4>1 DEF RoomsAreTrue, shouldOnboard
    <3>3. CASE q # m
      <4>1. \A p \in open : owner[p] = q => p \in open'
        BY <1>8, <1>10, <3>3 DEF RoomOf
      <4> QED BY <1>3, <2>2, <3>1, <3>3, <4>1 DEF RoomsAreTrue, MemberInOrder, shouldOnboard
    <3> QED BY <3>2, <3>3
  <2>7. RoomsGrow BY <1>3, <1>10, RoomFacts DEF VInv, RoomsGrow
  <2>8. ASSUME NEW q \in Members PROVE NoteStays(q)
    <3>1. CASE q = m
      <4>1. m \in Untroubled => r.room = privateChannels[m]
        BY <1>4, <1>7, <1>10 DEF RunIsTrue
      <4> QED BY <1>3, <1>10, <3>1, <4>1 DEF NoteStays, Untroubled
    <3>2. CASE q # m BY <1>3, <2>2, <3>2 DEF NoteStays, Untroubled
    <3> QED BY <3>1, <3>2
  <2>9. \A q \in Members : MemberStays(q) BY <1>3, <1>10, <2>1 DEF MemberStays
  <2>10. RunInOrder(n)' /\ RunIsTrue(n)' BY <1>6, CleanupIsTrue
  <2>11. run' = [run EXCEPT ![h] = n] /\ UNCHANGED <<activeMembers, pendingOnboarding, early>>
    BY <1>1, <1>2, <1>5 DEF Goes
  <2>12. n.at \notin {"absent", "idle"} /\ run[h].at \notin {"absent", "idle"}
         /\ n.member = run[h].member
    BY <1>1, <1>4, <1>6
  <2>13. QInv'
    BY <1>3, <1>6, <2>7, <2>8, <2>9, <2>10, <2>11, <2>12, OneRunMoves DEF VInv, RInv
  <2> QED BY <2>3, <2>4, <2>5, <2>6, <2>13 DEF VInv, RInv
<1> QED BY <1>2, <1>9, <1>10

-----------------------------------------------------------------------------
(***************************************************************************)
(* The invariant holds when the bot starts for the first time, ...         *)
(***************************************************************************)
LEMMA VInvInitially == Init => VInv
<1> SUFFICES ASSUME Init PROVE VInv OBVIOUS
<1>1. /\ inGuild = [m \in Members |-> FALSE] /\ verified = [m \in Members |-> FALSE]
      /\ voice = [m \in Members |-> 0] /\ created = 0 /\ owner = <<>> /\ open = {}
      /\ privateChannels = [m \in Members |-> 0] /\ creating = {}
      /\ unchecked = {} /\ unvisited = {}
  BY DEF Init
<1>2. RoomTypes
  <2>1. created \in 0..maxRooms BY <1>1, BoundsAssumption
  <2>2. owner \in Seq(Members) /\ Len(owner) = created BY <1>1
  <2>3. privateChannels \in [Members -> 0..created] BY <1>1
  <2> QED BY <1>1, <2>1, <2>2, <2>3 DEF RoomTypes
<1>3. \A m \in Members : MemberInOrder(m) BY <1>1 DEF MemberInOrder
<1>4. \A m \in Members \ doubled : OneRoom(m) BY <1>1 DEF OneRoom
<1>5. \A m \in Untroubled : RoomsAreTrue(m)
  BY <1>1 DEF RoomsAreTrue, shouldOnboard, Untroubled
<1>6. QInv BY QueueStartsTrue
<1> QED BY <1>2, <1>3, <1>4, <1>5, <1>6 DEF VInv, RInv

(***************************************************************************)
(* ... every action keeps it, ...                                          *)
(***************************************************************************)
LEMMA VInvIsKept == VInv /\ [Next]_vars => VInv'
<1> SUFFICES ASSUME VInv, [Next]_vars PROVE VInv' OBVIOUS
<1>1. ASSUME NEW m \in Members, NEW to \in 0..maxRooms, Move(m, to) PROVE VInv'
  BY <1>1, MoveKeeps
<1>2. ASSUME NEW m \in Members, handleMemberAdd(m) PROVE VInv' BY <1>2, MemberAddKeeps
<1>3. ASSUME NEW m \in Members, handleMemberRemove(m) PROVE VInv' BY <1>3, MemberRemoveKeeps
<1>4. ASSUME NEW call \in Call, Creation(call) PROVE VInv'
  BY <1>4, ChannelCreatedKeeps, CreationFailsKeeps DEF Creation
<1>5. CASE startHelperWorkers BY <1>5, HelpersStartKeeps
<1>6. CASE Reconcile BY <1>6, ReconcileKeeps
<1>7. ASSUME NEW h \in Helpers, Plays(h) PROVE VInv' BY <1>7, PlaysKeeps
<1>8. ASSUME NEW h \in Helpers, Step(h) PROVE VInv'
  BY <1>8, RunStepsKeep, AddRoleKeeps, DisconnectKeeps, DeleteRoomKeeps, CleanUpKeeps DEF Step
<1>9. CASE Restart BY <1>9, RestartKeeps
<1>10. CASE UNCHANGED vars
  <2>1. UNCHANGED <<inGuild, verified, voice, created, owner, open, privateChannels,
                    creating, rounds, unchecked, unvisited, doubled, crossed>>
        /\ UNCHANGED queueVars
    BY <1>10 DEF vars, discordVars, roundVars, history
  <2>2. RInv' BY <2>1, RoomsRest DEF VInv
  <2>3. QInv' BY <2>1, NothingStirs, QueueRests DEF VInv, RInv
  <2> QED BY <2>2, <2>3 DEF VInv
<1> QED BY <1>1, <1>2, <1>3, <1>4, <1>5, <1>6, <1>7, <1>8, <1>9, <1>10 DEF Next

(***************************************************************************)
(* ... so it always holds.                                                 *)
(***************************************************************************)
LEMMA VInvHolds == Spec => []VInv
BY VInvInitially, VInvIsKept, PTL DEF Spec

-----------------------------------------------------------------------------
(***************************************************************************)
(* A set of one element at most has the cardinality 0 or 1.                *)
(***************************************************************************)
LEMMA AtMostOne ==
  ASSUME NEW S, IsFiniteSet(S), \A x, y \in S : x = y
  PROVE  Cardinality(S) = IF S = {} THEN 0 ELSE 1
<1>1. CASE S = {} BY <1>1, FS_EmptySet
<1>2. ASSUME NEW x \in S PROVE Cardinality(S) = 1
  <2>1. S = {x} BY <1>2
  <2> QED BY <2>1, FS_Singleton
<1> QED BY <1>1, <1>2

(***************************************************************************)
(* However the newcomers come and go, and whatever becomes of their runs:  *)
(* the bot has a member marked as active exactly while one job of theirs   *)
(* waits or is run, and nobody waits while a helper is free, but for those *)
(* who came before the helpers had logged in (voice-service.js, 304 and    *)
(* 319-337).                                                               *)
(***************************************************************************)
THEOREM Queue == Spec => []QueueIsServed
<1>1. VInv => ActiveIffServed
  <2> SUFFICES ASSUME VInv, NEW m \in Members
               PROVE  Cardinality(Waiting(m)) + Cardinality(Served(m)) =
                        IF m \in activeMembers THEN 1 ELSE 0
    BY DEF ActiveIffServed
  <2>1. QueueInOrder(pendingOnboarding, run, activeMembers) BY DEF VInv, QInv
  <2>2. m # None BY MembersAssumption
  <2>3. IsFiniteSet(Waiting(m)) /\ \A i, j \in Waiting(m) : i = j
    <3>1. DOMAIN pendingOnboarding = 1..Len(pendingOnboarding) /\ Len(pendingOnboarding) \in Int
      BY JobsAreJobs DEF VInv, QInv
    <3>2. IsFiniteSet(1..Len(pendingOnboarding))
      BY <3>1, FS_Interval
    <3>3. Waiting(m) \in SUBSET (1..Len(pendingOnboarding)) BY <3>1 DEF Waiting
    <3>4. IsFiniteSet(Waiting(m)) BY <3>2, <3>3, FS_Subset
    <3> QED BY <2>1, <3>4 DEF QueueInOrder, Waiting
  <2>4. IsFiniteSet(Served(m)) /\ \A g, h \in Served(m) : g = h
    <3>1. helperCount \in Int BY BoundsAssumption
    <3>2. IsFiniteSet(Helpers) BY <3>1, FS_Interval DEF Helpers
    <3>3. IsFiniteSet(Served(m)) BY <3>2, FS_Subset DEF Served
    <3> QED BY <2>1, <2>2, <3>3 DEF QueueInOrder, Served
  <2>5. /\ Waiting(m) = {} \/ Served(m) = {}
        /\ m \in activeMembers <=> Waiting(m) # {} \/ Served(m) # {}
    BY <2>1, <2>2 DEF QueueInOrder, Waiting, Served
  <2> QED BY <2>3, <2>4, <2>5, AtMostOne
<1>2. VInv => QueueIsServed BY <1>1 DEF VInv, QInv, QueueIsServed
<1> QED BY <1>2, VInvHolds, PTL

(***************************************************************************)
(* And in whatever order the rounds, the creations, the departures and the *)
(* restarts come: the room noted for a newcomer is there, and whoever is   *)
(* about to be unlocked has listened long enough without leaving, unless   *)
(* the bot made them two rooms or they left while it was at work on one    *)
(* (voice-service.js, 240, 301, 390 and 397).                              *)
(***************************************************************************)
THEOREM Notes == Spec => []NotesAreTrue
<1>1. VInv => ListenedBeforeUnlocked
  <2> SUFFICES ASSUME VInv, NEW h \in Helpers, run[h].at = "unlock"
               PROVE  run[h].enough /\ (run[h].away => run[h].member \in doubled \cup crossed)
    BY DEF ListenedBeforeUnlocked
  <2>1. RunInOrder(run[h]) /\ RunIsTrue(run[h]) /\ run[h] \in Run BY DEF VInv, QInv
  <2>2. run[h].enough /\ run[h].member \in Members BY <2>1 DEF RunInOrder, Run
  <2> QED BY <2>1, <2>2 DEF RunIsTrue, Untroubled
<1>2. VInv => NotedRoomIsOpen
  BY DEF VInv, RInv, RoomsAreTrue, Untroubled, NotedRoomIsOpen
<1>3. VInv => NotesAreTrue BY <1>1, <1>2 DEF NotesAreTrue
<1> QED BY <1>3, VInvHolds, PTL

-----------------------------------------------------------------------------
(***************************************************************************)
(* GuildSetup.  The steps of a run that walk through the channels.         *)
(***************************************************************************)
Walk == {"channels", "unlock", "bots", "close"}

(***************************************************************************)
(* The channels it works on are its own, and those it will shut are open   *)
(* to the role.                                                            *)
(***************************************************************************)
WalkIsSafe ==
  /\ own \cap hidden = {}
  /\ at \in {"unlock", "bots"} => channel \in Channels \cap own
  /\ at = "bots" => channel \in unlocked
  /\ gated \subseteq own \cap unlocked
  /\ at \notin Walk => gated = {}

(***************************************************************************)
(* What comes before its place in the script is there.                     *)
(***************************************************************************)
MadeSoFar ==
  /\ \A i \in 1..(piece - 1) : Setup!Script[i] \in there \cup {"panel"}
  /\ at \in {"role", "everyone", "topic"} => Setup!Script[piece] \in there
  /\ at = "own" => Setup!Script[piece] \in there
  /\ at \in {"members", "backfill"} \cup Walk => there = Setup!Things

(***************************************************************************)
(* No channel is forgotten: each that the bot can edit is yet to be        *)
(* visited, under way, noted, or shut.                                     *)
(***************************************************************************)
NoneForgotten ==
  /\ at = "channels" => Channels \ hidden \subseteq visits \cup gated \cup shut
  /\ at \in {"unlock", "bots"} =>
       Channels \ hidden \subseteq visits \cup {channel} \cup gated \cup shut
  /\ at = "close" => Channels \ hidden \subseteq gated \cup shut

Staying == people \ late

(***************************************************************************)
(* Whoever was there when the members were fetched, and stayed, is known,  *)
(* and has the role before the channels come.                              *)
(***************************************************************************)
MembersHaveRole ==
  /\ (known \ late) \cap people \subseteq haveRole
  /\ at \in {"backfill"} \cup Walk => Staying \subseteq members
  /\ at = "backfill" => Staying \cap People \subseteq haveRole \cup visits
  /\ at \in Walk => Staying \cap People \subseteq haveRole

(***************************************************************************)
(* The other bots are let in before a channel is noted.                    *)
(***************************************************************************)
BotsAreLetIn ==
  /\ \A c \in gated : Setup!nonAdminBots \subseteq welcome[c]
  /\ at = "bots" => Setup!nonAdminBots \subseteq welcome[channel] \cup guests

SetupInv ==
  /\ Setup!TypeOK
  /\ SetupIsTrue
  /\ WalkIsSafe
  /\ MadeSoFar
  /\ NoneForgotten
  /\ MembersHaveRole
  /\ BotsAreLetIn

-----------------------------------------------------------------------------
(***************************************************************************)
(* The script has sixteen pieces, all but one of them things; channels are *)
(* none of them.                                                           *)
(***************************************************************************)
LEMMA ScriptFacts ==
  /\ DOMAIN Setup!Script = 1..16 /\ Len(Setup!Script) = 16
  /\ \A i \in 1..16 : Setup!Script[i] \in Setup!Things \cup {"panel"}
  /\ {"deobfuscate", "startHere"} \subseteq Setup!Things
  /\ "deobfuscate" \notin Channels /\ "startHere" \notin Channels
  /\ "panel" \notin Setup!Things
  /\ \A t \in Setup!Things : \E i \in 1..16 : t = Setup!Script[i]
<1>1. DOMAIN Setup!Script = 1..16 /\ Len(Setup!Script) = 16 BY DEF Setup!Script
<1>2. Setup!Script[2] = "deobfuscate" /\ Setup!Script[15] = "startHere" BY DEF Setup!Script
<1>3. {"deobfuscate", "startHere"} \subseteq Setup!Things
  BY <1>1, <1>2 DEF Setup!Things
<1>4. \A i \in 1..16 : Setup!Script[i] \in Setup!Things \cup {"panel"}
  BY <1>1 DEF Setup!Things
<1>5. \A t \in Setup!Things : \E i \in 1..16 : t = Setup!Script[i]
  BY <1>1 DEF Setup!Things
<1> QED BY <1>1, <1>3, <1>4, <1>5, SetupAssumption DEF Setup!Assumptions, Setup!Things

(***************************************************************************)
(* Before the first run nothing is shut and nothing is known.              *)
(***************************************************************************)
LEMMA SetupInitial == Setup!Init => SetupInv
<1> SUFFICES ASSUME Setup!Init PROVE SetupInv OBVIOUS
<1> USE DEF Setup!Init, Setup!NoRun
<1>1. Setup!TypeOK
  <2>1. there \subseteq Setup!Things BY SetupAssumption DEF Setup!Assumptions
  <2>2. people \subseteq Setup!Everybody /\ haveRole \subseteq people \cap People OBVIOUS
  <2>3. at \in Setup!Steps /\ piece \in DOMAIN Setup!Script BY ScriptFacts DEF Setup!Steps
  <2>4. {own, unlocked, shut} \subseteq SUBSET Setup!Doors OBVIOUS
  <2>5. welcome \in [Channels -> SUBSET Bots] OBVIOUS
  <2>6. {panels, unread, setups, moves} \subseteq Nat OBVIOUS
  <2> QED BY <2>1, <2>2, <2>3, <2>4, <2>5, <2>6 DEF Setup!TypeOK
<1>2. SetupIsTrue BY DEF SetupIsTrue, Setup!SetupIsTrue
<1>3. WalkIsSafe BY DEF WalkIsSafe, Walk
<1>4. MadeSoFar BY DEF MadeSoFar, Walk
<1>5. NoneForgotten /\ MembersHaveRole /\ BotsAreLetIn
  BY DEF NoneForgotten, MembersHaveRole, BotsAreLetIn, Walk
<1> QED BY <1>1, <1>2, <1>3, <1>4, <1>5 DEF SetupInv

(***************************************************************************)
(* To start a run disturbs nothing.                                        *)
(***************************************************************************)
LEMMA SetupStarts ==
  ASSUME SetupInv, Setup!Start PROVE SetupInv'
<1> USE DEF SetupInv, Setup!Start, Setup!guildVars, Setup!overwriteVars
<1>1. Setup!TypeOK' BY DEF Setup!TypeOK, Setup!Steps
<1>2. SetupIsTrue' BY DEF SetupIsTrue, Setup!SetupIsTrue
<1>3. WalkIsSafe' BY DEF WalkIsSafe, Walk
<1>4. MadeSoFar' BY DEF MadeSoFar, Walk
<1>5. NoneForgotten' /\ MembersHaveRole' /\ BotsAreLetIn'
  BY DEF NoneForgotten, MembersHaveRole, BotsAreLetIn, Walk, Staying, Setup!nonAdminBots
<1> QED BY <1>1, <1>2, <1>3, <1>4, <1>5

(***************************************************************************)
(* Nor does it to end one, whatever it was at: it leaves what it did.      *)
(***************************************************************************)
LEMMA SetupFails ==
  ASSUME SetupInv, Setup!Fail PROVE SetupInv'
<1> USE DEF SetupInv, Setup!Fail, Setup!guildVars, Setup!overwriteVars, Setup!pastVars
<1>1. Setup!TypeOK' BY ScriptFacts DEF Setup!TypeOK, Setup!Steps
<1>2. SetupIsTrue' BY DEF SetupIsTrue, Setup!SetupIsTrue
<1>3. WalkIsSafe' BY DEF WalkIsSafe, Walk
<1>4. MadeSoFar' BY DEF MadeSoFar, Walk
<1>5. NoneForgotten' /\ MembersHaveRole' /\ BotsAreLetIn'
  BY DEF NoneForgotten, MembersHaveRole, BotsAreLetIn, Walk, Staying, Setup!nonAdminBots
<1> QED BY <1>1, <1>2, <1>3, <1>4, <1>5

(***************************************************************************)
(* The next piece of the script, once there is this one.                   *)
(***************************************************************************)
LEMMA SetupPieces ==
  ASSUME Setup!TypeOK, MadeSoFar, Setup!NextPiece,
         there' \in SUBSET Setup!Things, there \subseteq there',
         Setup!Script[piece] \in there' \cup {"panel"}
  PROVE  /\ at' \in {"ensure", "members"} /\ piece' \in 1..16
         /\ MadeSoFar'
<1> USE ScriptFacts
<1>1. piece \in 1..16 BY DEF Setup!TypeOK
<1>2. \A i \in 1..piece : Setup!Script[i] \in there' \cup {"panel"}
  BY <1>1 DEF MadeSoFar
<1>3. CASE piece < 16 /\ at' = "ensure" /\ piece' = piece + 1
  <2>1. piece' \in 1..16 /\ piece' - 1 = piece BY <1>1, <1>3
  <2> QED BY <2>1, <1>2, <1>3 DEF MadeSoFar, Walk
<1>4. CASE piece = 16 /\ at' = "members" /\ piece' = piece
  <2>1. Setup!Things \subseteq there' BY <1>2, <1>4
  <2> QED BY <2>1, <1>1, <1>2, <1>4 DEF MadeSoFar, Walk
<1> QED BY <1>3, <1>4 DEF Setup!NextPiece

(***************************************************************************)
(* While the things are made, no channel of the members is touched.        *)
(***************************************************************************)
LEMMA SetupMakes ==
  ASSUME SetupInv, Setup!Make \/ Setup!Find PROVE SetupInv'
<1> USE DEF SetupInv
<1> DEFINE thing == Setup!Script[piece]
<1>1. /\ at = "ensure" /\ Setup!NextPiece
      /\ there' \in {there, there \cup {thing}} /\ thing \in there'
      /\ there' \subseteq Setup!Things
      /\ own \subseteq own' /\ own' \cap Channels = own \cap Channels
      /\ own' \subseteq Setup!Doors /\ unlocked' \subseteq Setup!Doors
      /\ shut' \subseteq Setup!Doors
      /\ unlocked \subseteq unlocked' /\ shut' \cap Channels = shut \cap Channels
      /\ shut \subseteq shut'
      /\ UNCHANGED <<panels, people, haveRole, hidden, welcome, Setup!restOfRun,
                     Setup!pastVars>>
  <2>1. Setup!TypeOK /\ {"deobfuscate"} \subseteq Setup!Doors
    BY DEF Setup!Doors
  <2>2. Setup!Doors \cap Setup!Things \cap Channels = {}
        /\ Setup!Things \cap Channels = {} /\ "deobfuscate" \notin Channels
    BY ScriptFacts, SetupAssumption DEF Setup!Assumptions
  <2>3. CASE Setup!Make
    <3>1. there' = there \cup {thing} /\ thing \in Setup!Things BY <2>3 DEF Setup!Make
    <3>2. own' = own \cup ({thing} \cap Setup!Doors) /\ shut' = shut \cup ({thing} \cap Setup!Doors)
          /\ unlocked' = unlocked \cup ({thing} \cap {"deobfuscate"})
      BY <2>3 DEF Setup!Make
    <3>3. /\ own' \subseteq Setup!Doors /\ unlocked' \subseteq Setup!Doors
          /\ shut' \subseteq Setup!Doors
      BY <2>1, <3>2 DEF Setup!TypeOK
    <3>4. own' \cap Channels = own \cap Channels /\ shut' \cap Channels = shut \cap Channels
      BY <2>2, <3>1, <3>2
    <3> QED BY <2>1, <2>3, <3>1, <3>2, <3>3, <3>4 DEF Setup!Make, Setup!TypeOK
  <2>4. CASE Setup!Find
    BY <2>1, <2>4 DEF Setup!Find, Setup!guildVars, Setup!overwriteVars, Setup!TypeOK
  <2> QED BY <2>3, <2>4
<1>2. at' \in {"ensure", "members"} /\ piece' \in 1..16 /\ MadeSoFar'
  BY <1>1, SetupPieces
<1> USE DEF Setup!restOfRun, Setup!pastVars
<1>3. Setup!TypeOK' BY <1>1, <1>2, ScriptFacts DEF Setup!TypeOK, Setup!Steps
<1>4. SetupIsTrue' BY <1>1 DEF SetupIsTrue, Setup!SetupIsTrue, Setup!TypeOK
<1>5. WalkIsSafe' BY <1>1, <1>2 DEF WalkIsSafe, Walk, Setup!TypeOK
<1>6. NoneForgotten' /\ MembersHaveRole' /\ BotsAreLetIn'
  BY <1>1, <1>2
     DEF NoneForgotten, MembersHaveRole, BotsAreLetIn, Walk, Staying, Setup!nonAdminBots, WalkIsSafe
<1> QED BY <1>2, <1>3, <1>4, <1>5, <1>6

(***************************************************************************)
(* The channel for the command is edited: the bot is let in first, then    *)
(* the role, then everyone is kept out.                                    *)
(***************************************************************************)
LEMMA SetupEditsCommandChannel ==
  ASSUME SetupInv, Setup!EditCommandChannel PROVE SetupInv'
<1> USE DEF SetupInv
<1>1. /\ own' \in {own, own \cup {"deobfuscate"}}
      /\ unlocked' \in {unlocked, unlocked \cup {"deobfuscate"}}
      /\ shut' \in {shut, shut \cup {"deobfuscate"}}
      /\ at \in {"ensure", "role", "everyone", "topic"}
      /\ Setup!Script[piece] \in there
      /\ UNCHANGED <<there, panels, people, haveRole, hidden, welcome, Setup!restOfRun,
                     Setup!pastVars>>
      /\ \/ at' \in {"role", "everyone", "topic"} /\ piece' = piece
         \/ Setup!NextPiece
  BY DEF Setup!EditCommandChannel, Setup!guildVars, MadeSoFar
<1>2. /\ at' \in {"ensure", "members", "role", "everyone", "topic"} /\ piece' \in 1..16
      /\ MadeSoFar'
  <2>1. CASE Setup!NextPiece BY <1>1, <2>1, SetupPieces DEF Setup!TypeOK
  <2>2. CASE at' \in {"role", "everyone", "topic"} /\ piece' = piece
    BY <1>1, <2>2, ScriptFacts DEF Setup!TypeOK, MadeSoFar, Walk
  <2> QED BY <1>1, <2>1, <2>2
<1>3. /\ own' \cap Channels = own \cap Channels
      /\ shut' \cap Channels = shut \cap Channels
      /\ own \subseteq own' /\ unlocked \subseteq unlocked' /\ shut \subseteq shut'
      /\ {own', unlocked', shut'} \subseteq SUBSET Setup!Doors
  BY <1>1, ScriptFacts DEF Setup!TypeOK, Setup!Doors
<1> USE DEF Setup!restOfRun, Setup!pastVars
<1>4. Setup!TypeOK' BY <1>1, <1>2, <1>3, ScriptFacts DEF Setup!TypeOK, Setup!Steps
<1>5. SetupIsTrue' BY <1>1, <1>3 DEF SetupIsTrue, Setup!SetupIsTrue, Setup!TypeOK
<1>6. WalkIsSafe' BY <1>1, <1>2, <1>3 DEF WalkIsSafe, Walk, Setup!TypeOK
<1>7. NoneForgotten' /\ MembersHaveRole' /\ BotsAreLetIn'
  BY <1>1, <1>2
     DEF NoneForgotten, MembersHaveRole, BotsAreLetIn, Walk, Staying, Setup!nonAdminBots, WalkIsSafe
<1> QED BY <1>2, <1>4, <1>5, <1>6, <1>7

(***************************************************************************)
(* The Start Here category is edited: everyone's overwrite before the      *)
(* bot's own.                                                              *)
(***************************************************************************)
LEMMA SetupEditsStartHere ==
  ASSUME SetupInv, Setup!EditStartHere PROVE SetupInv'
<1> USE DEF SetupInv
<1>1. /\ own' \in {own, own \cup {"startHere"}} /\ unlocked' = unlocked
      /\ shut' \in {shut, shut \cup {"startHere"}}
      /\ at \in {"ensure", "own"}
      /\ Setup!Script[piece] \in there
      /\ UNCHANGED <<there, panels, people, haveRole, hidden, welcome, Setup!restOfRun,
                     Setup!pastVars>>
      /\ \/ at' = "own" /\ piece' = piece
         \/ Setup!NextPiece
  BY DEF Setup!EditStartHere, Setup!guildVars, MadeSoFar
<1>2. at' \in {"ensure", "members", "own"} /\ piece' \in 1..16 /\ MadeSoFar'
  <2>1. CASE Setup!NextPiece BY <1>1, <2>1, SetupPieces DEF Setup!TypeOK
  <2>2. CASE at' = "own" /\ piece' = piece
    BY <1>1, <2>2, ScriptFacts DEF Setup!TypeOK, MadeSoFar, Walk
  <2> QED BY <1>1, <2>1, <2>2
<1>3. /\ own' \cap Channels = own \cap Channels
      /\ shut' \cap Channels = shut \cap Channels
      /\ own \subseteq own' /\ shut \subseteq shut'
      /\ {own', unlocked', shut'} \subseteq SUBSET Setup!Doors
  BY <1>1, ScriptFacts DEF Setup!TypeOK, Setup!Doors
<1> USE DEF Setup!restOfRun, Setup!pastVars
<1>4. Setup!TypeOK' BY <1>1, <1>2, <1>3, ScriptFacts DEF Setup!TypeOK, Setup!Steps
<1>5. SetupIsTrue' BY <1>1, <1>3 DEF SetupIsTrue, Setup!SetupIsTrue, Setup!TypeOK
<1>6. WalkIsSafe' BY <1>1, <1>2, <1>3 DEF WalkIsSafe, Walk, Setup!TypeOK
<1>7. NoneForgotten' /\ MembersHaveRole' /\ BotsAreLetIn'
  BY <1>1, <1>2
     DEF NoneForgotten, MembersHaveRole, BotsAreLetIn, Walk, Staying, Setup!nonAdminBots, WalkIsSafe
<1> QED BY <1>2, <1>4, <1>5, <1>6, <1>7

(***************************************************************************)
(* A second panel is sent only when the first was not found.               *)
(***************************************************************************)
LEMMA SetupShowsPanel ==
  ASSUME SetupInv, Setup!ShowPanel PROVE SetupInv'
<1> USE DEF SetupInv
<1>1. /\ at = "ensure" /\ Setup!Script[piece] = "panel" /\ Setup!NextPiece
      /\ panels' \in Nat /\ unread' \in Nat /\ panels' <= 1 + unread'
      /\ UNCHANGED <<there, people, haveRole, hidden, Setup!overwriteVars,
                     Setup!restOfRun, setups, moves, late>>
  BY DEF Setup!ShowPanel, Setup!TypeOK, SetupIsTrue, Setup!SetupIsTrue
<1>2. at' \in {"ensure", "members"} /\ piece' \in 1..16 /\ MadeSoFar'
  BY <1>1, SetupPieces DEF Setup!TypeOK
<1> USE DEF Setup!restOfRun, Setup!overwriteVars
<1>3. Setup!TypeOK' BY <1>1, <1>2, ScriptFacts DEF Setup!TypeOK, Setup!Steps
<1>4. SetupIsTrue' BY <1>1 DEF SetupIsTrue, Setup!SetupIsTrue
<1>5. WalkIsSafe' BY <1>1, <1>2 DEF WalkIsSafe, Walk
<1>6. NoneForgotten' /\ MembersHaveRole' /\ BotsAreLetIn'
  BY <1>1, <1>2
     DEF NoneForgotten, MembersHaveRole, BotsAreLetIn, Walk, Staying, Setup!nonAdminBots, WalkIsSafe
<1> QED BY <1>2, <1>3, <1>4, <1>5, <1>6

-----------------------------------------------------------------------------
(***************************************************************************)
(* The members are fetched, each is visited, and given the role.           *)
(***************************************************************************)
LEMMA SetupFetchesMembers ==
  ASSUME SetupInv, Setup!FetchMembers PROVE SetupInv'
<1> USE DEF SetupInv, Setup!FetchMembers, Setup!guildVars, Setup!overwriteVars
<1>1. Setup!TypeOK' BY DEF Setup!TypeOK, Setup!Steps
<1>2. SetupIsTrue' BY DEF SetupIsTrue, Setup!SetupIsTrue
<1>3. WalkIsSafe' BY DEF WalkIsSafe, Walk
<1>4. MadeSoFar' BY DEF MadeSoFar, Walk
<1>5. NoneForgotten' BY DEF NoneForgotten
<1>6. MembersHaveRole' BY DEF MembersHaveRole, Walk, Staying
<1>7. BotsAreLetIn' BY DEF BotsAreLetIn, WalkIsSafe, Walk
<1> QED BY <1>1, <1>2, <1>3, <1>4, <1>5, <1>6, <1>7

(***************************************************************************)
(* A member who was there when the members were fetched is given the role. *)
(***************************************************************************)
LEMMA SetupBackfills ==
  ASSUME SetupInv, NEW p \in People, Setup!Backfill(p) PROVE SetupInv'
<1> USE DEF SetupInv, Setup!Backfill, Setup!overwriteVars, Setup!pastVars
<1>1. Setup!TypeOK' BY DEF Setup!TypeOK
<1>2. SetupIsTrue' BY DEF SetupIsTrue, Setup!SetupIsTrue
<1>3. WalkIsSafe' BY DEF WalkIsSafe, Walk
<1>4. MadeSoFar' BY DEF MadeSoFar, Walk
<1>5. NoneForgotten' BY DEF NoneForgotten
<1>6. MembersHaveRole' BY DEF MembersHaveRole, Walk, Staying, Setup!LacksRole
<1>7. BotsAreLetIn' BY DEF BotsAreLetIn, Setup!nonAdminBots
<1> QED BY <1>1, <1>2, <1>3, <1>4, <1>5, <1>6, <1>7

(***************************************************************************)
(* The backfill is over, and the channels are listed.                      *)
(***************************************************************************)
LEMMA SetupBackfilled ==
  ASSUME SetupInv, Setup!Backfilled PROVE SetupInv'
<1> USE DEF SetupInv, Setup!Backfilled, Setup!guildVars, Setup!overwriteVars, Setup!pastVars
<1>1. Setup!TypeOK' BY DEF Setup!TypeOK, Setup!Steps
<1>2. SetupIsTrue' BY DEF SetupIsTrue, Setup!SetupIsTrue
<1>3. WalkIsSafe' BY DEF WalkIsSafe, Walk
<1>4. MadeSoFar' BY DEF MadeSoFar, Walk
<1>5. NoneForgotten' BY DEF NoneForgotten
<1>6. MembersHaveRole' BY DEF MembersHaveRole, Walk, Staying
<1>7. BotsAreLetIn' BY DEF BotsAreLetIn, Setup!nonAdminBots
<1> QED BY <1>1, <1>2, <1>3, <1>4, <1>5, <1>6, <1>7

-----------------------------------------------------------------------------
(***************************************************************************)
(* The channels, one after the other.  One that is skipped is hidden from  *)
(* the bot, or was shut before.                                            *)
(***************************************************************************)
LEMMA SetupVisits ==
  ASSUME SetupInv, NEW c \in Channels, Setup!Visit(c) PROVE SetupInv'
<1> USE DEF SetupInv, Setup!Visit, Setup!guildVars, Setup!pastVars, Setup!MayManage, Setup!MayEdit
<1>1. Setup!TypeOK' BY DEF Setup!TypeOK, Setup!Steps, Setup!Doors
<1>2. SetupIsTrue' BY DEF SetupIsTrue, Setup!SetupIsTrue
<1>3. WalkIsSafe' BY DEF WalkIsSafe, Walk
<1>4. MadeSoFar' BY DEF MadeSoFar, Walk
<1>5. NoneForgotten' BY DEF NoneForgotten, WalkIsSafe
<1>6. MembersHaveRole' BY DEF MembersHaveRole, Walk, Staying
<1>7. BotsAreLetIn' BY DEF BotsAreLetIn, Setup!nonAdminBots
<1> QED BY <1>1, <1>2, <1>3, <1>4, <1>5, <1>6, <1>7

(***************************************************************************)
(* The role's overwrite and those of the bots; with the last of them the   *)
(* channel is noted.                                                       *)
(***************************************************************************)
LEMMA SetupLetsIn ==
  ASSUME SetupInv, Setup!Unlock \/ \E b \in Bots : Setup!LetBotIn(b) PROVE SetupInv'
<1> USE DEF SetupInv
<1> DEFINE Enters(bots) ==
             /\ Setup!LetIn(bots)
             /\ at \in {"unlock", "bots"} /\ channel \in Channels \cap own
             /\ unlocked' = unlocked \cup {channel}
             /\ welcome' \in [Channels -> SUBSET Bots]
             /\ \A c \in Channels : welcome[c] \subseteq welcome'[c]
             /\ Setup!nonAdminBots \subseteq welcome'[channel] \cup bots
<1>1. PICK bots \in SUBSET Bots : Enters(bots)
  <2>1. CASE Setup!Unlock
    <3>1. Setup!nonAdminBots \in SUBSET Bots BY DEF Setup!nonAdminBots
    <3>2. welcome' = welcome /\ Setup!LetIn(Setup!nonAdminBots) /\ at = "unlock"
          /\ unlocked' = unlocked \cup {channel}
      BY <2>1 DEF Setup!Unlock
    <3> QED BY <3>1, <3>2 DEF WalkIsSafe, Setup!TypeOK
  <2>2. ASSUME NEW b \in Bots, Setup!LetBotIn(b) PROVE Enters(guests \ {b})
    <3>1. guests \ {b} \in SUBSET Bots BY DEF Setup!TypeOK
    <3>2. at = "bots" /\ channel \in Channels \cap own \cap unlocked
      BY <2>2 DEF Setup!LetBotIn, WalkIsSafe
    <3>3. welcome' = [welcome EXCEPT ![channel] = @ \cup {b}] /\ unlocked' = unlocked
          /\ Setup!LetIn(guests \ {b})
      BY <2>2 DEF Setup!LetBotIn
    <3>4. /\ welcome' \in [Channels -> SUBSET Bots]
          /\ \A c \in Channels : welcome[c] \subseteq welcome'[c]
          /\ b \in welcome'[channel]
      BY <3>2, <3>3 DEF Setup!TypeOK
    <3>5. Setup!nonAdminBots \subseteq welcome'[channel] \cup (guests \ {b})
      BY <3>2, <3>4 DEF BotsAreLetIn
    <3>6. unlocked' = unlocked \cup {channel} BY <3>2, <3>3
    <3> QED BY <3>1, <3>2, <3>3, <3>4, <3>5, <3>6
  <2>3. ASSUME NEW b \in Bots, Setup!LetBotIn(b) PROVE \E bots \in SUBSET Bots : Enters(bots)
    <3>1. guests \ {b} \in SUBSET Bots BY DEF Setup!TypeOK
    <3> QED BY <2>2, <2>3, <3>1
  <2> QED BY <2>1, <2>3
<1> USE <1>1 DEF Setup!LetIn, Setup!guildVars, Setup!pastVars
<1>2. Setup!TypeOK'
  <2>1. unlocked' \in SUBSET Setup!Doors BY DEF Setup!TypeOK, Setup!Doors
  <2>2. gated' \subseteq Channels /\ at' \in Setup!Steps /\ channel' \in Channels \cup {None}
    BY DEF Setup!TypeOK, Setup!Steps
  <2> QED BY <2>1, <2>2 DEF Setup!TypeOK
<1>3. SetupIsTrue' BY DEF SetupIsTrue, Setup!SetupIsTrue
<1>4. WalkIsSafe' BY DEF WalkIsSafe, Walk
<1>5. MadeSoFar' BY DEF MadeSoFar, Walk
<1>6. NoneForgotten' BY DEF NoneForgotten
<1>7. MembersHaveRole' BY DEF MembersHaveRole, Walk, Staying
<1>8. BotsAreLetIn'
  <2>1. Setup!nonAdminBots' = Setup!nonAdminBots BY DEF Setup!nonAdminBots
  <2>2. \A c \in gated : Setup!nonAdminBots \subseteq welcome'[c]
    BY DEF BotsAreLetIn, Setup!TypeOK
  <2>3. \A c \in gated' : Setup!nonAdminBots \subseteq welcome'[c] BY <2>2
  <2> QED BY <2>1, <2>3 DEF BotsAreLetIn
<1> QED BY <1>2, <1>3, <1>4, <1>5, <1>6, <1>7, <1>8

(***************************************************************************)
(* Every channel was visited: those that were noted are shut next.         *)
(***************************************************************************)
LEMMA SetupVisited ==
  ASSUME SetupInv, Setup!Visited PROVE SetupInv'
<1> USE DEF SetupInv, Setup!Visited, Setup!guildVars, Setup!overwriteVars, Setup!pastVars
<1>1. Setup!TypeOK' BY DEF Setup!TypeOK, Setup!Steps
<1>2. SetupIsTrue' BY DEF SetupIsTrue, Setup!SetupIsTrue
<1>3. WalkIsSafe' BY DEF WalkIsSafe, Walk
<1>4. MadeSoFar' BY DEF MadeSoFar, Walk
<1>5. NoneForgotten' BY DEF NoneForgotten
<1>6. MembersHaveRole' BY DEF MembersHaveRole, Walk, Staying
<1>7. BotsAreLetIn' BY DEF BotsAreLetIn, Setup!nonAdminBots
<1> QED BY <1>1, <1>2, <1>3, <1>4, <1>5, <1>6, <1>7

(***************************************************************************)
(* A channel is shut once its bots are let in and the role opens it.       *)
(***************************************************************************)
LEMMA SetupCloses ==
  ASSUME SetupInv, NEW c \in Channels, Setup!Close(c) PROVE SetupInv'
<1> USE DEF SetupInv, Setup!Close, Setup!guildVars, Setup!pastVars
<1>1. Setup!TypeOK' BY DEF Setup!TypeOK, Setup!Doors
<1>2. SetupIsTrue' BY DEF SetupIsTrue, Setup!SetupIsTrue, WalkIsSafe
<1>3. WalkIsSafe' BY DEF WalkIsSafe, Walk
<1>4. MadeSoFar' BY DEF MadeSoFar, Walk
<1>5. NoneForgotten' BY DEF NoneForgotten
<1>6. MembersHaveRole' BY DEF MembersHaveRole, Walk, Staying
<1>7. BotsAreLetIn' BY DEF BotsAreLetIn, Setup!nonAdminBots
<1> QED BY <1>1, <1>2, <1>3, <1>4, <1>5, <1>6, <1>7

(***************************************************************************)
(* The ids are written when nothing is left to shut.                       *)
(***************************************************************************)
LEMMA SetupSaves ==
  ASSUME SetupInv, Setup!Save PROVE SetupInv'
<1> USE DEF SetupInv, Setup!Save, Setup!guildVars, Setup!overwriteVars, Setup!pastVars
<1>1. Setup!TypeOK' BY ScriptFacts DEF Setup!TypeOK, Setup!Steps
<1>2. SetupIsTrue' BY DEF SetupIsTrue, Setup!SetupIsTrue, NoneForgotten, MadeSoFar, Walk
<1>3. WalkIsSafe' BY DEF WalkIsSafe, Walk
<1>4. MadeSoFar' BY DEF MadeSoFar, Walk
<1>5. NoneForgotten' BY DEF NoneForgotten
<1>6. MembersHaveRole' BY DEF MembersHaveRole, Walk, Staying
<1>7. BotsAreLetIn' BY DEF BotsAreLetIn
<1> QED BY <1>1, <1>2, <1>3, <1>4, <1>5, <1>6, <1>7

-----------------------------------------------------------------------------
(***************************************************************************)
(* Who joins, leaves or is onboarded meanwhile.                            *)
(***************************************************************************)
LEMMA SetupPeopleMove ==
  ASSUME SetupInv, NEW m \in Setup!Everybody, Setup!Join(m) \/ Setup!Leave(m) PROVE SetupInv'
<1> USE DEF SetupInv, Setup!Join, Setup!Leave, Setup!runVars, Setup!overwriteVars
<1>1. Setup!TypeOK' BY DEF Setup!TypeOK, Setup!Everybody
<1>2. SetupIsTrue' BY DEF SetupIsTrue, Setup!SetupIsTrue
<1>3. WalkIsSafe' BY DEF WalkIsSafe, Walk
<1>4. MadeSoFar' BY DEF MadeSoFar, Walk
<1>5. NoneForgotten' BY DEF NoneForgotten
<1>6. MembersHaveRole'
  <2>1. Staying' \subseteq Staying BY DEF Staying
  <2>2. (haveRole \ {m}) \subseteq haveRole' /\ m \notin Staying' BY DEF Staying
  <2>3. ((known \ late) \cap people)' \subseteq haveRole' BY DEF MembersHaveRole
  <2> QED BY <2>1, <2>2, <2>3 DEF MembersHaveRole
<1>7. BotsAreLetIn' BY DEF BotsAreLetIn, Setup!nonAdminBots
<1> QED BY <1>1, <1>2, <1>3, <1>4, <1>5, <1>6, <1>7

(***************************************************************************)
(* Somebody is given the role by the bot, meanwhile.                       *)
(***************************************************************************)
LEMMA SetupOnboards ==
  ASSUME SetupInv, NEW p \in People, Setup!Onboard(p) PROVE SetupInv'
<1> USE DEF SetupInv, Setup!Onboard, Setup!overwriteVars, Setup!pastVars
<1>1. Setup!TypeOK' BY DEF Setup!TypeOK
<1>2. SetupIsTrue' BY DEF SetupIsTrue, Setup!SetupIsTrue
<1>3. WalkIsSafe' BY DEF WalkIsSafe, Walk
<1>4. MadeSoFar' BY DEF MadeSoFar, Walk
<1>5. NoneForgotten' BY DEF NoneForgotten
<1>6. MembersHaveRole' BY DEF MembersHaveRole, Walk, Staying
<1>7. BotsAreLetIn' BY DEF BotsAreLetIn, Setup!nonAdminBots
<1> QED BY <1>1, <1>2, <1>3, <1>4, <1>5, <1>6, <1>7

(***************************************************************************)
(* Every step of the script, and of the guild around it, keeps the         *)
(* invariant.                                                              *)
(***************************************************************************)
LEMMA SetupStep == SetupInv /\ [Setup!Next]_Setup!setupVars => SetupInv'
<1> SUFFICES ASSUME SetupInv, [Setup!Next]_Setup!setupVars PROVE SetupInv' OBVIOUS
<1>1. CASE UNCHANGED Setup!setupVars
  BY <1>1
     DEF Setup!setupVars, Setup!guildVars, Setup!overwriteVars, Setup!runVars, Setup!pastVars,
         SetupInv, Setup!TypeOK, SetupIsTrue, Setup!SetupIsTrue, WalkIsSafe, MadeSoFar,
         NoneForgotten, MembersHaveRole, BotsAreLetIn, Walk, Staying, Setup!nonAdminBots
<1>2. CASE Setup!Next
  BY <1>2, SetupStarts, SetupFails, SetupMakes, SetupEditsCommandChannel, SetupEditsStartHere,
     SetupShowsPanel, SetupFetchesMembers, SetupBackfills, SetupBackfilled, SetupVisits,
     SetupLetsIn, SetupVisited, SetupCloses, SetupSaves, SetupPeopleMove, SetupOnboards
     DEF Setup!Next
<1> QED BY <1>1, <1>2

(***************************************************************************)
(* So the invariant holds in every state of every behaviour.               *)
(***************************************************************************)
LEMMA SetupInvHolds == Setup!Spec => []SetupInv
BY SetupInitial, SetupStep, PTL DEF Setup!Spec

(***************************************************************************)
(* However often the setup breaks off and is run again: a channel that it  *)
(* has shut can be opened by the verified role and edited by the bot, none *)
(* is shut that the bot was kept out of, the ids are saved only when all   *)
(* the script's things are there and all other channels are shut, and a    *)
(* second panel is sent only when one was not found (setup-guild.js).      *)
(***************************************************************************)
THEOREM GuildIsSetUp == Setup!Spec => []SetupIsTrue
BY SetupInvHolds, PTL DEF SetupInv

(***************************************************************************)
(* And no step takes a channel away from a member or another bot that saw  *)
(* it, unless they leave, or came after the members were fetched: whoever  *)
(* was there has the role, and the bots their overwrites, before a channel *)
(* is shut (setup-guild.js, 268-283 and 386-431).                          *)
(***************************************************************************)
THEOREM NobodyIsLockedOut == Setup!Spec => AccessIsKept
<1> DEFINE KeepsAccess ==
             \A m \in people \ late, c \in Channels :
               Setup!CanSee(m, c) /\ m \in people' => Setup!CanSee(m, c)'
<1>1. SetupInv /\ [Setup!Next]_Setup!setupVars => [KeepsAccess]_Setup!setupVars
  <2> SUFFICES ASSUME SetupInv, Setup!Next, NEW m \in people \ late, NEW c \in Channels,
                      Setup!CanSee(m, c), m \in people'
               PROVE  Setup!CanSee(m, c)'
    OBVIOUS
  <2> USE DEF Setup!CanSee
  <2>1. CASE \E x \in Channels : Setup!Close(x)
    <3>1. PICK x \in Channels : Setup!Close(x) BY <2>1
    <3>2. /\ at = "close" /\ x \in gated /\ shut' = shut \cup {x}
          /\ UNCHANGED <<haveRole, unlocked, welcome>>
      BY <3>1 DEF Setup!Close, Setup!guildVars
    <3>3. m \in members /\ (m \in People => m \in haveRole)
      BY <3>2 DEF SetupInv, MembersHaveRole, Walk, Staying
    <3>4. x \in unlocked /\ Setup!nonAdminBots \subseteq welcome[x]
      BY <3>2 DEF SetupInv, WalkIsSafe, BotsAreLetIn
    <3>5. m \in People \/ m \in Bots BY DEF SetupInv, Setup!TypeOK, Setup!Everybody
    <3> QED BY <3>2, <3>3, <3>4, <3>5 DEF Setup!nonAdminBots
  <2>2. ASSUME shut' \cap Channels = shut \cap Channels, unlocked \subseteq unlocked',
               m \in haveRole => m \in haveRole',
               m \in Bots => welcome[c] \subseteq welcome'[c]
        PROVE  Setup!CanSee(m, c)'
    BY <2>2
  <2>3. CASE Setup!Make \/ Setup!Find \/ Setup!EditCommandChannel \/ Setup!EditStartHere
    <3>1. /\ shut' \subseteq shut \cup Setup!Things /\ shut \subseteq shut'
          /\ unlocked \subseteq unlocked' /\ UNCHANGED <<haveRole, welcome>>
      BY <2>3, ScriptFacts
         DEF Setup!Make, Setup!Find, Setup!EditCommandChannel, Setup!EditStartHere,
             Setup!guildVars, Setup!overwriteVars
    <3>2. Setup!Things \cap Channels = {} BY SetupAssumption DEF Setup!Assumptions
    <3> QED BY <2>2, <3>1, <3>2
  <2>4. CASE \E b \in Bots : Setup!LetBotIn(b)
    <3>1. PICK b \in Bots : Setup!LetBotIn(b) BY <2>4
    <3>2. UNCHANGED <<shut, unlocked, haveRole>>
          /\ welcome' = [welcome EXCEPT ![channel] = @ \cup {b}]
      BY <3>1 DEF Setup!LetBotIn, Setup!LetIn, Setup!guildVars
    <3>3. welcome[c] \subseteq welcome'[c] BY <3>2 DEF SetupInv, Setup!TypeOK
    <3> QED BY <2>2, <3>2, <3>3
  <2>5. CASE \E x \in Setup!Everybody : Setup!Leave(x)
    <3>1. PICK x \in Setup!Everybody : Setup!Leave(x) BY <2>5
    <3>2. m # x /\ haveRole' = haveRole \ {x} /\ UNCHANGED <<shut, unlocked, welcome>>
      BY <3>1 DEF Setup!Leave, Setup!overwriteVars
    <3> QED BY <2>2, <3>2
  <2>6. CASE \/ Setup!Start \/ Setup!Fail \/ Setup!ShowPanel \/ Setup!FetchMembers
             \/ Setup!Backfilled \/ Setup!Unlock \/ Setup!Visited \/ Setup!Save
             \/ \E p \in People : Setup!Backfill(p) \/ Setup!Onboard(p)
             \/ \E x \in Channels : Setup!Visit(x)
             \/ \E x \in Setup!Everybody : Setup!Join(x)
    <3>1. /\ shut' = shut /\ unlocked \subseteq unlocked' /\ haveRole \subseteq haveRole'
          /\ welcome' = welcome
      BY <2>6
         DEF Setup!Start, Setup!Fail, Setup!ShowPanel, Setup!FetchMembers, Setup!Backfilled,
             Setup!Unlock, Setup!Visited, Setup!Save, Setup!Backfill, Setup!Onboard,
             Setup!Visit, Setup!Join, Setup!LetIn, Setup!guildVars, Setup!overwriteVars
    <3> QED BY <2>2, <3>1
  <2> QED BY <2>1, <2>3, <2>4, <2>5, <2>6 DEF Setup!Next
<1> QED BY <1>1, SetupInvHolds, PTL DEF Setup!Spec, AccessIsKept, Setup!AccessIsKept

-----------------------------------------------------------------------------
(***************************************************************************)
(* RecoverCommand.  The role a user will have when all that is under way   *)
(* has arrived.                                                            *)
(***************************************************************************)
Target(u) == IF calls[u] = <<>> THEN role[u] ELSE calls[u][1]

(***************************************************************************)
(* A user nobody has to be unsure of: one change of the role at most is    *)
(* under way, the role will be what it is to be, and the last presence on  *)
(* its way is theirs.                                                      *)
(***************************************************************************)
RoleInOrder(u) ==
  /\ calls[u] = <<>> \/ news[u] = <<>>
  /\ Len(calls[u]) <= 1 /\ Len(news[u]) <= 1
  /\ news[u] # <<>> => news[u][1] = role[u]
  /\ calls[u] = <<>> /\ news[u] = <<>> => cached[u] = role[u]
  /\ updates[u] = <<>> => status[u] = Target(u)
  /\ updates[u] # <<>> => status[u] = updates[u][Len(updates[u])]

RolesAreInOrder == \A u \in Supporters : u \notin unsure => RoleInOrder(u)

RoleTypes ==
  /\ status \in [Supporters -> BOOLEAN] /\ role \in [Supporters -> BOOLEAN]
  /\ cached \in [Supporters -> BOOLEAN]
  /\ updates \in [Supporters -> Seq(BOOLEAN)] /\ news \in [Supporters -> Seq(BOOLEAN)]
  /\ calls \in [Supporters -> Seq(BOOLEAN)]
  /\ changes \in [Supporters -> Nat]
  /\ unsure \subseteq Supporters

(***************************************************************************)
(* What the state of a press says of it and of its worker.                 *)
(***************************************************************************)
PressInOrder(p, worker) ==
  /\ p.at # "new" => p.user \in Supporters
  /\ worker = "running" => p.at = "worker"
  /\ p.at = "hosted" => p.left # <<>>
  /\ p.at = "answer" => p.requested = 5
  /\ p.at \notin {"answer", "sorry", "done"} => p.executed = None
  /\ p.at = "done" /\ p.executed # None => (p.limited <=> p.executed # 5)

Busy == {"input", "worker", "hosted", "answer"}

(***************************************************************************)
(* A press that is alone is the only one of its user, and after the        *)
(* deferral their cooldown stands.                                         *)
(***************************************************************************)
AloneIsAlone(h) ==
  pressed[h].alone /\ Recover!UnderWay(h) =>
    /\ ~pressed[h].admin
    /\ \A g \in Presses \ {h} : Recover!UnderWay(g) => pressed[g].user # pressed[h].user
    /\ pressed[h].at \in Busy => cooldown[pressed[h].user]

(***************************************************************************)
(* How the last press ended is remembered until the next one, and what is  *)
(* under way meanwhile is an apology.                                      *)
(***************************************************************************)
LastIsLast(u) ==
  /\ last[u] # None => \A h \in Presses : Recover!UnderWay(h) /\ pressed[h].user = u =>
                                            pressed[h].at = "sorry"
  /\ last[u] = "success" => cooldown[u]
  /\ last[u] = "failure" => ~cooldown[u]

PressTypes ==
  /\ pressed \in [Presses -> Recover!Press]
  /\ child \in [Presses -> {"none", "running", "killed", "gone"}]
  /\ cooldown \in [Supporters -> BOOLEAN]
  /\ last \in [Supporters -> {"success", "failure", None}]

PressesAreInOrder == \A h \in Presses : PressInOrder(pressed[h], child[h])

AlonesAreAlone == \A h \in Presses : AloneIsAlone(h)

LastsAreLast == \A u \in Supporters : LastIsLast(u)

RoleInv == RoleTypes /\ RolesAreInOrder

PressInv == PressTypes /\ PressesAreInOrder /\ AlonesAreAlone /\ LastsAreLast

-----------------------------------------------------------------------------
(***************************************************************************)
(* None is no user, no stage and no outcome; the stages are three.         *)
(***************************************************************************)
LEMMA RecoverConstants ==
  /\ None \notin Supporters /\ None \notin Recover!Stage
  /\ None # "success" /\ None # "failure"
  /\ 5 \in Recover!Stage /\ 3 \in Recover!Stage /\ 2 \in Recover!Stage
BY RecoverAssumption DEF Recover!Assumptions, Recover!Stage

(***************************************************************************)
(* A press starts as one of the kind, and new.                             *)
(***************************************************************************)
LEMMA NewPressIsOne == Recover!NewPress \in Recover!Press /\ Recover!NewPress.at = "new"
BY DEF Recover!NewPress, Recover!Press, Recover!MAX_REDIRECTS

(***************************************************************************)
(* The last element of a sequence is that of its tail, if it has one.      *)
(***************************************************************************)
LEMMA LastOfTail ==
  ASSUME NEW S, NEW s \in Seq(S), s # <<>>
  PROVE  /\ s[1] \in S /\ Tail(s) \in Seq(S)
         /\ Tail(s) = <<>> => Len(s) = 1
         /\ Tail(s) # <<>> => Tail(s)[Len(Tail(s))] = s[Len(s)]
<1>1. Len(s) \in Nat /\ Len(s) # 0 OBVIOUS
<1>2. Len(Tail(s)) = Len(s) - 1 BY <1>1
<1>3. Tail(s) = <<>> => Len(Tail(s)) = 0
  <2>1. Len(<<>>) = 0 OBVIOUS
  <2> QED BY <2>1
<1>4. Tail(s) # <<>> => Tail(s)[Len(Tail(s))] = s[Len(s)] BY <1>1
<1>5. Tail(s) = <<>> => Len(s) = 1 BY <1>1, <1>2, <1>3
<1>6. s[1] \in S /\ Tail(s) \in Seq(S) OBVIOUS
<1> QED BY <1>4, <1>5, <1>6

(***************************************************************************)
(* The stages the host is asked for when the worker has failed.            *)
(***************************************************************************)
LEMMA FallbackStages ==
  \A code : /\ Recover!hostedFallbackStages(code) \in Seq(Recover!Stage)
            /\ Recover!hostedFallbackStages(code) # <<>>
BY RecoverConstants DEF Recover!hostedFallbackStages

(***************************************************************************)
(* In the beginning the role of whoever is sure is what their status says. *)
(***************************************************************************)
LEMMA RolesInitially == Recover!Init => RoleInv
<1> SUFFICES ASSUME Recover!Init PROVE RoleInv OBVIOUS
<1> USE DEF Recover!Init
<1>1. RoleTypes
  <2>1. CASE updates = [u \in Supporters |-> <<status[u]>>] /\ unsure = {} BY <2>1 DEF RoleTypes
  <2>2. CASE updates = [u \in Supporters |-> <<>>] /\ unsure = Supporters BY <2>2 DEF RoleTypes
  <2> QED BY <2>1, <2>2
<1>2. ASSUME NEW u \in Supporters, u \notin unsure PROVE RoleInOrder(u)
  <2>1. updates[u] = <<status[u]>> BY <1>2
  <2>2. calls[u] = <<>> /\ news[u] = <<>> /\ cached[u] = role[u] OBVIOUS
  <2> QED BY <2>1, <2>2 DEF RoleInOrder
<1> QED BY <1>1, <1>2 DEF RoleInv, RolesAreInOrder

(***************************************************************************)
(* In the beginning no press is under way and no cooldown stands.          *)
(***************************************************************************)
LEMMA PressesInitially == Recover!Init => PressInv
<1> SUFFICES ASSUME Recover!Init PROVE PressInv OBVIOUS
<1>1. /\ pressed = [h \in Presses |-> Recover!NewPress] /\ child = [h \in Presses |-> "none"]
      /\ cooldown = [u \in Supporters |-> FALSE] /\ last = [u \in Supporters |-> None]
  BY DEF Recover!Init
<1>2. PressTypes BY <1>1, NewPressIsOne DEF PressTypes
<1>3. PressesAreInOrder
  BY <1>1 DEF PressesAreInOrder, PressInOrder, Recover!NewPress
<1>4. AlonesAreAlone BY <1>1, NewPressIsOne DEF AlonesAreAlone, AloneIsAlone, Recover!UnderWay
<1>5. LastsAreLast BY <1>1, RecoverConstants DEF LastsAreLast, LastIsLast
<1> QED BY <1>2, <1>3, <1>4, <1>5 DEF PressInv

(***************************************************************************)
(* The role.  A presence is lost to nobody, and a user whose presence      *)
(* comes while a change is under way is one to be unsure of.               *)
(***************************************************************************)
LEMMA RoleStep ==
  ASSUME RoleInv, NEW u \in Supporters,
         \/ Recover!ChangeStatus(u) \/ Recover!Synced(u)
         \/ Recover!RoleChanges(u) \/ Recover!MemberUpdates(u)
  PROVE  RoleInv'
<1> USE DEF RoleInv
<1>1. RoleTypes'
  <2>1. CASE Recover!ChangeStatus(u) BY <2>1 DEF Recover!ChangeStatus, RoleTypes
  <2>2. CASE Recover!Synced(u)
    <3>1. updates[u] \in Seq(BOOLEAN) /\ updates[u] # <<>> BY <2>2 DEF Recover!Synced, RoleTypes
    <3>2. Recover!Shown(u) \in BOOLEAN /\ Tail(updates[u]) \in Seq(BOOLEAN)
      <4>1. updates[u][1] \in BOOLEAN /\ Tail(updates[u]) \in Seq(BOOLEAN)
        BY <3>1, LastOfTail, Zenon
      <4>2. Recover!Shown(u) = updates[u][1] BY <3>1 DEF Recover!Shown
      <4> QED BY <4>1, <4>2
    <3>3. updates' \in [Supporters -> Seq(BOOLEAN)] BY <2>2, <3>2 DEF Recover!Synced, RoleTypes
    <3>4. Append(calls[u], Recover!Shown(u)) \in Seq(BOOLEAN) BY <3>2 DEF RoleTypes
    <3>5. calls' \in [Supporters -> Seq(BOOLEAN)] BY <2>2, <3>4 DEF Recover!Synced, RoleTypes
    <3> QED BY <2>2, <3>3, <3>5 DEF Recover!Synced, RoleTypes
  <2>3. CASE Recover!RoleChanges(u)
    <3>1. calls[u] \in Seq(BOOLEAN) /\ calls[u] # <<>>
      BY <2>3 DEF Recover!RoleChanges, RoleTypes
    <3>2. Head(calls[u]) \in BOOLEAN /\ Tail(calls[u]) \in Seq(BOOLEAN)
      <4>1. calls[u][1] \in BOOLEAN /\ Tail(calls[u]) \in Seq(BOOLEAN) BY <3>1, LastOfTail, Zenon
      <4> QED BY <3>1, <4>1
    <3>3. calls' \in [Supporters -> Seq(BOOLEAN)] BY <2>3, <3>2 DEF Recover!RoleChanges, RoleTypes
    <3>4. Append(news[u], Head(calls[u])) \in Seq(BOOLEAN) BY <3>2 DEF RoleTypes
    <3>5. news' \in [Supporters -> Seq(BOOLEAN)] BY <2>3, <3>4 DEF Recover!RoleChanges, RoleTypes
    <3>6. role' \in [Supporters -> BOOLEAN] BY <2>3, <3>2 DEF Recover!RoleChanges, RoleTypes
    <3> QED BY <2>3, <3>3, <3>5, <3>6 DEF Recover!RoleChanges, RoleTypes
  <2>4. CASE Recover!MemberUpdates(u) BY <2>4 DEF Recover!MemberUpdates, RoleTypes
  <2> QED BY <2>1, <2>2, <2>3, <2>4
<1>2. unsure \subseteq unsure'
  BY DEF Recover!ChangeStatus, Recover!Synced, Recover!RoleChanges, Recover!MemberUpdates
<1>3. ASSUME NEW v \in Supporters, v # u, v \notin unsure PROVE RoleInOrder(v)'
  <2>1. /\ status'[v] = status[v] /\ role'[v] = role[v] /\ cached'[v] = cached[v]
        /\ updates'[v] = updates[v] /\ news'[v] = news[v] /\ calls'[v] = calls[v]
    BY <1>3 DEF Recover!ChangeStatus, Recover!Synced, Recover!RoleChanges,
                Recover!MemberUpdates, RoleTypes
  <2>2. RoleInOrder(v) BY <1>3 DEF RolesAreInOrder
  <2> QED BY <2>1, <2>2 DEF RoleInOrder, Target
<1>4. ASSUME u \notin unsure' PROVE RoleInOrder(u)'
  <2>0. RoleInOrder(u) BY <1>2, <1>4 DEF RolesAreInOrder
  <2>1. CASE Recover!ChangeStatus(u)
    <3>1. /\ updates'[u] = Append(updates[u], status'[u])
          /\ UNCHANGED <<role, news, cached, calls>>
      BY <2>1 DEF Recover!ChangeStatus, RoleTypes
    <3>2. updates[u] \in Seq(BOOLEAN) BY DEF RoleTypes
    <3>3. updates'[u] # <<>> /\ updates'[u][Len(updates'[u])] = status'[u] BY <3>1, <3>2
    <3> QED BY <2>0, <3>1, <3>3 DEF RoleInOrder
  <2>2. CASE Recover!Synced(u)
    <3>1. /\ updates[u] # <<>> /\ updates'[u] = Tail(updates[u])
          /\ calls'[u] = IF Recover!Shown(u) = cached[u] THEN calls[u]
                         ELSE Append(calls[u], Recover!Shown(u))
          /\ UNCHANGED <<status, role, news, cached>>
      BY <2>2 DEF Recover!Synced, RoleTypes
    <3>2. calls[u] \o news[u] = <<>> BY <1>4, <2>2 DEF Recover!Synced
    <3>3. calls[u] \in Seq(BOOLEAN) /\ news[u] \in Seq(BOOLEAN) /\ updates[u] \in Seq(BOOLEAN)
      BY DEF RoleTypes
    <3>4. calls[u] = <<>> /\ news[u] = <<>> BY <3>2, <3>3
    <3>5. cached[u] = role[u] /\ status[u] = updates[u][Len(updates[u])]
      BY <2>0, <3>1, <3>4 DEF RoleInOrder
    <3>6. CASE Recover!Shown(u) = cached[u]
      <4>1. calls'[u] = <<>> /\ Target(u)' = updates[u][1]
        BY <3>1, <3>4, <3>5, <3>6 DEF Target, Recover!Shown
      <4> QED BY <3>1, <3>3, <3>4, <3>5, <4>1, LastOfTail DEF RoleInOrder
    <3>7. CASE Recover!Shown(u) # cached[u]
      <4>1. calls'[u] = <<updates[u][1]>> /\ Target(u)' = updates[u][1]
        BY <3>1, <3>4, <3>7 DEF Target, Recover!Shown
      <4> QED BY <3>1, <3>3, <3>4, <3>5, <4>1, LastOfTail DEF RoleInOrder
    <3> QED BY <3>6, <3>7
  <2>3. CASE Recover!RoleChanges(u)
    <3>1. /\ calls[u] # <<>> /\ calls'[u] = Tail(calls[u])
          /\ role'[u] = calls[u][1] /\ news'[u] = Append(news[u], calls[u][1])
          /\ UNCHANGED <<status, updates, cached>>
      BY <1>4, <2>3 DEF Recover!RoleChanges, RoleTypes
    <3>2. calls[u] \in Seq(BOOLEAN) /\ news[u] \in Seq(BOOLEAN) BY DEF RoleTypes
    <3>3. news[u] = <<>> /\ Len(calls[u]) <= 1 BY <2>0, <3>1 DEF RoleInOrder
    <3>4. calls'[u] = <<>> /\ news'[u] = <<calls[u][1]>> BY <3>1, <3>2, <3>3
    <3> QED BY <2>0, <3>1, <3>4 DEF RoleInOrder, Target
  <2>4. CASE Recover!MemberUpdates(u)
    <3>1. /\ news[u] # <<>> /\ news'[u] = Tail(news[u]) /\ cached'[u] = news[u][1]
          /\ UNCHANGED <<status, role, updates, calls>>
      BY <2>4 DEF Recover!MemberUpdates, RoleTypes
    <3>2. news[u] \in Seq(BOOLEAN) BY DEF RoleTypes
    <3>3. news'[u] = <<>> /\ calls[u] = <<>> /\ cached'[u] = role[u]
      BY <2>0, <3>1, <3>2 DEF RoleInOrder
    <3> QED BY <2>0, <3>1, <3>3 DEF RoleInOrder, Target
  <2> QED BY <2>1, <2>2, <2>3, <2>4
<1> QED BY <1>1, <1>2, <1>3, <1>4 DEF RolesAreInOrder

-----------------------------------------------------------------------------
(***************************************************************************)
(* A press goes on, or ends, and leaves the cooldown alone.                *)
(***************************************************************************)
LEMMA PressMoves ==
  ASSUME PressInv, NEW h \in Presses, NEW x \in Recover!Press,
         pressed' = [pressed EXCEPT ![h] = x],
         x.user = pressed[h].user, x.alone = pressed[h].alone, x.admin = pressed[h].admin,
         pressed[h].at \notin {"new", "done"}, x.at # "new",
         pressed[h].at = "sorry" => x.at = "done",
         x.at \in Busy => pressed[h].at \in Busy,
         child' \in [Presses -> {"none", "running", "killed", "gone"}],
         \A g \in Presses \ {h} : child'[g] = child[g],
         PressInOrder(x, child'[h]),
         UNCHANGED <<cooldown, last>>
  PROVE  PressInv'
<1> USE DEF PressInv
<1>1. /\ pressed'[h] = x /\ \A g \in Presses \ {h} : pressed'[g] = pressed[g]
  BY DEF PressTypes
<1>2. PressTypes' BY DEF PressTypes
<1>3. PressesAreInOrder' BY <1>1 DEF PressesAreInOrder, PressInOrder
<1>4. \A g \in Presses : Recover!UnderWay(g)' =>
        /\ Recover!UnderWay(g) /\ pressed'[g].user = pressed[g].user
  BY <1>1 DEF Recover!UnderWay
<1>5. AlonesAreAlone'
  <2> SUFFICES ASSUME NEW g \in Presses, pressed'[g].alone, Recover!UnderWay(g)'
               PROVE  AloneIsAlone(g)'
    BY DEF AlonesAreAlone, AloneIsAlone
  <2>1. AloneIsAlone(g) BY DEF AlonesAreAlone
  <2>2. Recover!UnderWay(g) /\ pressed[g].alone /\ pressed'[g].user = pressed[g].user
        /\ pressed'[g].admin = pressed[g].admin
        /\ pressed'[g].at \in Busy => pressed[g].at \in Busy
    BY <1>1, <1>4
  <2> QED BY <1>4, <2>1, <2>2 DEF AloneIsAlone
<1>6. LastsAreLast'
  <2> SUFFICES ASSUME NEW u \in Supporters PROVE LastIsLast(u)' BY DEF LastsAreLast
  <2>1. LastIsLast(u) BY DEF LastsAreLast
  <2>2. \A g \in Presses :
          Recover!UnderWay(g)' /\ pressed[g].at = "sorry" => pressed'[g].at = "sorry"
    BY <1>1 DEF Recover!UnderWay
  <2> QED BY <1>4, <2>1, <2>2 DEF LastIsLast
<1> QED BY <1>2, <1>3, <1>5, <1>6

(***************************************************************************)
(* A press that fails: whoever pressed alone pays nothing.                 *)
(***************************************************************************)
LEMMA PressFails ==
  ASSUME PressInv, NEW h \in Presses, pressed[h].at \in Busy, Recover!Failed(h),
         child' \in [Presses -> {"none", "running", "killed", "gone"}],
         \A g \in Presses \ {h} : child'[g] = child[g],
         child'[h] # "running"
  PROVE  PressInv'
<1> USE DEF PressInv
<1> DEFINE u == pressed[h].user
<1>1. PICK x : x = [pressed[h] EXCEPT !.at = "sorry", !.hops = 0, !.left = <<>>] OBVIOUS
<1>2. /\ pressed' = [pressed EXCEPT ![h] = x]
      /\ cooldown' = IF pressed[h].admin THEN cooldown ELSE [cooldown EXCEPT ![u] = FALSE]
      /\ last' = IF pressed[h].alone THEN [last EXCEPT ![u] = "failure"] ELSE last
  BY <1>1 DEF Recover!Failed, Recover!Cleared
<1>3. pressed[h] \in Recover!Press /\ u \in Supporters
  BY DEF PressTypes, PressesAreInOrder, PressInOrder, Busy
<1>4. x \in Recover!Press /\ x.at = "sorry" /\ x.user = u /\ x.alone = pressed[h].alone
      /\ x.admin = pressed[h].admin
  <2>1. <<>> \in Seq(Recover!Stage) /\ 0 \in 0..Recover!MAX_REDIRECTS BY DEF Recover!MAX_REDIRECTS
  <2> QED BY <1>1, <1>3, <2>1 DEF Recover!Press
<1>5. /\ pressed'[h] = x /\ \A g \in Presses \ {h} : pressed'[g] = pressed[g]
  BY <1>2 DEF PressTypes
<1>6. PressTypes' BY <1>2, <1>3, <1>4 DEF PressTypes
<1>7. PressesAreInOrder' BY <1>3, <1>4, <1>5 DEF PressesAreInOrder, PressInOrder
<1>8. \A g \in Presses : /\ Recover!UnderWay(g)' <=> Recover!UnderWay(g)
                         /\ pressed'[g].user = pressed[g].user
  BY <1>4, <1>5 DEF Recover!UnderWay, Busy
<1>9. Recover!UnderWay(h) BY DEF Recover!UnderWay, Busy
<1>10. AlonesAreAlone'
  <2> SUFFICES ASSUME NEW g \in Presses, pressed'[g].alone, Recover!UnderWay(g)'
               PROVE  AloneIsAlone(g)'
    BY DEF AlonesAreAlone, AloneIsAlone
  <2>1. AloneIsAlone(g) BY DEF AlonesAreAlone
  <2>2. CASE g = h BY <1>4, <1>5, <1>8, <2>1, <2>2 DEF AloneIsAlone, Busy
  <2>3. CASE g # h
    <3>1. pressed[g].alone /\ Recover!UnderWay(g) /\ pressed[g].user # u
      BY <1>5, <1>8, <1>9, <2>1, <2>3 DEF AloneIsAlone
    <3>2. cooldown'[pressed[g].user] = cooldown[pressed[g].user]
      BY <1>2, <3>1, <2>3 DEF PressTypes, PressesAreInOrder, PressInOrder, Recover!UnderWay
    <3> QED BY <1>5, <1>8, <2>1, <2>3, <3>1, <3>2 DEF AloneIsAlone
  <2> QED BY <2>2, <2>3
<1>11. LastsAreLast'
  <2> SUFFICES ASSUME NEW v \in Supporters PROVE LastIsLast(v)' BY DEF LastsAreLast
  <2>1. LastIsLast(v) BY DEF LastsAreLast
  <2>2. CASE v # u
    <3>1. last'[v] = last[v] /\ cooldown'[v] = cooldown[v] BY <1>2, <2>2 DEF PressTypes
    <3> QED BY <1>5, <1>8, <2>1, <2>2, <3>1 DEF LastIsLast
  <2>3. CASE v = u
    <3>1. last[u] = None BY <1>9, <2>1, <2>3 DEF LastIsLast, Busy
    <3>2. CASE ~pressed[h].alone
      BY <1>2, <2>3, <3>1, <3>2, RecoverConstants DEF LastIsLast
    <3>3. CASE pressed[h].alone
      <4>1. AloneIsAlone(h) BY DEF AlonesAreAlone
      <4>2. last'[u] = "failure" /\ cooldown'[u] = FALSE
        BY <1>2, <1>3, <1>9, <3>3, <4>1 DEF AloneIsAlone, PressTypes
      <4>3. \A g \in Presses :
              Recover!UnderWay(g)' /\ pressed'[g].user = u => pressed'[g].at = "sorry"
        BY <1>4, <1>5, <1>8, <1>9, <3>3, <4>1 DEF AloneIsAlone
      <4> QED BY <2>3, <4>2, <4>3 DEF LastIsLast
    <3> QED BY <3>2, <3>3
  <2> QED BY <2>2, <2>3
<1> QED BY <1>6, <1>7, <1>10, <1>11

(***************************************************************************)
(* A press begins.  It is alone, or ends the loneliness of those beside it *)
(* and what is remembered of the last one.                                 *)
(***************************************************************************)
LEMMA PressBegins ==
  ASSUME PressInv, NEW h \in Presses, NEW u \in Supporters, NEW admin \in BOOLEAN,
         Recover!InteractionCreate(h, u, admin)
  PROVE  PressInv'
<1> USE DEF PressInv
<1>1. PICK x : x = [Recover!NewPress EXCEPT !.at = "defer", !.user = u, !.admin = admin,
                                            !.alone = ~admin /\ Recover!Beside(h, u) = {}]
  OBVIOUS
<1>2. /\ pressed[h].at = "new"
      /\ pressed' = [g \in Presses |->
                       IF g = h THEN x
                       ELSE [pressed[g] EXCEPT !.alone = @ /\ g \notin Recover!Beside(h, u)]]
      /\ last' = [last EXCEPT ![u] = None] /\ cooldown' = cooldown /\ child' = child
  BY <1>1 DEF Recover!InteractionCreate
<1>3. x \in Recover!Press /\ x.at = "defer" /\ x.user = u /\ x.executed = None
      /\ x.alone = (~admin /\ Recover!Beside(h, u) = {}) /\ x.admin = admin
  BY <1>1, NewPressIsOne DEF Recover!NewPress, Recover!Press
<1>4. \A g \in Presses \ {h} :
        /\ pressed'[g] \in Recover!Press
        /\ pressed'[g].at = pressed[g].at /\ pressed'[g].user = pressed[g].user
        /\ pressed'[g].admin = pressed[g].admin /\ pressed'[g].left = pressed[g].left
        /\ pressed'[g].requested = pressed[g].requested
        /\ pressed'[g].executed = pressed[g].executed /\ pressed'[g].limited = pressed[g].limited
        /\ pressed'[g].alone = (pressed[g].alone /\ g \notin Recover!Beside(h, u))
  <2> SUFFICES ASSUME NEW g \in Presses \ {h}
               PROVE  LET y == [pressed[g] EXCEPT !.alone = @ /\ g \notin Recover!Beside(h, u)]
                      IN /\ y \in Recover!Press
                         /\ y.at = pressed[g].at /\ y.user = pressed[g].user
                         /\ y.admin = pressed[g].admin /\ y.left = pressed[g].left
                         /\ y.requested = pressed[g].requested
                         /\ y.executed = pressed[g].executed /\ y.limited = pressed[g].limited
                         /\ y.alone = (pressed[g].alone /\ g \notin Recover!Beside(h, u))
    BY <1>2
  <2>1. pressed[g] \in Recover!Press BY DEF PressTypes
  <2> QED BY <2>1 DEF Recover!Press
<1>5. pressed'[h] = x BY <1>2
<1>6. PressTypes'
  <2>1. pressed' \in [Presses -> Recover!Press] BY <1>2, <1>3, <1>4, <1>5
  <2> QED BY <1>2, <2>1 DEF PressTypes
<1>7. PressesAreInOrder'
  <2> SUFFICES ASSUME NEW g \in Presses PROVE PressInOrder(pressed'[g], child'[g])
    BY DEF PressesAreInOrder
  <2>1. PressInOrder(pressed[g], child[g]) BY DEF PressesAreInOrder
  <2>2. CASE g = h BY <1>2, <1>3, <1>5, <2>1, <2>2 DEF PressInOrder
  <2>3. CASE g # h BY <1>2, <1>4, <2>1, <2>3 DEF PressInOrder
  <2> QED BY <2>2, <2>3
<1>8. AlonesAreAlone'
  <2> SUFFICES ASSUME NEW g \in Presses, pressed'[g].alone, Recover!UnderWay(g)'
               PROVE  AloneIsAlone(g)'
    BY DEF AlonesAreAlone, AloneIsAlone
  <2>1. CASE g = h
    <3>1. Recover!Beside(h, u) = {} /\ ~admin BY <1>3, <1>5, <2>1
    <3>2. \A f \in Presses \ {h} : Recover!UnderWay(f)' => pressed'[f].user # u
      BY <1>4, <3>1 DEF Recover!Beside, Recover!UnderWay
    <3> QED BY <1>3, <1>5, <2>1, <3>1, <3>2 DEF AloneIsAlone, Busy
  <2>2. CASE g # h
    <3>1. pressed[g].alone /\ Recover!UnderWay(g) /\ pressed[g].user # u
      BY <1>4, <2>2 DEF Recover!Beside, Recover!UnderWay
    <3>2. AloneIsAlone(g) BY DEF AlonesAreAlone
    <3>3. ~pressed'[g].admin /\ (pressed'[g].at \in Busy => cooldown'[pressed'[g].user])
      BY <1>2, <1>4, <2>2, <3>1, <3>2 DEF AloneIsAlone
    <3>4. ASSUME NEW f \in Presses \ {g}, Recover!UnderWay(f)'
          PROVE  pressed'[f].user # pressed'[g].user
      <4>1. CASE f = h BY <1>3, <1>4, <1>5, <2>2, <3>1, <4>1
      <4>2. CASE f # h
        BY <1>4, <2>2, <3>1, <3>2, <3>4, <4>2 DEF AloneIsAlone, Recover!UnderWay
      <4> QED BY <4>1, <4>2
    <3> QED BY <3>3, <3>4 DEF AloneIsAlone
  <2> QED BY <2>1, <2>2
<1>9. LastsAreLast'
  <2> SUFFICES ASSUME NEW v \in Supporters PROVE LastIsLast(v)' BY DEF LastsAreLast
  <2>1. LastIsLast(v) BY DEF LastsAreLast
  <2>2. CASE v = u
    <3>1. last'[u] = None BY <1>2 DEF PressTypes
    <3> QED BY <2>2, <3>1, RecoverConstants DEF LastIsLast
  <2>3. CASE v # u
    <3>1. last'[v] = last[v] BY <1>2, <2>3 DEF PressTypes
    <3>2. \A g \in Presses : Recover!UnderWay(g)' /\ pressed'[g].user = v =>
            g # h /\ Recover!UnderWay(g) /\ pressed[g].user = v
      BY <1>3, <1>4, <1>5, <2>3 DEF Recover!UnderWay
    <3> QED BY <1>2, <1>4, <2>1, <3>1, <3>2 DEF LastIsLast
  <2> QED BY <2>2, <2>3
<1> QED BY <1>6, <1>7, <1>8, <1>9

(***************************************************************************)
(* The deferral starts the cooldown.                                       *)
(***************************************************************************)
LEMMA PressIsDeferred ==
  ASSUME PressInv, NEW h \in Presses, Recover!Deferred(h)
  PROVE  PressInv'
<1> USE DEF PressInv
<1> DEFINE u == pressed[h].user
<1>1. pressed[h].at = "defer" /\ pressed[h] \in Recover!Press /\ u \in Supporters
      /\ child' = child /\ last' = last /\ PressInOrder(pressed[h], child[h])
  BY DEF Recover!Deferred, PressTypes, PressesAreInOrder, PressInOrder
<1>2. CASE Recover!To(h, "done") /\ cooldown' = cooldown
  <2>1. PICK x : x = [pressed[h] EXCEPT !.at = "done"] OBVIOUS
  <2>2. x \in Recover!Press /\ PressInOrder(x, child'[h]) /\ x.at = "done"
        /\ x.user = u /\ x.alone = pressed[h].alone /\ x.admin = pressed[h].admin
    BY <1>1, <2>1 DEF Recover!Press, PressInOrder
  <2>3. pressed' = [pressed EXCEPT ![h] = x]
    BY <1>2, <2>1 DEF Recover!To
  <2> QED BY <1>1, <1>2, <2>2, <2>3, PressMoves DEF Busy, PressTypes
<1>3. CASE /\ cooldown' = IF pressed[h].admin THEN cooldown ELSE [cooldown EXCEPT ![u] = TRUE]
           /\ Recover!To(h, "input")
  <2>1. PICK x : x = [pressed[h] EXCEPT !.at = "input"] OBVIOUS
  <2>2. x \in Recover!Press /\ PressInOrder(x, child'[h]) /\ x.at = "input"
        /\ x.user = u /\ x.alone = pressed[h].alone /\ x.admin = pressed[h].admin
    BY <1>1, <2>1 DEF Recover!Press, PressInOrder
  <2>3. /\ pressed'[h] = x /\ \A g \in Presses \ {h} : pressed'[g] = pressed[g]
        /\ pressed' \in [Presses -> Recover!Press]
    BY <1>3, <2>1, <2>2 DEF Recover!To, PressTypes
  <2>4. PressTypes' BY <1>1, <1>3, <2>3 DEF PressTypes
  <2>5. PressesAreInOrder' BY <1>1, <2>2, <2>3 DEF PressesAreInOrder
  <2>6. \A g \in Presses : /\ Recover!UnderWay(g)' <=> Recover!UnderWay(g)
                           /\ pressed'[g].user = pressed[g].user
    BY <1>1, <2>2, <2>3 DEF Recover!UnderWay
  <2>7. AlonesAreAlone'
    <3> SUFFICES ASSUME NEW g \in Presses, pressed'[g].alone, Recover!UnderWay(g)'
                 PROVE  AloneIsAlone(g)'
      BY DEF AlonesAreAlone, AloneIsAlone
    <3>1. AloneIsAlone(g) /\ pressed[g].alone /\ Recover!UnderWay(g) /\ ~pressed[g].admin
      BY <2>2, <2>3, <2>6 DEF AlonesAreAlone, AloneIsAlone
    <3>2. pressed[g].user \in Supporters
      BY <3>1 DEF PressesAreInOrder, PressInOrder, Recover!UnderWay
    <3>3. cooldown[pressed[g].user] => cooldown'[pressed[g].user]
      BY <1>1, <1>3, <3>2 DEF PressTypes
    <3>4. CASE g = h
      <4>1. cooldown'[u] BY <1>1, <1>3, <3>1, <3>4 DEF PressTypes
      <4> QED BY <2>2, <2>3, <2>6, <3>1, <3>4, <4>1 DEF AloneIsAlone
    <3>5. CASE g # h BY <2>3, <2>6, <3>1, <3>3, <3>5 DEF AloneIsAlone
    <3> QED BY <3>4, <3>5
  <2>8. LastsAreLast'
    <3> SUFFICES ASSUME NEW v \in Supporters PROVE LastIsLast(v)' BY DEF LastsAreLast
    <3>1. LastIsLast(v) BY DEF LastsAreLast
    <3>2. CASE v = u
      <4>1. last[u] = None BY <1>1, <3>1, <3>2 DEF LastIsLast, Recover!UnderWay
      <4> QED BY <1>1, <3>2, <4>1, RecoverConstants DEF LastIsLast
    <3>3. CASE v # u
      <4>1. cooldown'[v] = cooldown[v] BY <1>1, <1>3, <3>3 DEF PressTypes
      <4> QED BY <1>1, <2>3, <2>6, <3>1, <3>3, <4>1 DEF LastIsLast
    <3> QED BY <3>2, <3>3
  <2> QED BY <2>4, <2>5, <2>7, <2>8
<1> QED BY <1>2, <1>3 DEF Recover!Deferred

(***************************************************************************)
(* When a cooldown ends, nothing is said any more of who pressed.          *)
(***************************************************************************)
LEMMA CooldownIsOver ==
  ASSUME PressInv, NEW u \in Supporters, Recover!CooldownEnds(u)
  PROVE  PressInv'
<1> USE DEF PressInv
<1>1. /\ cooldown' = [cooldown EXCEPT ![u] = FALSE] /\ last' = [last EXCEPT ![u] = None]
      /\ pressed' = [g \in Presses |-> IF pressed[g].user = u
                                       THEN [pressed[g] EXCEPT !.alone = FALSE] ELSE pressed[g]]
      /\ child' = child
  BY DEF Recover!CooldownEnds
<1>2. \A g \in Presses :
        /\ pressed'[g] \in Recover!Press
        /\ pressed'[g].at = pressed[g].at /\ pressed'[g].user = pressed[g].user
        /\ pressed'[g].admin = pressed[g].admin /\ pressed'[g].left = pressed[g].left
        /\ pressed'[g].requested = pressed[g].requested
        /\ pressed'[g].executed = pressed[g].executed /\ pressed'[g].limited = pressed[g].limited
        /\ pressed'[g].alone => pressed[g].alone /\ pressed[g].user # u
  <2> SUFFICES ASSUME NEW g \in Presses
               PROVE  LET y == IF pressed[g].user = u
                               THEN [pressed[g] EXCEPT !.alone = FALSE] ELSE pressed[g]
                      IN /\ y \in Recover!Press
                         /\ y.at = pressed[g].at /\ y.user = pressed[g].user
                         /\ y.admin = pressed[g].admin /\ y.left = pressed[g].left
                         /\ y.requested = pressed[g].requested
                         /\ y.executed = pressed[g].executed /\ y.limited = pressed[g].limited
                         /\ y.alone => pressed[g].alone /\ pressed[g].user # u
    BY <1>1
  <2>1. pressed[g] \in Recover!Press BY DEF PressTypes
  <2> QED BY <2>1 DEF Recover!Press
<1>3. PressTypes'
  <2>1. pressed' \in [Presses -> Recover!Press] BY <1>1, <1>2
  <2> QED BY <1>1, <2>1 DEF PressTypes
<1>4. PressesAreInOrder' BY <1>1, <1>2 DEF PressesAreInOrder, PressInOrder
<1>5. \A g \in Presses : Recover!UnderWay(g)' <=> Recover!UnderWay(g)
  BY <1>2 DEF Recover!UnderWay
<1>6. AlonesAreAlone'
  <2> SUFFICES ASSUME NEW g \in Presses, pressed'[g].alone, Recover!UnderWay(g)'
               PROVE  AloneIsAlone(g)'
    BY DEF AlonesAreAlone, AloneIsAlone
  <2>1. AloneIsAlone(g) /\ pressed[g].user # u /\ pressed[g].alone /\ Recover!UnderWay(g)
    BY <1>2, <1>5 DEF AlonesAreAlone
  <2>2. cooldown'[pressed[g].user] = cooldown[pressed[g].user]
    BY <1>1, <2>1 DEF PressTypes, PressesAreInOrder, PressInOrder, Recover!UnderWay
  <2> QED BY <1>2, <1>5, <2>1, <2>2 DEF AloneIsAlone
<1>7. LastsAreLast'
  <2> SUFFICES ASSUME NEW v \in Supporters PROVE LastIsLast(v)' BY DEF LastsAreLast
  <2>1. LastIsLast(v) BY DEF LastsAreLast
  <2>2. CASE v = u
    <3>1. last'[u] = None BY <1>1 DEF PressTypes
    <3> QED BY <2>2, <3>1, RecoverConstants DEF LastIsLast
  <2>3. CASE v # u
    <3>1. last'[v] = last[v] /\ cooldown'[v] = cooldown[v] BY <1>1, <2>3 DEF PressTypes
    <3> QED BY <1>2, <1>5, <2>1, <3>1 DEF LastIsLast
  <2> QED BY <2>2, <2>3
<1> QED BY <1>3, <1>4, <1>6, <1>7

(***************************************************************************)
(* A recovery is answered: whoever pressed alone has paid for it.          *)
(***************************************************************************)
LEMMA PressIsAnswered ==
  ASSUME PressInv, NEW h \in Presses, Recover!Answered(h)
  PROVE  PressInv'
<1> USE DEF PressInv
<1> DEFINE u == pressed[h].user
<1>1. pressed[h].at = "answer" /\ pressed[h] \in Recover!Press /\ u \in Supporters
      /\ child' = child /\ pressed[h].requested = 5 /\ child[h] # "running"
      /\ Recover!UnderWay(h)
  BY DEF Recover!Answered, PressTypes, PressesAreInOrder, PressInOrder, Recover!UnderWay
<1>2. CASE Recover!Failed(h) BY <1>1, <1>2, PressFails DEF Busy, PressTypes
<1>3. CASE /\ pressed' = [pressed EXCEPT ![h].at = "done",
                             ![h].limited = pressed[h].executed # pressed[h].requested]
           /\ last' = IF pressed[h].alone THEN [last EXCEPT ![u] = "success"] ELSE last
           /\ cooldown' = cooldown
  <2>1. PICK x : x = [pressed[h] EXCEPT !.at = "done",
                                        !.limited = pressed[h].executed # pressed[h].requested]
    OBVIOUS
  <2>2. x \in Recover!Press /\ x.at = "done" /\ x.user = u /\ x.executed = pressed[h].executed
        /\ (x.limited <=> pressed[h].executed # 5)
    BY <1>1, <2>1 DEF Recover!Press
  <2>3. /\ pressed'[h] = x /\ \A g \in Presses \ {h} : pressed'[g] = pressed[g]
        /\ pressed' \in [Presses -> Recover!Press]
    BY <1>3, <2>1, <2>2 DEF PressTypes
  <2>4. PressTypes' BY <1>1, <1>3, <2>3 DEF PressTypes
  <2>5. PressesAreInOrder' BY <1>1, <2>2, <2>3 DEF PressesAreInOrder, PressInOrder
  <2>6. \A g \in Presses : Recover!UnderWay(g)' =>
          g # h /\ Recover!UnderWay(g) /\ pressed'[g] = pressed[g]
    BY <2>2, <2>3 DEF Recover!UnderWay
  <2>7. AlonesAreAlone'
    <3> SUFFICES ASSUME NEW g \in Presses, pressed'[g].alone, Recover!UnderWay(g)'
                 PROVE  AloneIsAlone(g)'
      BY DEF AlonesAreAlone, AloneIsAlone
    <3>1. AloneIsAlone(g) /\ Recover!UnderWay(g) /\ pressed'[g] = pressed[g]
      BY <2>6 DEF AlonesAreAlone
    <3> QED BY <1>3, <2>6, <3>1 DEF AloneIsAlone
  <2>8. LastsAreLast'
    <3> SUFFICES ASSUME NEW v \in Supporters PROVE LastIsLast(v)' BY DEF LastsAreLast
    <3>1. LastIsLast(v) BY DEF LastsAreLast
    <3>2. CASE v # u \/ ~pressed[h].alone
      <4>1. last'[v] = last[v] /\ cooldown'[v] = cooldown[v] BY <1>3, <3>2 DEF PressTypes
      <4> QED BY <2>6, <3>1, <4>1 DEF LastIsLast
    <3>3. CASE v = u /\ pressed[h].alone
      <4>1. AloneIsAlone(h) BY DEF AlonesAreAlone
      <4>2. cooldown[u] /\ \A g \in Presses \ {h} : Recover!UnderWay(g) => pressed[g].user # u
        BY <1>1, <3>3, <4>1 DEF AloneIsAlone, Busy
      <4>3. last'[u] = "success" /\ cooldown'[u] BY <1>1, <1>3, <3>3, <4>2 DEF PressTypes
      <4>4. \A g \in Presses : ~(Recover!UnderWay(g)' /\ pressed'[g].user = u)
        BY <2>6, <4>2
      <4> QED BY <3>3, <4>3, <4>4 DEF LastIsLast
    <3> QED BY <3>2, <3>3
  <2> QED BY <2>4, <2>5, <2>7, <2>8
<1> QED BY <1>2, <1>3 DEF Recover!Answered

(***************************************************************************)
(* The source, the worker and the host: a press goes on, or fails.         *)
(***************************************************************************)
LEMMA PressGoesOn ==
  ASSUME PressInv, NEW h \in Presses,
         \/ Recover!Redirected(h) \/ Recover!Input(h) \/ Recover!WorkerStops(h)
         \/ Recover!WorkerUnavailable(h) \/ Recover!HostAnswers(h) \/ Recover!HostGivesUp(h)
         \/ Recover!Apologized(h)
  PROVE  PressInv'
<1> DEFINE p == pressed[h]
           GoesTo(x) ==
             /\ pressed' = [pressed EXCEPT ![h] = x]
             /\ x \in Recover!Press
             /\ x.user = p.user /\ x.alone = p.alone /\ x.admin = p.admin
             /\ PressInOrder(x, child'[h])
             /\ p.at \notin {"new", "done"} /\ x.at # "new"
             /\ p.at = "sorry" => x.at = "done"
             /\ x.at \in Busy => p.at \in Busy
<1>1. /\ p \in Recover!Press /\ PressInOrder(p, child[h])
      /\ child \in [Presses -> {"none", "running", "killed", "gone"}]
  BY DEF PressInv, PressTypes, PressesAreInOrder
<1>2. SUFFICES ASSUME NEW x, GoesTo(x),
                      child' \in [Presses -> {"none", "running", "killed", "gone"}],
                      \A g \in Presses \ {h} : child'[g] = child[g],
                      UNCHANGED <<cooldown, last>>
               PROVE  PressInv'
  <2>1. \E x : GoesTo(x)
    <3>1. CASE Recover!Redirected(h)
      <4>1. PICK x : x = [p EXCEPT !.hops = @ + 1] OBVIOUS
      <4>2. p.hops + 1 \in 0..Recover!MAX_REDIRECTS
        BY <1>1, <3>1 DEF Recover!Redirected, Recover!Press, Recover!MAX_REDIRECTS
      <4>3. p.at = "input" /\ child' = child /\ pressed' = [pressed EXCEPT ![h] = x]
        BY <3>1, <4>1 DEF Recover!Redirected
      <4>4. x \in Recover!Press /\ x.user = p.user /\ x.alone = p.alone /\ x.admin = p.admin
            /\ x.at = p.at /\ x.executed = p.executed
        BY <1>1, <4>1, <4>2 DEF Recover!Press
      <4>5. GoesTo(x) BY <1>1, <4>3, <4>4 DEF PressInOrder
      <4> QED BY <4>5
    <3>2. CASE Recover!Input(h)
      <4>1. CASE localRecovery
        <5>1. PICK x : x = [p EXCEPT !.at = "worker", !.hops = 0] OBVIOUS
        <5>2. p.at = "input" /\ pressed' = [pressed EXCEPT ![h] = x]
          BY <3>2, <4>1, <5>1 DEF Recover!Input
        <5>0. 0 \in 0..Recover!MAX_REDIRECTS BY DEF Recover!MAX_REDIRECTS
        <5>3. x \in Recover!Press /\ x.user = p.user /\ x.alone = p.alone /\ x.admin = p.admin
              /\ x.at = "worker" /\ x.executed = p.executed
          BY <1>1, <5>0, <5>1 DEF Recover!Press
        <5>4. GoesTo(x) BY <1>1, <5>2, <5>3 DEF PressInOrder, Busy
        <5> QED BY <5>4
      <4>2. CASE ~localRecovery
        <5>1. PICK x : x = [p EXCEPT !.at = "hosted", !.hops = 0, !.left = <<5>>] OBVIOUS
        <5>2. p.at = "input" /\ pressed' = [pressed EXCEPT ![h] = x] /\ child' = child
          BY <3>2, <4>2, <5>1 DEF Recover!Input
        <5>0. 0 \in 0..Recover!MAX_REDIRECTS BY DEF Recover!MAX_REDIRECTS
        <5>3. <<5>> \in Seq(Recover!Stage) /\ <<5>> # <<>> BY RecoverConstants
        <5>4. x \in Recover!Press /\ x.user = p.user /\ x.alone = p.alone /\ x.admin = p.admin
              /\ x.at = "hosted" /\ x.executed = p.executed /\ x.left # <<>>
          BY <1>1, <5>0, <5>1, <5>3 DEF Recover!Press
        <5>5. GoesTo(x) BY <1>1, <5>2, <5>4 DEF PressInOrder, Busy
        <5> QED BY <5>5
      <4> QED BY <4>1, <4>2
    <3>3. CASE Recover!WorkerStops(h) \/ Recover!WorkerUnavailable(h)
      <4>1. PICK code : p.at = "worker" /\ Recover!FallBack(h, code) /\ child'[h] # "running"
        BY <1>1, <3>3 DEF Recover!WorkerStops, Recover!WorkerUnavailable
      <4>2. PICK x : x = [p EXCEPT !.at = "hosted", !.left = Recover!hostedFallbackStages(code)]
        OBVIOUS
      <4>3. pressed' = [pressed EXCEPT ![h] = x] BY <4>1, <4>2 DEF Recover!FallBack
      <4>4. x \in Recover!Press /\ x.user = p.user /\ x.alone = p.alone /\ x.admin = p.admin
            /\ x.at = "hosted" /\ x.executed = p.executed /\ x.left # <<>>
        BY <1>1, <4>2, FallbackStages DEF Recover!Press
      <4>5. GoesTo(x) BY <1>1, <4>1, <4>3, <4>4 DEF PressInOrder, Busy
      <4> QED BY <4>5
    <3>4. CASE Recover!HostAnswers(h)
      <4>1. PICK s \in Recover!Stage :
              pressed' = [pressed EXCEPT ![h].at = "answer", ![h].left = <<>>,
                                         ![h].requested = 5, ![h].executed = s]
        BY <3>4 DEF Recover!HostAnswers, Recover!Requested
      <4>2. PICK x : x = [p EXCEPT !.at = "answer", !.left = <<>>, !.requested = 5,
                                   !.executed = s]
        OBVIOUS
      <4>3. pressed' = [pressed EXCEPT ![h] = x] /\ p.at = "hosted" /\ child' = child
        BY <3>4, <4>1, <4>2 DEF Recover!HostAnswers
      <4>0. <<>> \in Seq(Recover!Stage) /\ 5 \in Recover!Stage BY RecoverConstants
      <4>4. x \in Recover!Press /\ x.user = p.user /\ x.alone = p.alone /\ x.admin = p.admin
            /\ x.at = "answer" /\ x.requested = 5
        BY <1>1, <4>0, <4>1, <4>2 DEF Recover!Press
      <4>5. GoesTo(x) BY <1>1, <4>3, <4>4 DEF PressInOrder, Busy
      <4> QED BY <4>5
    <3>5. CASE Recover!HostGivesUp(h)
      <4>1. PICK x : x = [p EXCEPT !.left = Tail(@)] OBVIOUS
      <4>2. pressed' = [pressed EXCEPT ![h] = x] /\ p.at = "hosted" /\ child' = child
            /\ Len(p.left) > 1
        BY <3>5, <4>1 DEF Recover!HostGivesUp
      <4>3. p.left \in Seq(Recover!Stage) BY <1>1 DEF Recover!Press
      <4>4. Tail(p.left) \in Seq(Recover!Stage) /\ Tail(p.left) # <<>>
        <5>0. Len(p.left) \in Nat /\ Len(<<>>) = 0 BY <4>3
        <5>3. Len(p.left) > 1 BY <4>2
        <5>4. \A n \in Nat : n > 1 => n # 1 /\ n # 0 OBVIOUS
        <5>2. Len(p.left) # 1 /\ Len(p.left) # 0 BY <5>0, <5>3, <5>4, Zenon
        <5>1. p.left # <<>> /\ Len(p.left) # 1 BY <5>0, <5>2
        <5> QED BY <4>3, <5>1, LastOfTail, Zenon
      <4>5. x \in Recover!Press /\ x.user = p.user /\ x.alone = p.alone /\ x.admin = p.admin
            /\ x.at = p.at /\ x.executed = p.executed /\ x.left # <<>>
        BY <1>1, <4>1, <4>4 DEF Recover!Press
      <4>6. GoesTo(x) BY <1>1, <4>2, <4>5 DEF PressInOrder, Busy
      <4> QED BY <4>6
    <3>6. CASE Recover!Apologized(h)
      <4>1. PICK x : x = [p EXCEPT !.at = "done", !.requested = None, !.executed = None]
        OBVIOUS
      <4>2. pressed' = [pressed EXCEPT ![h] = x] /\ p.at = "sorry" /\ child' = child
        BY <3>6, <4>1 DEF Recover!Apologized
      <4>3. x \in Recover!Press /\ x.user = p.user /\ x.alone = p.alone /\ x.admin = p.admin
            /\ x.at = "done" /\ x.executed = None
        BY <1>1, <4>1 DEF Recover!Press
      <4>4. GoesTo(x) BY <1>1, <4>2, <4>3 DEF PressInOrder, Busy
      <4> QED BY <4>4
    <3> QED BY <3>1, <3>2, <3>3, <3>4, <3>5, <3>6
  <2>2. child' \in [Presses -> {"none", "running", "killed", "gone"}]
        /\ (\A g \in Presses \ {h} : child'[g] = child[g]) /\ UNCHANGED <<cooldown, last>>
    BY <1>1 DEF Recover!Redirected, Recover!Input, Recover!WorkerStops,
                Recover!WorkerUnavailable, Recover!HostAnswers, Recover!HostGivesUp,
                Recover!Apologized
  <2> QED BY <2>1, <2>2
<1> QED BY <1>2, PressMoves

(***************************************************************************)
(* A worker that closes has left a result, an error the host may make up   *)
(* for, or one that is the user's.                                         *)
(***************************************************************************)
LEMMA WorkerHasClosed ==
  ASSUME PressInv, NEW h \in Presses, Recover!WorkerCloses(h)
  PROVE  PressInv'
<1> DEFINE p == pressed[h]
<1>1. /\ p \in Recover!Press /\ PressInOrder(p, child[h]) /\ p.at = "worker"
      /\ child \in [Presses -> {"none", "running", "killed", "gone"}]
      /\ child' = [child EXCEPT ![h] = "gone"]
  BY DEF PressInv, PressTypes, PressesAreInOrder, Recover!WorkerCloses
<1>2. /\ child' \in [Presses -> {"none", "running", "killed", "gone"}]
      /\ child'[h] = "gone" /\ \A g \in Presses \ {h} : child'[g] = child[g]
  BY <1>1
<1>3. CASE Recover!Failed(h) BY <1>1, <1>2, <1>3, PressFails DEF Busy
<1>4. CASE /\ \E s \in Recover!Stage :
                pressed' = [pressed EXCEPT ![h].at = "answer", ![h].requested = 5,
                                           ![h].executed = s]
           /\ UNCHANGED <<cooldown, last>>
  <2>1. PICK s \in Recover!Stage :
          pressed' = [pressed EXCEPT ![h].at = "answer", ![h].requested = 5, ![h].executed = s]
    BY <1>4
  <2>2. PICK x : x = [p EXCEPT !.at = "answer", !.requested = 5, !.executed = s] OBVIOUS
  <2>3. pressed' = [pressed EXCEPT ![h] = x] BY <2>1, <2>2
  <2>4. x \in Recover!Press /\ x.user = p.user /\ x.alone = p.alone /\ x.admin = p.admin
        /\ x.at = "answer" /\ x.requested = 5
    BY <1>1, <2>2, RecoverConstants DEF Recover!Press
  <2>5. PressInOrder(x, child'[h]) BY <1>1, <1>2, <2>4 DEF PressInOrder
  <2> QED BY <1>1, <1>2, <1>4, <2>3, <2>4, <2>5, PressMoves DEF Busy
<1>5. CASE /\ \E code \in {"WORKER_RESOURCE_LIMIT", "WORKER_INVALID_RESPONSE"} :
                Recover!FallBack(h, code)
           /\ UNCHANGED <<cooldown, last>>
  <2>1. PICK code : Recover!FallBack(h, code) BY <1>5
  <2>2. PICK x : x = [p EXCEPT !.at = "hosted", !.left = Recover!hostedFallbackStages(code)]
    OBVIOUS
  <2>3. pressed' = [pressed EXCEPT ![h] = x] BY <2>1, <2>2 DEF Recover!FallBack
  <2>4. x \in Recover!Press /\ x.user = p.user /\ x.alone = p.alone /\ x.admin = p.admin
        /\ x.at = "hosted" /\ x.executed = p.executed /\ x.left # <<>>
    BY <1>1, <2>2, FallbackStages DEF Recover!Press
  <2>5. PressInOrder(x, child'[h]) BY <1>1, <1>2, <2>4 DEF PressInOrder
  <2> QED BY <1>1, <1>2, <1>5, <2>3, <2>4, <2>5, PressMoves DEF Busy
<1> QED BY <1>3, <1>4, <1>5 DEF Recover!WorkerCloses

(***************************************************************************)
(* A killed process is reaped, or the input or the host fails.             *)
(***************************************************************************)
LEMMA RecoverEnds ==
  ASSUME PressInv, NEW h \in Presses,
         Recover!NoInput(h) \/ Recover!HostFails(h) \/ Recover!Reaped(h)
  PROVE  PressInv'
<1>1. CASE Recover!NoInput(h) \/ Recover!HostFails(h)
  <2>1. /\ pressed[h].at \in {"input", "hosted"} /\ Recover!Failed(h) /\ child' = child
        /\ child \in [Presses -> {"none", "running", "killed", "gone"}]
        /\ PressInOrder(pressed[h], child[h])
    BY <1>1 DEF Recover!NoInput, Recover!HostFails, PressInv, PressTypes, PressesAreInOrder
  <2>2. child'[h] # "running" BY <2>1 DEF PressInOrder
  <2> QED BY <2>1, <2>2, PressFails DEF Busy
<1>2. CASE Recover!Reaped(h)
  <2>1. child' = [child EXCEPT ![h] = "gone"] /\ UNCHANGED <<cooldown, last, pressed>>
    BY <1>2 DEF Recover!Reaped
  <2>2. PressTypes' BY <2>1 DEF PressInv, PressTypes
  <2>3. PressesAreInOrder' BY <2>1 DEF PressInv, PressTypes, PressesAreInOrder, PressInOrder
  <2> QED BY <2>1, <2>2, <2>3
          DEF PressInv, AlonesAreAlone, AloneIsAlone, LastsAreLast, LastIsLast, Recover!UnderWay
<1> QED BY <1>1, <1>2

(***************************************************************************)
(* Every step keeps both invariants: roles and presses have no variable in *)
(* common.                                                                 *)
(***************************************************************************)
LEMMA RecoverStep ==
  RoleInv /\ PressInv /\ [Recover!Next]_Recover!commandVars => RoleInv' /\ PressInv'
<1> SUFFICES ASSUME RoleInv, PressInv, [Recover!Next]_Recover!commandVars
             PROVE  RoleInv' /\ PressInv'
  OBVIOUS
<1>1. ASSUME UNCHANGED Recover!roleVars PROVE RoleInv'
  BY <1>1 DEF Recover!roleVars, RoleInv, RoleTypes, RolesAreInOrder, RoleInOrder, Target
<1>2. ASSUME UNCHANGED <<cooldown, last, pressed, child>> PROVE PressInv'
  BY <1>2 DEF PressInv, PressTypes, PressesAreInOrder, AlonesAreAlone, AloneIsAlone,
              LastsAreLast, LastIsLast, Recover!UnderWay
<1>3. CASE UNCHANGED Recover!commandVars
  BY <1>1, <1>2, <1>3 DEF Recover!commandVars, Recover!pressVars
<1>4. ASSUME NEW u \in Supporters,
             \/ Recover!ChangeStatus(u) \/ Recover!Synced(u)
             \/ Recover!RoleChanges(u) \/ Recover!MemberUpdates(u)
      PROVE  RoleInv' /\ PressInv'
  <2>1. UNCHANGED <<cooldown, last, pressed, child>>
    BY <1>4 DEF Recover!ChangeStatus, Recover!Synced, Recover!RoleChanges,
                Recover!MemberUpdates, Recover!pressVars
  <2> QED BY <1>2, <1>4, <2>1, RoleStep
<1>5. ASSUME NEW u \in Supporters, Recover!CooldownEnds(u) PROVE RoleInv' /\ PressInv'
  BY <1>1, <1>5, CooldownIsOver DEF Recover!CooldownEnds
<1>6. ASSUME NEW u \in Supporters, NEW h \in Presses, NEW admin \in BOOLEAN,
             Recover!InteractionCreate(h, u, admin)
      PROVE  RoleInv' /\ PressInv'
  BY <1>1, <1>6, PressBegins DEF Recover!InteractionCreate
<1>7. ASSUME NEW h \in Presses,
             \/ Recover!Deferred(h) \/ Recover!Redirected(h) \/ Recover!NoInput(h)
             \/ Recover!Input(h) \/ Recover!WorkerStops(h) \/ Recover!WorkerUnavailable(h)
             \/ Recover!WorkerCloses(h) \/ Recover!Reaped(h) \/ Recover!HostAnswers(h)
             \/ Recover!HostGivesUp(h) \/ Recover!HostFails(h) \/ Recover!Answered(h)
             \/ Recover!Apologized(h)
      PROVE  RoleInv' /\ PressInv'
  <2>1. UNCHANGED Recover!roleVars
    BY <1>7
       DEF Recover!Deferred, Recover!Redirected, Recover!NoInput, Recover!Input,
           Recover!WorkerStops, Recover!WorkerUnavailable, Recover!WorkerCloses,
           Recover!Reaped, Recover!HostAnswers, Recover!HostGivesUp, Recover!HostFails,
           Recover!Answered, Recover!Apologized
  <2>2. PressInv'
    BY <1>7, PressIsDeferred, PressGoesOn, WorkerHasClosed, RecoverEnds, PressIsAnswered
  <2> QED BY <1>1, <2>1, <2>2
<1> QED BY <1>3, <1>4, <1>5, <1>6, <1>7 DEF Recover!Next

(***************************************************************************)
(* So they hold in every state of every behaviour.                         *)
(***************************************************************************)
LEMMA RecoverInvHolds == Recover!Spec => [](RoleInv /\ PressInv)
<1>1. Recover!Init => RoleInv /\ PressInv BY RolesInitially, PressesInitially
<1> QED BY <1>1, RecoverStep, PTL DEF Recover!Spec

(***************************************************************************)
(* For any number of users and presses, and with or without a worker: once *)
(* all presences and changes of the role have arrived the role follows the *)
(* status, of every user it can be told of; whoever pressed alone waits    *)
(* after a recovery and not after a failure; no worker is left running by  *)
(* a press that goes on without it; and a recovery below the stage that    *)
(* was asked for says so, wherever it was made (index.js, access.js,       *)
(* worker-client.js).                                                      *)
(***************************************************************************)
THEOREM CommandsKeepTheirWord == Recover!Spec => []CommandsAreTrue
<1>1. RoleInv => Recover!RoleFollowsStatus
  BY DEF RoleInv, RolesAreInOrder, RoleInOrder, Target, Recover!RoleFollowsStatus
<1>2. PressInv => Recover!CooldownsHold
  BY DEF PressInv, LastsAreLast, LastIsLast, Recover!CooldownsHold
<1>3. PressInv => Recover!RecoveriesAreTold
  BY DEF PressInv, PressesAreInOrder, PressInOrder, Recover!RecoveriesAreTold
<1>4. RoleInv /\ PressInv => CommandsAreTrue
  BY <1>1, <1>2, <1>3 DEF CommandsAreTrue, Recover!CommandsAreTrue
<1> QED BY <1>4, RecoverInvHolds, PTL

-----------------------------------------------------------------------------
(***************************************************************************)
(* SlashCommands.  The requests of a fetch: all are settled, with no timer *)
(* left, but for the last one while the fetch waits for it.                *)
(***************************************************************************)
HopsInOrder(f, requests) ==
  /\ f = "get" => requests # <<>>
  /\ \A k \in DOMAIN requests :
       /\ requests[k].timer <=> ~requests[k].settled
       /\ ~requests[k].settled => k = Len(requests) /\ f = "get"

(***************************************************************************)
(* What the state of a handler says of its fetch f, its request r to the   *)
(* API, what its user read, t, and the job m that was made for it.         *)
(***************************************************************************)
HandlerInOrder(p, f, r, t, m) ==
  /\ p.at # "new" => p.user \in Users
  /\ f \in {"dns", "get"} => p.at = "file"
  /\ p.at = "file" => p.command = "recover"
  /\ p.at \in {"new", "defer", "file"} => r.at = "none"
  /\ r.at # "none" /\ p.command = "recover" => f = "content"
  /\ p.at # "new" /\ p.command # "recover" => p.job \in JobIds
  /\ r.at # "none" /\ p.command # "recover" => r.job \in JobIds
  /\ r.at = "looked" => p.command # "recover"
  /\ m # None => r.at = "answered" /\ f = "content"
  /\ t # None => p.at = "done"

(***************************************************************************)
(* What is said to a user, the one of press h, of a job, and must stay so. *)
(***************************************************************************)
SaidTruly(says, j, user, h) ==
  /\ says = "submitted" => made[h] = j
  /\ says \in {"submitted", "cancelled", "over", "denied"} \cup Slash!JobState =>
       j \in JobIds /\ jobOwner[j] # None
  /\ says \in {"submitted", "cancelled", "over"} \cup Slash!JobState => jobOwner[j] = user
  /\ says = "denied" => jobOwner[j] # user
  /\ says \in {"cancelled", "over"} => state[j] \in Slash!Terminal \cup {"LOST"}
  /\ says \in Slash!Terminal => state[j] \in {says, "LOST"}

\* What the API saw of a job when it first looked.
SeenTruly(r, user) ==
  r.at = "looked" => /\ jobOwner[r.job] = user
                     /\ r.seen \in Slash!Terminal => state[r.job] \in {r.seen, "LOST"}

AnswersAreTrue(h) ==
  /\ SeenTruly(request[h], interaction[h].user)
  /\ request[h].at = "answered" =>
       SaidTruly(request[h].says, request[h].job, interaction[h].user, h)
  /\ interaction[h].at = "reply" =>
       SaidTruly(interaction[h].says, interaction[h].job, interaction[h].user, h)
  /\ SaidTruly(told[h], interaction[h].job, interaction[h].user, h)

PressIsFine(h) ==
  /\ HandlerInOrder(interaction[h], fetch[h], request[h], told[h], made[h])
  /\ HopsInOrder(fetch[h], hops[h])
  /\ AnswersAreTrue(h)

(***************************************************************************)
(* A job has an owner once it was made, for one press only.                *)
(***************************************************************************)
JobsAreOwned ==
  /\ \A j \in JobIds : jobOwner[j] = None <=> state[j] = "ABSENT"
  /\ \A h \in Presses : made[h] # None => jobOwner[made[h]] # None
  /\ \A h, g \in Presses : made[h] # None /\ made[h] = made[g] => h = g

PressesAreFine == \A h \in Presses : PressIsFine(h)

SlashInv == Slash!TypeOK /\ JobsAreOwned /\ PressesAreFine

(***************************************************************************)
(* What no step takes back: who owns a job, for which press it was made,   *)
(* how it ended, and that the API has forgotten it.                        *)
(***************************************************************************)
JobsGoOn ==
  /\ \A j \in JobIds :
       /\ jobOwner[j] # None => jobOwner'[j] = jobOwner[j]
       /\ state[j] \in Slash!Terminal => state'[j] \in {state[j], "LOST"}
       /\ state[j] = "LOST" => state'[j] = "LOST"
  /\ \A h \in Presses : made[h] # None => made'[h] = made[h]

(***************************************************************************)
(* None is no user, no job and nothing that is said.                       *)
(***************************************************************************)
LEMMA SlashConstants == None \notin Users /\ None \notin JobIds /\ None \notin Slash!Says
BY SlashAssumption DEF Slash!Assumptions

(***************************************************************************)
(* What was said truly stays true while the jobs go on.                    *)
(***************************************************************************)
LEMMA TruthStays ==
  ASSUME Slash!TypeOK, JobsGoOn, NEW h \in Presses, NEW says, NEW j, NEW u,
         SaidTruly(says, j, u, h)
  PROVE  SaidTruly(says, j, u, h)'
<1>1. CASE says \in {"submitted", "cancelled", "over", "denied"} \cup Slash!JobState
  <2>1. j \in JobIds /\ jobOwner[j] # None BY <1>1 DEF SaidTruly
  <2>2. jobOwner'[j] = jobOwner[j] BY <2>1 DEF JobsGoOn
  <2>3. says = "submitted" => made'[h] = j
    BY <2>1, SlashConstants DEF SaidTruly, JobsGoOn
  <2>4. says \in {"cancelled", "over"} => state'[j] \in Slash!Terminal \cup {"LOST"}
    BY <2>1 DEF SaidTruly, JobsGoOn
  <2>5. says \in Slash!Terminal => state'[j] \in {says, "LOST"}
    BY <2>1 DEF SaidTruly, JobsGoOn
  <2> QED BY <1>1, <2>1, <2>2, <2>3, <2>4, <2>5 DEF SaidTruly
<1>2. CASE says \notin {"submitted", "cancelled", "over", "denied"} \cup Slash!JobState
  BY <1>2 DEF SaidTruly, Slash!JobState
<1> QED BY <1>1, <1>2

(***************************************************************************)
(* What the API saw stays true, too.                                       *)
(***************************************************************************)
LEMMA SightStays ==
  ASSUME Slash!TypeOK, JobsGoOn, NEW r, NEW u \in Users, SeenTruly(r, u),
         r.at = "looked" => r.job \in JobIds
  PROVE  SeenTruly(r, u)'
BY SlashConstants DEF SeenTruly, JobsGoOn

(***************************************************************************)
(* Nothing is said by a reply that is none.                                *)
(***************************************************************************)
LEMMA NothingSaid ==
  ASSUME NEW says \in {None, "failed", "not found"}, NEW j, NEW u, NEW h
  PROVE  SaidTruly(says, j, u, h) /\ SaidTruly(says, j, u, h)'
<1>1. /\ says \notin {"submitted", "cancelled", "over", "denied"} \cup Slash!JobState
      /\ says \notin Slash!Terminal
  BY SlashConstants DEF Slash!Says, Slash!JobState, Slash!Terminal
<1> QED BY <1>1, Zenon DEF SaidTruly

\* A press that nothing happens to, whatever becomes of jobs.
SamePress(h) ==
  /\ interaction'[h] = interaction[h] /\ fetch'[h] = fetch[h] /\ hops'[h] = hops[h]
  /\ request'[h] = request[h] /\ told'[h] = told[h] /\ made'[h] = made[h]

(***************************************************************************)
(* So a press that learns nothing, and does not begin to reply, has true   *)
(* answers still.                                                          *)
(***************************************************************************)
LEMMA AnswersStay ==
  ASSUME SlashInv, JobsGoOn, NEW h \in Presses,
         interaction'[h].user = interaction[h].user, interaction'[h].job = interaction[h].job,
         interaction'[h].says = interaction[h].says,
         interaction'[h].at = "reply" => interaction[h].at = "reply",
         request'[h] \in {request[h], Slash!NoRequest}, told'[h] = told[h]
  PROVE  AnswersAreTrue(h)'
<1>1. AnswersAreTrue(h) /\ HandlerInOrder(interaction[h], fetch[h], request[h], told[h], made[h])
  BY DEF SlashInv, PressesAreFine, PressIsFine
<1>2. Slash!TypeOK BY DEF SlashInv
<1>0. request'[h] # request[h] => request'[h].at = "none" BY DEF Slash!NoRequest
<1>3. SeenTruly(request[h], interaction[h].user)'
  <2>1. CASE request[h].at = "looked" /\ request'[h] = request[h]
    <3>1. interaction[h].user \in Users /\ request[h].job \in JobIds
      BY <1>1, <2>1 DEF HandlerInOrder
    <3>2. PICK r, u : r = request[h] /\ u = interaction[h].user OBVIOUS
    <3>3. SeenTruly(r, u)' BY <1>1, <1>2, <3>1, <3>2, SightStays DEF AnswersAreTrue
    <3> QED BY <2>1, <3>2, <3>3 DEF SeenTruly
  <2>2. CASE request[h].at # "looked" \/ request'[h] # request[h]
    BY <1>0, <2>2 DEF SeenTruly
  <2> QED BY <2>1, <2>2
<1>4. ASSUME NEW says, NEW j, NEW u, SaidTruly(says, j, u, h) PROVE SaidTruly(says, j, u, h)'
  BY <1>2, <1>4, TruthStays
<1>5. (request[h].at = "answered" =>
         SaidTruly(request[h].says, request[h].job, interaction[h].user, h))'
  <2>1. PICK s, j, u : s = request[h].says /\ j = request[h].job /\ u = interaction[h].user OBVIOUS
  <2>2. request[h].at = "answered" => SaidTruly(s, j, u, h)' BY <1>1, <1>4, <2>1 DEF AnswersAreTrue
  <2> QED BY <1>0, <2>1, <2>2 DEF SaidTruly
<1>6. (interaction[h].at = "reply" =>
         SaidTruly(interaction[h].says, interaction[h].job, interaction[h].user, h))'
  <2>1. PICK s, j, u : s = interaction[h].says /\ j = interaction[h].job /\ u = interaction[h].user
    OBVIOUS
  <2>2. interaction[h].at = "reply" => SaidTruly(s, j, u, h)' BY <1>1, <1>4, <2>1 DEF AnswersAreTrue
  <2> QED BY <2>1, <2>2 DEF SaidTruly
<1>7. SaidTruly(told[h], interaction[h].job, interaction[h].user, h)'
  <2>1. PICK s, j, u : s = told[h] /\ j = interaction[h].job /\ u = interaction[h].user OBVIOUS
  <2>2. SaidTruly(s, j, u, h)' BY <1>1, <1>4, <2>1 DEF AnswersAreTrue
  <2> QED BY <2>1, <2>2 DEF SaidTruly
<1> QED BY <1>3, <1>5, <1>6, <1>7 DEF AnswersAreTrue

(***************************************************************************)
(* And a press to which nothing happens stays fine.                        *)
(***************************************************************************)
LEMMA OtherPressesStay ==
  ASSUME SlashInv, JobsGoOn, NEW g \in Presses, SamePress(g)
  PROVE  PressIsFine(g)'
<1>1. AnswersAreTrue(g)' BY AnswersStay DEF SamePress
<1>2. PressIsFine(g) BY DEF SlashInv, PressesAreFine
<1> QED BY <1>1, <1>2 DEF PressIsFine, SamePress, HandlerInOrder, HopsInOrder

(***************************************************************************)
(* So a step of one press has to be checked for that press only, and for   *)
(* the jobs.                                                               *)
(***************************************************************************)
LEMMA OnePressMoves ==
  ASSUME SlashInv, NEW h \in Presses, Slash!TypeOK', JobsGoOn, JobsAreOwned',
         \A g \in Presses \ {h} : SamePress(g), PressIsFine(h)'
  PROVE  SlashInv'
<1>1. ASSUME NEW g \in Presses PROVE PressIsFine(g)'
  <2>1. CASE g = h BY <2>1
  <2>2. CASE g # h BY <2>2, OtherPressesStay
  <2> QED BY <2>1, <2>2
<1> QED BY <1>1 DEF SlashInv, PressesAreFine

(***************************************************************************)
(* When the jobs are as they were they go on.                              *)
(***************************************************************************)
LEMMA SameJobs ==
  ASSUME SlashInv, UNCHANGED <<jobOwner, state, made>>
  PROVE  JobsGoOn /\ JobsAreOwned'
BY DEF SlashInv, JobsGoOn, JobsAreOwned

(***************************************************************************)
(* A step of a handler and its fetch, with the jobs as they were: the      *)
(* state of that press has to be checked, and its answers.                 *)
(***************************************************************************)
LEMMA HandlerGoesOn ==
  ASSUME SlashInv, NEW h \in Presses, NEW x \in Slash!Press,
         NEW f \in {"none", "dns", "get", "content", "error"}, NEW r \in Slash!Request,
         NEW t \in Slash!Says \cup {None},
         interaction' = [interaction EXCEPT ![h] = x], fetch' = [fetch EXCEPT ![h] = f],
         request' = [request EXCEPT ![h] = r], told' = [told EXCEPT ![h] = t],
         UNCHANGED <<hops, jobOwner, state, made>>,
         HandlerInOrder(x, f, r, t, made[h]), HopsInOrder(f, hops[h]), AnswersAreTrue(h)'
  PROVE  SlashInv'
<1>1. JobsGoOn /\ JobsAreOwned' BY SameJobs
<1>2. Slash!TypeOK' BY DEF SlashInv, Slash!TypeOK
<1>3. \A g \in Presses \ {h} : SamePress(g) BY DEF SlashInv, Slash!TypeOK, SamePress
<1>4. /\ interaction'[h] = x /\ fetch'[h] = f /\ request'[h] = r /\ told'[h] = t
      /\ made'[h] = made[h] /\ hops'[h] = hops[h]
  BY DEF SlashInv, Slash!TypeOK
<1>5. PressIsFine(h)' BY <1>4 DEF PressIsFine, HandlerInOrder, HopsInOrder
<1> QED BY <1>1, <1>2, <1>3, <1>5, OnePressMoves

(***************************************************************************)
(* What the invariant says of one press.                                   *)
(***************************************************************************)
LEMMA PressKnown ==
  ASSUME SlashInv, NEW h \in Presses
  PROVE  /\ interaction[h] \in Slash!Press /\ request[h] \in Slash!Request
         /\ fetch[h] \in {"none", "dns", "get", "content", "error"}
         /\ told[h] \in Slash!Says \cup {None} /\ made[h] \in JobIds \cup {None}
         /\ hops[h] \in Seq(Slash!Hop)
         /\ HandlerInOrder(interaction[h], fetch[h], request[h], told[h], made[h])
         /\ HopsInOrder(fetch[h], hops[h]) /\ AnswersAreTrue(h)
         /\ fetch = [fetch EXCEPT ![h] = fetch[h]]
         /\ request = [request EXCEPT ![h] = request[h]]
         /\ told = [told EXCEPT ![h] = told[h]]
         /\ interaction = [interaction EXCEPT ![h] = interaction[h]]
BY DEF SlashInv, Slash!TypeOK, PressesAreFine, PressIsFine

(***************************************************************************)
(* The handler starts, defers, fetches, asks, hears and replies.           *)
(***************************************************************************)
LEMMA HandlerSteps ==
  ASSUME SlashInv, NEW h \in Presses,
         \/ \E c \in Slash!Commands, u \in Users, j \in JobIds :
              Slash!HandleInteraction(h, c, u, j)
         \/ Slash!NotDeferred(h) \/ Slash!NoFile(h) \/ Slash!Deferred(h)
         \/ Slash!Fetched(h) \/ Slash!Answered(h) \/ Slash!Unanswered(h) \/ Slash!Replied(h)
  PROVE  SlashInv'
<1> DEFINE p == interaction[h]
<1>0. PICK e, r, w : e = fetch[h] /\ r = request[h] /\ w = told[h] OBVIOUS
<1>k. /\ p \in Slash!Press /\ r \in Slash!Request
      /\ e \in {"none", "dns", "get", "content", "error"}
      /\ w \in Slash!Says \cup {None}
      /\ HandlerInOrder(p, e, r, w, made[h])
      /\ HopsInOrder(e, hops[h]) /\ AnswersAreTrue(h)
      /\ fetch = [fetch EXCEPT ![h] = e] /\ request = [request EXCEPT ![h] = r]
      /\ told = [told EXCEPT ![h] = w]
  BY PressKnown, <1>0
<1>n. None \notin Users /\ None \notin JobIds /\ None \notin Slash!Says BY SlashConstants
<1>1. CASE \E c \in Slash!Commands, u \in Users, j \in JobIds :
             Slash!HandleInteraction(h, c, u, j)
  <2>1. PICK c \in Slash!Commands, u \in Users, j \in JobIds :
               Slash!HandleInteraction(h, c, u, j)
    BY <1>1
  <2>0. PICK i \in JobIds \cup {None} : i = IF c = "recover" THEN None ELSE j OBVIOUS
  <2>2. PICK x : x = [Slash!NewPress EXCEPT !.at = "defer", !.command = c, !.user = u, !.job = i]
    OBVIOUS
  <2>3. /\ x \in Slash!Press /\ x.at = "defer" /\ x.command = c /\ x.user = u
        /\ c # "recover" => x.job \in JobIds
    BY <2>0, <2>2 DEF Slash!Press, Slash!NewPress
  <2>4. interaction' = [interaction EXCEPT ![h] = x] /\ p.at = "new"
        /\ UNCHANGED <<fetch, hops, request, jobOwner, state, made, told>>
    BY <2>0, <2>1, <2>2 DEF Slash!HandleInteraction, Slash!fetchVars, Slash!jobVars
  <2>5. r.at = "none" /\ w = None /\ e \notin {"dns", "get"} /\ made[h] = None
    BY <1>k, <2>4 DEF HandlerInOrder
  <2>6. HandlerInOrder(x, e, r, w, made[h])
    BY <2>3, <2>5 DEF HandlerInOrder
  <2>7. AnswersAreTrue(h)'
    <3>1. interaction'[h] = x /\ request'[h] = r /\ told'[h] = None
      BY <1>0, <2>4, <2>5 DEF SlashInv, Slash!TypeOK
    <3>2. SaidTruly(told[h], interaction[h].job, interaction[h].user, h)'
      <4>1. PICK y, v : y = interaction'[h].job /\ v = interaction'[h].user OBVIOUS
      <4>2. SaidTruly(None, y, v, h)' BY NothingSaid
      <4> QED BY <3>1, <4>1, <4>2 DEF SaidTruly
    <3> QED BY <2>3, <2>5, <3>1, <3>2 DEF AnswersAreTrue, SeenTruly
  <2>8. /\ fetch' = [fetch EXCEPT ![h] = e] /\ request' = [request EXCEPT ![h] = r]
        /\ told' = [told EXCEPT ![h] = w]
    BY <1>k, <2>4
  <2>9. interaction' = [interaction EXCEPT ![h] = x] /\ UNCHANGED <<hops, jobOwner, state, made>>
    BY <2>4
  <2> QED BY <1>k, <2>3, <2>6, <2>7, <2>8, <2>9, HandlerGoesOn
<1>2. ASSUME NEW x \in Slash!Press,
             NEW f \in {"none", "dns", "get", "content", "error"}, NEW q \in Slash!Request,
             interaction' = [interaction EXCEPT ![h] = x], fetch' = [fetch EXCEPT ![h] = f],
             request' = [request EXCEPT ![h] = q],
             UNCHANGED <<hops, jobOwner, state, made, told>>,
             p.at # "done", x.user = p.user, x.at = "reply" => x.says = "failed",
             q = r \/ q.at = "asked",
             HandlerInOrder(x, f, q, None, made[h]), HopsInOrder(f, hops[h])
      PROVE  SlashInv'
  <2>1. w = None BY <1>2, <1>k DEF HandlerInOrder
  <2>2. interaction'[h] = x /\ request'[h] = q /\ told'[h] = None
    BY <1>0, <1>2, <2>1 DEF SlashInv, Slash!TypeOK
  <2>3. JobsGoOn BY <1>2, SameJobs
  <2>4. AnswersAreTrue(h)'
    <3>1. SaidTruly(told[h], interaction[h].job, interaction[h].user, h)'
      <4>1. PICK y, v : y = interaction'[h].job /\ v = interaction'[h].user OBVIOUS
      <4>2. SaidTruly(None, y, v, h)' BY NothingSaid
      <4> QED BY <2>2, <4>1, <4>2 DEF SaidTruly
    <3>2. (interaction[h].at = "reply" =>
             SaidTruly(interaction[h].says, interaction[h].job, interaction[h].user, h))'
      <4>1. PICK y, v : y = interaction'[h].job /\ v = interaction'[h].user OBVIOUS
      <4>2. SaidTruly("failed", y, v, h)' BY NothingSaid
      <4> QED BY <1>2, <2>2, <4>1, <4>2 DEF SaidTruly
    <3>3. /\ SeenTruly(request[h], interaction[h].user)'
          /\ (request[h].at = "answered" =>
                 SaidTruly(request[h].says, request[h].job, interaction[h].user, h))'
      <4>1. CASE q = r
        BY <1>0, <1>2, <1>k, <2>2, <4>1 DEF AnswersAreTrue, SeenTruly, SaidTruly
      <4>2. CASE q.at = "asked" BY <2>2, <4>2 DEF SeenTruly
      <4> QED BY <1>2, <4>1, <4>2
    <3> QED BY <3>1, <3>2, <3>3 DEF AnswersAreTrue
  <2>5. told' = [told EXCEPT ![h] = None] BY <1>2, <1>k, <2>1
  <2>6. /\ interaction' = [interaction EXCEPT ![h] = x] /\ fetch' = [fetch EXCEPT ![h] = f]
        /\ request' = [request EXCEPT ![h] = q] /\ UNCHANGED <<hops, jobOwner, state, made>>
        /\ HandlerInOrder(x, f, q, None, made[h]) /\ HopsInOrder(f, hops[h])
    BY <1>2
  <2> QED BY <2>4, <2>5, <2>6, HandlerGoesOn
<1>3. CASE Slash!NotDeferred(h)
  <2>1. PICK x : x = [p EXCEPT !.at = "done"] OBVIOUS
  <2>2. x \in Slash!Press BY <1>k, <2>1 DEF Slash!Press
  <2>3. interaction' = [interaction EXCEPT ![h] = x] /\ p.at = "defer"
        /\ UNCHANGED <<fetch, hops, request, jobOwner, state, made, told>>
    BY <1>3, <2>1 DEF Slash!NotDeferred, Slash!To, Slash!fetchVars, Slash!jobVars
  <2>4. x.at = "done" /\ x.user = p.user /\ x.command = p.command /\ x.says = p.says
        /\ x.job = p.job
    BY <1>k, <2>1 DEF Slash!Press
  <2>5. HandlerInOrder(x, e, r, None, made[h]) BY <1>k, <2>3, <2>4 DEF HandlerInOrder
  <2>6. /\ fetch' = [fetch EXCEPT ![h] = e] /\ request' = [request EXCEPT ![h] = r]
        /\ HopsInOrder(e, hops[h])
    BY <1>k, <2>3
  <2> QED BY <1>2, <1>k, <2>2, <2>3, <2>4, <2>5, <2>6
<1>4. CASE Slash!NoFile(h) \/ Slash!Unanswered(h)
  <2>1. PICK x : x = [p EXCEPT !.at = "reply", !.says = "failed"] OBVIOUS
  <2>2. x \in Slash!Press BY <1>k, <2>1 DEF Slash!Press, Slash!Says
  <2>3. interaction' = [interaction EXCEPT ![h] = x] /\ p.at \in {"defer", "api"}
        /\ UNCHANGED <<fetch, hops, request, jobOwner, state, made, told>>
    BY <1>4, <2>1 DEF Slash!NoFile, Slash!Unanswered, Slash!Reply, Slash!fetchVars, Slash!jobVars
  <2>4. x.at = "reply" /\ x.user = p.user /\ x.command = p.command /\ x.says = "failed"
        /\ x.job = p.job
    BY <1>k, <2>1 DEF Slash!Press
  <2>5. HandlerInOrder(x, e, r, None, made[h]) BY <1>k, <2>3, <2>4 DEF HandlerInOrder
  <2>6. /\ fetch' = [fetch EXCEPT ![h] = e] /\ request' = [request EXCEPT ![h] = r]
        /\ HopsInOrder(e, hops[h])
    BY <1>k, <2>3
  <2> QED BY <1>2, <1>k, <2>2, <2>3, <2>4, <2>5, <2>6
<1>5. CASE Slash!Deferred(h)
  <2>1. p.at = "defer" /\ UNCHANGED <<hops, jobOwner, state, made, told>>
    BY <1>5 DEF Slash!Deferred, Slash!jobVars
  <2>2. r.at = "none" /\ e \notin {"dns", "get"} /\ made[h] = None /\ p.user \in Users
        /\ w = None
    BY <1>k, <2>1 DEF HandlerInOrder
  <2>3. CASE p.command = "recover"
    <3>1. PICK x : x = [p EXCEPT !.at = "file"] OBVIOUS
    <3>2. x \in Slash!Press BY <1>k, <3>1 DEF Slash!Press
    <3>3. interaction' = [interaction EXCEPT ![h] = x] /\ fetch' = [fetch EXCEPT ![h] = "dns"]
          /\ request' = request
      BY <1>5, <2>3, <3>1 DEF Slash!Deferred, Slash!To
    <3>4. x.at = "file" /\ x.user = p.user /\ x.command = p.command /\ x.says = p.says
          /\ x.job = p.job
      BY <1>k, <3>1 DEF Slash!Press
    <3>5. HandlerInOrder(x, "dns", r, None, made[h]) BY <2>2, <2>3, <3>4 DEF HandlerInOrder
    <3>6. HopsInOrder("dns", hops[h]) BY <1>k, <2>2 DEF HopsInOrder
    <3>7. request' = [request EXCEPT ![h] = r] BY <1>k, <3>3
    <3> QED BY <1>2, <1>k, <2>1, <3>2, <3>3, <3>4, <3>5, <3>6, <3>7
  <2>4. CASE p.command # "recover"
    <3>1. PICK x, q : x = [p EXCEPT !.at = "api"] /\ q = [r EXCEPT !.at = "asked", !.job = p.job]
      OBVIOUS
    <3>2. x \in Slash!Press /\ q \in Slash!Request BY <1>k, <3>1 DEF Slash!Press, Slash!Request
    <3>3. interaction' = [interaction EXCEPT ![h] = x] /\ request' = [request EXCEPT ![h] = q]
          /\ fetch' = fetch
      BY <1>0, <1>5, <2>4, <3>1 DEF Slash!Deferred, Slash!To
    <3>4. x.at = "api" /\ x.user = p.user /\ x.command = p.command /\ x.says = p.says
          /\ x.job = p.job /\ q.at = "asked" /\ q.job = p.job
      BY <1>k, <3>1 DEF Slash!Press, Slash!Request
    <3>5. HandlerInOrder(x, e, q, None, made[h])
      BY <1>k, <2>1, <2>2, <2>4, <3>4 DEF HandlerInOrder
    <3> QED BY <1>2, <1>k, <2>1, <2>2, <3>2, <3>3, <3>4, <3>5
  <2> QED BY <2>3, <2>4
<1>6. CASE Slash!Fetched(h)
  <2>1. p.at = "file" /\ UNCHANGED <<fetch, hops, jobOwner, state, made, told>>
    BY <1>6 DEF Slash!Fetched, Slash!jobVars, Slash!fetchVars
  <2>2. r.at = "none" /\ made[h] = None /\ p.user \in Users /\ p.command = "recover"
        /\ w = None
    BY <1>k, <2>1 DEF HandlerInOrder
  <2>3. CASE e = "content" /\ Slash!To(h, "api")
              /\ request' = [request EXCEPT ![h].at = "asked"]
    <3>1. PICK x, q : x = [p EXCEPT !.at = "api"] /\ q = [r EXCEPT !.at = "asked"] OBVIOUS
    <3>2. x \in Slash!Press /\ q \in Slash!Request BY <1>k, <3>1 DEF Slash!Press, Slash!Request
    <3>3. interaction' = [interaction EXCEPT ![h] = x] /\ request' = [request EXCEPT ![h] = q]
      BY <1>0, <2>3, <3>1 DEF Slash!To
    <3>4. x.at = "api" /\ x.user = p.user /\ x.command = p.command /\ x.says = p.says
          /\ x.job = p.job /\ q.at = "asked"
      BY <1>k, <3>1 DEF Slash!Press, Slash!Request
    <3>5. HandlerInOrder(x, e, q, None, made[h])
      BY <2>2, <2>3, <3>4 DEF HandlerInOrder
    <3> QED BY <1>2, <1>k, <2>1, <2>2, <3>2, <3>3, <3>4, <3>5
  <2>4. CASE e = "error" /\ Slash!Reply(h, "failed") /\ request' = request
    <3>1. PICK x : x = [p EXCEPT !.at = "reply", !.says = "failed"] OBVIOUS
    <3>2. x \in Slash!Press BY <1>k, <3>1 DEF Slash!Press, Slash!Says
    <3>3. interaction' = [interaction EXCEPT ![h] = x] BY <2>4, <3>1 DEF Slash!Reply
    <3>4. x.at = "reply" /\ x.user = p.user /\ x.command = p.command /\ x.says = "failed"
          /\ x.job = p.job
      BY <1>k, <3>1 DEF Slash!Press
    <3>5. HandlerInOrder(x, e, r, None, made[h])
      BY <2>2, <2>4, <3>4 DEF HandlerInOrder
    <3>6. /\ fetch' = [fetch EXCEPT ![h] = e] /\ request' = [request EXCEPT ![h] = r]
    BY <1>k, <2>1, <2>4
    <3> QED BY <1>2, <1>k, <2>1, <2>4, <3>2, <3>3, <3>4, <3>5, <3>6
  <2> QED BY <1>0, <1>6, <2>3, <2>4 DEF Slash!Fetched
<1>7. CASE Slash!Answered(h)
  <2>1. PICK x : x = [p EXCEPT !.at = "reply", !.job = r.job, !.says = r.says] OBVIOUS
  <2>2. x \in Slash!Press BY <1>k, <2>1 DEF Slash!Press, Slash!Request
  <2>3. interaction' = [interaction EXCEPT ![h] = x] /\ p.at = "api" /\ r.at = "answered"
        /\ UNCHANGED <<fetch, hops, request, jobOwner, state, made, told>>
    BY <1>0, <1>7, <2>1 DEF Slash!Answered, Slash!fetchVars, Slash!jobVars
  <2>4. x.at = "reply" /\ x.user = p.user /\ x.command = p.command /\ x.says = r.says
        /\ x.job = r.job
    BY <1>k, <2>1 DEF Slash!Press
  <2>5. w = None BY <1>k, <2>3 DEF HandlerInOrder
  <2>6. HandlerInOrder(x, e, r, w, made[h])
    BY <1>k, <2>3, <2>4, <2>5 DEF HandlerInOrder
  <2>7. interaction'[h] = x /\ request'[h] = r /\ told'[h] = None
    BY <1>0, <2>3, <2>5 DEF SlashInv, Slash!TypeOK
  <2>8. AnswersAreTrue(h)'
    <3>1. SaidTruly(told[h], interaction[h].job, interaction[h].user, h)'
      <4>1. PICK y, v : y = interaction'[h].job /\ v = interaction'[h].user OBVIOUS
      <4>2. SaidTruly(None, y, v, h)' BY NothingSaid
      <4> QED BY <2>7, <4>1, <4>2 DEF SaidTruly
    <3>2. SaidTruly(r.says, r.job, p.user, h)
          /\ SeenTruly(request[h], interaction[h].user)
      BY <1>0, <1>k, <2>3 DEF AnswersAreTrue
    <3> QED BY <1>0, <2>3, <2>4, <2>7, <3>1, <3>2 DEF AnswersAreTrue, SeenTruly, SaidTruly
  <2>9. /\ fetch' = [fetch EXCEPT ![h] = e] /\ request' = [request EXCEPT ![h] = r]
        /\ told' = [told EXCEPT ![h] = w]
    BY <1>k, <2>3
  <2>10. interaction' = [interaction EXCEPT ![h] = x] /\ UNCHANGED <<hops, jobOwner, state, made>>
    BY <2>3
  <2> QED BY <1>k, <2>2, <2>6, <2>8, <2>9, <2>10, HandlerGoesOn
<1>8. CASE Slash!Replied(h)
  <2>1. PICK x : x = [p EXCEPT !.at = "done"] OBVIOUS
  <2>2. x \in Slash!Press BY <1>k, <2>1 DEF Slash!Press
  <2>3. interaction' = [interaction EXCEPT ![h] = x] /\ p.at = "reply"
        /\ UNCHANGED <<fetch, hops, request, jobOwner, state, made>>
    BY <1>8, <2>1 DEF Slash!Replied, Slash!To, Slash!fetchVars, Slash!jobVars
  <2>4. x.at = "done" /\ x.user = p.user /\ x.command = p.command /\ x.says = p.says
        /\ x.job = p.job
    BY <1>k, <2>1 DEF Slash!Press
  <2>5. PICK t \in {p.says, w} : told' = [told EXCEPT ![h] = t]
    BY <1>8, <1>k DEF Slash!Replied
  <2>6. t \in Slash!Says \cup {None} BY <1>k, <2>5 DEF Slash!Press
  <2>7. HandlerInOrder(x, e, r, t, made[h]) BY <1>k, <2>3, <2>4 DEF HandlerInOrder
  <2>8. interaction'[h] = x /\ request'[h] = r /\ told'[h] = t
    BY <1>0, <2>3, <2>5 DEF SlashInv, Slash!TypeOK
  <2>9. SaidTruly(t, p.job, p.user, h)
    BY <1>0, <1>k, <2>3, <2>5 DEF AnswersAreTrue
  <2>10. AnswersAreTrue(h)'
    BY <1>0, <1>k, <2>3, <2>4, <2>8, <2>9 DEF AnswersAreTrue, SeenTruly, SaidTruly
  <2>11. /\ fetch' = [fetch EXCEPT ![h] = e] /\ request' = [request EXCEPT ![h] = r] BY <1>k, <2>3
  <2>12. interaction' = [interaction EXCEPT ![h] = x] /\ UNCHANGED <<hops, jobOwner, state, made>>
    BY <2>3
  <2> QED BY <1>k, <2>2, <2>5, <2>6, <2>7, <2>10, <2>11, <2>12, HandlerGoesOn
<1> QED BY <1>1, <1>3, <1>4, <1>5, <1>6, <1>7, <1>8

(***************************************************************************)
(* Requests of a fetch: a new one is the only one that counts.             *)
(***************************************************************************)
LEMMA HopAdded ==
  ASSUME NEW requests \in Seq(Slash!Hop), HopsInOrder("dns", requests), NEW x \in Slash!Hop,
         x.timer, ~x.settled
  PROVE  /\ Append(requests, x) \in Seq(Slash!Hop)
         /\ HopsInOrder("get", Append(requests, x))
<1>1. \A k \in DOMAIN requests : requests[k].settled /\ ~requests[k].timer
  BY DEF HopsInOrder
<1>2. /\ DOMAIN Append(requests, x) = 1..Len(requests) + 1
      /\ \A k \in 1..Len(requests) + 1 :
           Append(requests, x)[k] = IF k = Len(requests) + 1 THEN x ELSE requests[k]
      /\ Len(Append(requests, x)) = Len(requests) + 1 /\ DOMAIN requests = 1..Len(requests)
  OBVIOUS
<1>3. Append(requests, x) # <<>>
  <2>1. Len(<<>>) = 0 /\ Len(requests) + 1 # 0 OBVIOUS
  <2> QED BY <1>2, <2>1
<1>4. ASSUME NEW k \in DOMAIN Append(requests, x)
      PROVE  /\ Append(requests, x)[k].timer <=> ~Append(requests, x)[k].settled
             /\ ~Append(requests, x)[k].settled => k = Len(Append(requests, x))
  <2>1. CASE k = Len(requests) + 1 BY <1>2, <2>1
  <2>2. CASE k # Len(requests) + 1
    <3>1. k \in DOMAIN requests /\ Append(requests, x)[k] = requests[k] BY <1>2, <1>4, <2>2
    <3> QED BY <1>1, <3>1
  <2> QED BY <2>1, <2>2
<1> QED BY <1>3, <1>4 DEF HopsInOrder

(***************************************************************************)
(* And when one ends the fetch goes on as it was, or waits for none of     *)
(* them.                                                                   *)
(***************************************************************************)
LEMMA HopEnds ==
  ASSUME NEW requests \in Seq(Slash!Hop), NEW k \in DOMAIN requests, NEW f, NEW g,
         HopsInOrder(f, requests), NEW y \in Slash!Hop, y.settled, ~y.timer,
         (g = f /\ requests[k].settled) \/ (g # "get" /\ k = Len(requests))
  PROVE  /\ [requests EXCEPT ![k] = y] \in Seq(Slash!Hop)
         /\ HopsInOrder(g, [requests EXCEPT ![k] = y])
<1> DEFINE others == [requests EXCEPT ![k] = y]
<1>1. /\ DOMAIN others = DOMAIN requests /\ Len(others) = Len(requests)
      /\ \A i \in DOMAIN requests : others[i] = IF i = k THEN y ELSE requests[i]
      /\ others \in Seq(Slash!Hop)
  OBVIOUS
<1>2. ASSUME NEW i \in DOMAIN others
      PROVE  /\ others[i].timer <=> ~others[i].settled
             /\ ~others[i].settled => i = Len(others) /\ g = "get"
  <2>1. CASE i = k BY <1>1, <2>1
  <2>2. CASE i # k
    <3>1. i \in DOMAIN requests /\ others[i] = requests[i] BY <1>1, <1>2, <2>2
    <3> QED BY <1>1, <2>2, <3>1 DEF HopsInOrder
  <2> QED BY <2>1, <2>2
<1>3. others # <<>>
  <2>1. DOMAIN <<>> = {} OBVIOUS
  <2> QED BY <1>1, <2>1
<1> QED BY <1>1, <1>2, <1>3 DEF HopsInOrder

(***************************************************************************)
(* The steps of a fetch: an address is found, a request is redirected,     *)
(* ends, or breaks when nobody waits for it any more.                      *)
(***************************************************************************)
LEMMA FetchGoesOn ==
  ASSUME SlashInv, NEW h \in Presses,
         \/ Slash!Resolved(h) \/ Slash!Redirected(h) \/ Slash!Ends(h)
         \/ \E k \in DOMAIN hops[h] : Slash!Breaks(h, k)
  PROVE  SlashInv'
<1>0. PICK e, requests, m : e = fetch[h] /\ requests = hops[h] /\ m = made[h] OBVIOUS
<1>k. /\ e \in {"none", "dns", "get", "content", "error"} /\ requests \in Seq(Slash!Hop)
      /\ HandlerInOrder(interaction[h], e, request[h], told[h], m) /\ HopsInOrder(e, requests)
  BY PressKnown, <1>0
<1>u. UNCHANGED <<interaction, request, jobOwner, state, made, told>>
  BY DEF Slash!Resolved, Slash!Redirected, Slash!Ends, Slash!Breaks, Slash!jobVars
<1>1. SUFFICES ASSUME NEW f \in {"none", "dns", "get", "content", "error"},
                      NEW rs \in Seq(Slash!Hop),
                      fetch' = [fetch EXCEPT ![h] = f], hops' = [hops EXCEPT ![h] = rs],
                      HopsInOrder(f, rs), f = e \/ e \in {"dns", "get"}
               PROVE  SlashInv'
  <2>1. CASE Slash!Resolved(h)
    <3>1. e = "dns" BY <1>0, <2>1 DEF Slash!Resolved
    <3>2. CASE fetch' = [fetch EXCEPT ![h] = "error"] /\ hops' = hops
      <4>1. HopsInOrder("error", requests) BY <1>k, <3>1 DEF HopsInOrder
      <4>2. hops' = [hops EXCEPT ![h] = requests]
        BY <1>0, <3>2 DEF SlashInv, Slash!TypeOK
      <4> QED BY <1>1, <1>k, <3>1, <3>2, <4>1, <4>2
    <3>3. CASE /\ fetch' = [fetch EXCEPT ![h] = "get"]
               /\ hops' = [hops EXCEPT ![h] = Append(@, [timer |-> TRUE, settled |-> FALSE,
                                                         socket |-> "open"])]
      <4>1. PICK x \in Slash!Hop : x = [timer |-> TRUE, settled |-> FALSE, socket |-> "open"]
        BY DEF Slash!Hop
      <4>2. Append(requests, x) \in Seq(Slash!Hop) /\ HopsInOrder("get", Append(requests, x))
        BY <1>k, <3>1, <4>1, HopAdded
      <4>3. hops' = [hops EXCEPT ![h] = Append(requests, x)] BY <1>0, <3>3, <4>1
      <4> QED BY <1>1, <3>1, <3>3, <4>2, <4>3
    <3> QED BY <2>1, <3>2, <3>3 DEF Slash!Resolved
  <2>2. ASSUME NEW k \in DOMAIN requests, NEW y \in Slash!Hop,
               NEW f \in {"none", "dns", "get", "content", "error"}, y.settled, ~y.timer,
               fetch' = [fetch EXCEPT ![h] = f], hops' = [hops EXCEPT ![h][k] = y],
               (f = e /\ requests[k].settled) \/ (f # "get" /\ k = Len(requests) /\ e = "get")
        PROVE  SlashInv'
    <3>1. PICK rs \in Seq(Slash!Hop) : rs = [requests EXCEPT ![k] = y] /\ HopsInOrder(f, rs)
      BY <1>k, <2>2, HopEnds
    <3>2. hops' = [hops EXCEPT ![h] = rs] BY <1>0, <2>2, <3>1
    <3> QED BY <1>1, <2>2, <3>1, <3>2
  <2>3. /\ \A hop \in Slash!Hop : /\ Slash!Settled(hop) \in Slash!Hop
                                 /\ Slash!Settled(hop).settled /\ ~Slash!Settled(hop).timer
      /\ \A hop \in Slash!Hop, s \in {"open", "gone"} :
           LET y == [Slash!Settled(hop) EXCEPT !.socket = s]
           IN  y \in Slash!Hop /\ y.settled /\ ~y.timer
    BY DEF Slash!Settled, Slash!Hop
  <2>4. \A k \in DOMAIN requests : requests[k] \in Slash!Hop BY <1>k
  <2>5. CASE Slash!Responds(h) /\ (Slash!Redirected(h) \/ Slash!Ends(h))
    <3>1. e = "get" /\ Len(requests) \in DOMAIN requests
      <4>1. e = "get" BY <1>0, <2>5 DEF Slash!Responds
      <4>2. requests # <<>> BY <1>k, <4>1 DEF HopsInOrder
      <4> QED BY <1>k, <4>1, <4>2
    <3>2. PICK k \in DOMAIN requests : k = Len(requests) /\ k = Slash!Last(h)
      BY <1>0, <3>1 DEF Slash!Last
    <3>3. CASE Slash!Redirected(h)
      <4>1. PICK y \in Slash!Hop : y = Slash!Settled(requests[k]) /\ y.settled /\ ~y.timer
        BY <2>3, <2>4
      <4>2. hops' = [hops EXCEPT ![h][k] = y]
        BY <1>0, <3>2, <3>3, <4>1 DEF Slash!Redirected
      <4>3. PICK f \in {"dns", "error"} : fetch' = [fetch EXCEPT ![h] = f]
        BY <3>3 DEF Slash!Redirected
      <4> QED BY <2>2, <3>1, <3>2, <4>1, <4>2, <4>3
    <3>4. CASE Slash!Ends(h)
      <4>1. PICK f \in {"error", "content"}, s \in {"open", "gone"} :
              /\ fetch' = [fetch EXCEPT ![h] = f]
              /\ hops' = [hops EXCEPT ![h][k] = [Slash!Settled(requests[k]) EXCEPT !.socket = s]]
        BY <1>0, <3>2, <3>4 DEF Slash!Ends
      <4>2. PICK y \in Slash!Hop : /\ y = [Slash!Settled(requests[k]) EXCEPT !.socket = s]
                                  /\ y.settled /\ ~y.timer
        BY <2>3, <2>4
      <4> QED BY <2>2, <3>1, <3>2, <4>1, <4>2
    <3> QED BY <2>5, <3>3, <3>4
  <2>6. CASE \E k \in DOMAIN hops[h] : Slash!Breaks(h, k)
    <3>1. PICK k \in DOMAIN requests : Slash!Breaks(h, k) BY <1>0, <2>6
    <3>2. PICK y \in Slash!Hop : /\ y = [Slash!Settled(requests[k]) EXCEPT !.socket = "gone"]
                                /\ y.settled /\ ~y.timer
      BY <2>3, <2>4
    <3>3. hops' = [hops EXCEPT ![h][k] = y] BY <1>0, <3>1, <3>2 DEF Slash!Breaks
    <3>4. CASE requests[k].settled
      <4>1. fetch' = [fetch EXCEPT ![h] = e]
        BY <1>0, <3>1, <3>4 DEF Slash!Breaks, SlashInv, Slash!TypeOK
      <4>2. PICK f \in {"none", "dns", "get", "content", "error"} : f = e BY <1>k
      <4>3. fetch' = [fetch EXCEPT ![h] = f] BY <4>1, <4>2
      <4>4. PICK rs \in Seq(Slash!Hop) : rs = [requests EXCEPT ![k] = y] /\ HopsInOrder(f, rs)
        <5>1. HopsInOrder(f, requests) BY <1>k, <4>2
        <5>2. y.settled /\ ~y.timer /\ requests[k].settled BY <3>2, <3>4
        <5>3. [requests EXCEPT ![k] = y] \in Seq(Slash!Hop)
              /\ HopsInOrder(f, [requests EXCEPT ![k] = y])
          BY <1>k, <5>1, <5>2, HopEnds
        <5> QED BY <5>3
      <4>5. hops' = [hops EXCEPT ![h] = rs] BY <1>0, <3>3, <4>4
      <4> QED BY <1>1, <4>2, <4>3, <4>4, <4>5
    <3>5. CASE ~requests[k].settled
      <4>1. fetch' = [fetch EXCEPT ![h] = "error"] BY <1>0, <3>1, <3>5 DEF Slash!Breaks
      <4>2. k = Len(requests) /\ e = "get" BY <1>k, <3>5 DEF HopsInOrder
      <4> QED BY <2>2, <3>2, <3>3, <4>1, <4>2
    <3> QED BY <3>4, <3>5
  <2> QED BY <2>1, <2>5, <2>6 DEF Slash!Redirected, Slash!Ends
<1>2. JobsGoOn /\ JobsAreOwned' BY <1>u, SameJobs
<1>3. /\ \A g \in Presses \ {h} : SamePress(g)
      /\ fetch'[h] = f /\ hops'[h] = rs /\ made'[h] = m
      /\ Slash!TypeOK'
  BY <1>0, <1>1, <1>u DEF SlashInv, Slash!TypeOK, SamePress
<1>4. AnswersAreTrue(h)' BY <1>2, <1>u, AnswersStay
<1>5. HandlerInOrder(interaction[h], f, request[h], told[h], m)
  BY <1>1, <1>k DEF HandlerInOrder
<1>6. PressIsFine(h)' BY <1>1, <1>3, <1>4, <1>5, <1>u DEF PressIsFine, HandlerInOrder, HopsInOrder
<1> QED BY <1>2, <1>3, <1>6, OnePressMoves

(***************************************************************************)
(* A step of the API for a press, which changes no more than its request,  *)
(* the jobs and the job that was made for the press.                       *)
(***************************************************************************)
LEMMA ApiGoesOn ==
  ASSUME SlashInv, NEW h \in Presses, NEW r \in Slash!Request,
         request[h].at # "none", r.at # "none", r.at = "answered" \/ made'[h] = None,
         request' = [request EXCEPT ![h] = r], UNCHANGED <<interaction, fetch, hops, told>>,
         interaction[h].command # "recover" => r.job \in JobIds,
         r.at = "looked" => interaction[h].command # "recover",
         \A g \in Presses \ {h} : made'[g] = made[g],
         jobOwner' \in [JobIds -> Users \cup {None}], state' \in [JobIds -> Slash!JobState],
         made' \in [Presses -> JobIds \cup {None}], made'[h] # None => fetch[h] = "content",
         JobsGoOn, JobsAreOwned',
         SeenTruly(r, interaction[h].user)',
         r.at = "answered" => SaidTruly(r.says, r.job, interaction[h].user, h)'
  PROVE  SlashInv'
<1>1. /\ Slash!TypeOK' /\ request'[h] = r
      /\ \A g \in Presses \ {h} : SamePress(g)
  BY DEF SlashInv, Slash!TypeOK, SamePress
<1>2. HandlerInOrder(interaction[h], fetch[h], request[h], told[h], made[h])
      /\ HopsInOrder(fetch[h], hops[h]) /\ AnswersAreTrue(h)
  BY PressKnown
<1>3. interaction[h].at \notin {"new", "defer", "file"} /\ made[h] \in {None, made'[h]}
  BY <1>2 DEF HandlerInOrder, JobsGoOn
<1>4. PICK p, f, hs, t : /\ p = interaction[h] /\ f = fetch[h] /\ hs = hops[h] /\ t = told[h]
                         /\ interaction'[h] = p /\ fetch'[h] = f /\ hops'[h] = hs /\ told'[h] = t
  OBVIOUS
<1>5. HandlerInOrder(p, f, r, t, made'[h])
  BY <1>2, <1>3, <1>4 DEF HandlerInOrder
<1>6. AnswersAreTrue(h)'
  <2>1. ASSUME NEW says, NEW j, NEW u, SaidTruly(says, j, u, h) PROVE SaidTruly(says, j, u, h)'
    BY <2>1, TruthStays DEF SlashInv
  <2>2. PICK s, j, u : s = p.says /\ j = p.job /\ u = p.user OBVIOUS
  <2>3. /\ p.at = "reply" => SaidTruly(s, j, u, h)'
        /\ SaidTruly(t, j, u, h)'
    BY <1>2, <1>4, <2>1, <2>2 DEF AnswersAreTrue
  <2> QED BY <1>1, <1>4, <2>2, <2>3 DEF AnswersAreTrue, SaidTruly, SeenTruly
<1>7. PressIsFine(h)'
  BY <1>1, <1>2, <1>4, <1>5, <1>6 DEF PressIsFine, HandlerInOrder, HopsInOrder
<1> QED BY <1>1, <1>7, OnePressMoves

(***************************************************************************)
(* The API looks a job up, reports it, cancels it, makes one or refuses.   *)
(***************************************************************************)
LEMMA ApiSteps ==
  ASSUME SlashInv, NEW h \in Presses,
         \/ Slash!Refused(h) \/ Slash!LooksUp(h) \/ Slash!Reports(h) \/ Slash!Cancels(h)
         \/ \E j \in JobIds : Slash!Submitted(h, j)
  PROVE  SlashInv'
<1>0. PICK p, q, m : p = interaction[h] /\ q = request[h] /\ m = made[h] OBVIOUS
<1>k. /\ p \in Slash!Press /\ q \in Slash!Request /\ AnswersAreTrue(h)
      /\ HandlerInOrder(p, fetch[h], q, told[h], m)
  BY PressKnown, <1>0
<1>n. None \notin Users /\ None \notin JobIds /\ None \notin Slash!Says BY SlashConstants
<1>t. /\ jobOwner \in [JobIds -> Users \cup {None}] /\ state \in [JobIds -> Slash!JobState]
      /\ made \in [Presses -> JobIds \cup {None}] /\ JobsAreOwned
  BY DEF SlashInv, Slash!TypeOK
<1>a. /\ q.at \in {"asked", "looked"} /\ m = None /\ p.user \in Users
      /\ UNCHANGED <<interaction, fetch, hops, told>>
  <2>1. /\ q.at \in {"asked", "looked"} /\ UNCHANGED <<interaction, fetch, hops, told>>
    BY <1>0 DEF Slash!Refused, Slash!LooksUp, Slash!Reports, Slash!Cancels, Slash!Submitted,
                Slash!fetchVars
  <2> QED BY <1>k, <2>1 DEF HandlerInOrder
<1>1. ASSUME NEW r \in Slash!Request, request' = [request EXCEPT ![h] = r],
             UNCHANGED <<jobOwner, state, made>>, r.at \in {"looked", "answered"}, r.job = q.job,
             r.at = "looked" => p.command # "recover",
             SeenTruly(r, p.user), r.at = "answered" => SaidTruly(r.says, r.job, p.user, h)
      PROVE  SlashInv'
  <2>1. JobsGoOn /\ JobsAreOwned' BY <1>1, SameJobs
  <2>2. p.command # "recover" => r.job \in JobIds BY <1>1, <1>a, <1>k DEF HandlerInOrder
  <2>3. PICK u, j, s : u = p.user /\ j = r.job /\ s = r.says OBVIOUS
  <2>4. SeenTruly(r, u)' BY <1>1, <2>3 DEF SeenTruly
  <2>5. r.at = "answered" => SaidTruly(s, j, u, h)' BY <1>1, <2>3 DEF SaidTruly
  <2>6. made'[h] = None /\ \A g \in Presses \ {h} : made'[g] = made[g] BY <1>0, <1>1, <1>a
  <2>7. /\ request[h].at # "none" /\ r.at # "none"
        /\ SeenTruly(r, interaction[h].user)'
        /\ r.at = "answered" => SaidTruly(r.says, r.job, interaction[h].user, h)'
    BY <1>0, <1>1, <1>a, <2>3, <2>4, <2>5 DEF SeenTruly, SaidTruly
  <2>8. /\ jobOwner' \in [JobIds -> Users \cup {None}] /\ state' \in [JobIds -> Slash!JobState]
        /\ made' \in [Presses -> JobIds \cup {None}]
    BY <1>1, <1>t
  <2> QED BY <1>0, <1>1, <1>a, <2>1, <2>2, <2>6, <2>7, <2>8, ApiGoesOn
<1>2. CASE Slash!Refused(h)
  <2>1. PICK r : r = [q EXCEPT !.at = "answered", !.says = "failed"] OBVIOUS
  <2>2. /\ r \in Slash!Request /\ r.at = "answered" /\ r.says = "failed" /\ r.job = q.job
    BY <1>k, <2>1 DEF Slash!Request, Slash!Says
  <2>3. request' = [request EXCEPT ![h] = r] /\ UNCHANGED <<jobOwner, state, made>>
    BY <1>0, <1>2, <2>1 DEF Slash!Refused, Slash!Answer, Slash!jobVars
  <2>4. SeenTruly(r, p.user) /\ SaidTruly(r.says, r.job, p.user, h)
    BY <2>2, NothingSaid DEF SeenTruly
  <2> QED BY <1>1, <2>2, <2>3, <2>4
<1>3. CASE Slash!LooksUp(h)
  <2>0. PICK j : j = q.job OBVIOUS
  <2>1. j \in JobIds /\ p.command # "recover" /\ UNCHANGED <<jobOwner, state, made>>
    BY <1>0, <1>3, <1>a, <1>k, <2>0 DEF Slash!LooksUp, Slash!jobVars, HandlerInOrder
  <2>2. CASE state[j] \in {"ABSENT", "LOST"}
    <3>1. PICK r : r = [q EXCEPT !.at = "answered", !.says = "not found"] OBVIOUS
    <3>2. /\ r \in Slash!Request /\ r.at = "answered" /\ r.says = "not found" /\ r.job = q.job
      BY <1>k, <3>1 DEF Slash!Request, Slash!Says
    <3>3. request' = [request EXCEPT ![h] = r]
      BY <1>0, <1>3, <2>0, <2>2, <3>1 DEF Slash!LooksUp, Slash!Answer
    <3>4. SeenTruly(r, p.user) /\ SaidTruly(r.says, r.job, p.user, h)
      BY <3>2, NothingSaid DEF SeenTruly
    <3> QED BY <1>1, <2>1, <3>2, <3>3, <3>4
  <2>3. CASE state[j] \notin {"ABSENT", "LOST"} /\ jobOwner[j] # p.user
    <3>1. PICK r : r = [q EXCEPT !.at = "answered", !.says = "denied"] OBVIOUS
    <3>2. /\ r \in Slash!Request /\ r.at = "answered" /\ r.says = "denied" /\ r.job = j
      BY <1>k, <2>0, <3>1 DEF Slash!Request, Slash!Says
    <3>3. request' = [request EXCEPT ![h] = r]
      BY <1>0, <1>3, <2>0, <2>3, <3>1 DEF Slash!LooksUp, Slash!Answer
    <3>4. jobOwner[j] # None BY <1>t, <2>1, <2>3 DEF JobsAreOwned
    <3>5. SeenTruly(r, p.user) /\ SaidTruly(r.says, r.job, p.user, h)
      BY <2>1, <2>3, <3>2, <3>4 DEF SeenTruly, SaidTruly, Slash!JobState, Slash!Terminal
    <3> QED BY <1>1, <2>0, <2>1, <3>2, <3>3, <3>5
  <2>4. CASE state[j] \notin {"ABSENT", "LOST"} /\ jobOwner[j] = p.user
    <3>1. PICK r : r = [q EXCEPT !.at = "looked", !.seen = state[j]] OBVIOUS
    <3>2. /\ r \in Slash!Request /\ r.at = "looked" /\ r.seen = state[j] /\ r.job = j
      BY <1>k, <1>t, <2>0, <2>1, <3>1 DEF Slash!Request
    <3>3. request' = [request EXCEPT ![h] = r]
      BY <1>0, <1>3, <2>0, <2>4, <3>1 DEF Slash!LooksUp
    <3>4. SeenTruly(r, p.user) BY <2>4, <3>2 DEF SeenTruly
    <3> QED BY <1>1, <2>0, <2>1, <3>2, <3>3, <3>4
  <2> QED BY <2>2, <2>3, <2>4
<1>4. CASE Slash!Reports(h)
  <2>1. PICK r : r = [q EXCEPT !.at = "answered", !.says = q.seen] OBVIOUS
  <2>2. /\ r \in Slash!Request /\ r.at = "answered" /\ r.says = q.seen /\ r.job = q.job
    BY <1>k, <2>1 DEF Slash!Request, Slash!Says
  <2>3. request' = [request EXCEPT ![h] = r] /\ UNCHANGED <<jobOwner, state, made>>
        /\ q.at = "looked"
    BY <1>0, <1>4, <2>1 DEF Slash!Reports, Slash!Answer, Slash!jobVars
  <2>4. q.job \in JobIds /\ jobOwner[q.job] = p.user /\ q.seen \in Slash!JobState
        /\ (q.seen \in Slash!Terminal => state[q.job] \in {q.seen, "LOST"})
    BY <1>0, <1>k, <2>3 DEF AnswersAreTrue, SeenTruly, HandlerInOrder, Slash!Request
  <2>5. SeenTruly(r, p.user) /\ SaidTruly(r.says, r.job, p.user, h)
    BY <1>a, <1>n, <2>2, <2>4 DEF SeenTruly, SaidTruly, Slash!JobState, Slash!Terminal
  <2> QED BY <1>1, <2>2, <2>3, <2>5
<1>5. CASE Slash!Cancels(h)
  <2>0. PICK j : j = q.job OBVIOUS
  <2>1. q.at = "looked" /\ UNCHANGED <<jobOwner, made>> BY <1>0, <1>5 DEF Slash!Cancels
  <2>2. j \in JobIds /\ jobOwner[j] = p.user
        /\ (q.seen \in Slash!Terminal => state[j] \in {q.seen, "LOST"})
    BY <1>0, <1>k, <2>0, <2>1 DEF AnswersAreTrue, SeenTruly, HandlerInOrder
  <2>3. CASE q.seen \in Slash!Terminal
    <3>1. PICK r : r = [q EXCEPT !.at = "answered", !.says = "over"] OBVIOUS
    <3>2. /\ r \in Slash!Request /\ r.at = "answered" /\ r.says = "over" /\ r.job = j
      BY <1>k, <2>0, <3>1 DEF Slash!Request, Slash!Says
    <3>3. request' = [request EXCEPT ![h] = r] /\ state' = state
      BY <1>0, <1>5, <2>0, <2>3, <3>1 DEF Slash!Cancels, Slash!Answer
    <3>4. SeenTruly(r, p.user) /\ SaidTruly(r.says, r.job, p.user, h)
      BY <1>a, <1>n, <2>2, <2>3, <3>2 DEF SeenTruly, SaidTruly, Slash!JobState, Slash!Terminal
    <3> QED BY <1>1, <2>0, <2>1, <3>2, <3>3, <3>4
  <2>4. CASE q.seen \notin Slash!Terminal
    <3>1. PICK r : r = [q EXCEPT !.at = "answered", !.says = "cancelled"] OBVIOUS
    <3>2. /\ r \in Slash!Request /\ r.at = "answered" /\ r.says = "cancelled" /\ r.job = j
      BY <1>k, <2>0, <3>1 DEF Slash!Request, Slash!Says
    <3>3. /\ request' = [request EXCEPT ![h] = r]
          /\ state' = IF state[j] \in Slash!Terminal \cup {"LOST"} THEN state
                      ELSE [state EXCEPT ![j] = "CANCELLED"]
      BY <1>0, <1>5, <2>0, <2>4, <3>1 DEF Slash!Cancels, Slash!Answer
    <3>4. state[j] # "ABSENT" /\ jobOwner[j] # None
      BY <1>a, <1>n, <1>t, <2>2 DEF JobsAreOwned
    <3>5. /\ state' \in [JobIds -> Slash!JobState] /\ state'[j] \in Slash!Terminal \cup {"LOST"}
          /\ \A i \in JobIds :
               \/ state'[i] = state[i]
               \/ i = j /\ state[i] \notin Slash!Terminal \cup {"LOST"} /\ state'[i] # "ABSENT"
      <4>1. CASE state[j] \in Slash!Terminal \cup {"LOST"}
        <5>1. state' = state BY <3>3, <4>1
        <5> QED BY <1>t, <4>1, <5>1
      <4>2. CASE state[j] \notin Slash!Terminal \cup {"LOST"}
        <5>1. state' = [state EXCEPT ![j] = "CANCELLED"] BY <3>3, <4>2
        <5>2. "CANCELLED" \in Slash!JobState /\ "CANCELLED" \in Slash!Terminal
              /\ "CANCELLED" # "ABSENT"
          BY DEF Slash!JobState, Slash!Terminal
        <5>3. /\ state' \in [JobIds -> Slash!JobState] /\ state'[j] = "CANCELLED"
              /\ \A i \in JobIds : i # j => state'[i] = state[i]
          BY <1>t, <2>2, <5>1, <5>2
        <5> QED BY <4>2, <5>2, <5>3
      <4> QED BY <4>1, <4>2
    <3>6. JobsGoOn /\ JobsAreOwned' BY <1>t, <2>1, <3>4, <3>5 DEF JobsGoOn, JobsAreOwned
    <3>7. PICK u : u = p.user OBVIOUS
    <3>8. SaidTruly("cancelled", j, u, h)'
      BY <2>1, <2>2, <3>4, <3>5, <3>7 DEF SaidTruly, Slash!JobState, Slash!Terminal
    <3>9. /\ request[h].at # "none" /\ r.at # "none" /\ made'[h] = None
          /\ (\A g \in Presses \ {h} : made'[g] = made[g])
          /\ SeenTruly(r, interaction[h].user)'
          /\ SaidTruly(r.says, r.job, interaction[h].user, h)'
      BY <1>0, <1>a, <2>1, <3>2, <3>7, <3>8 DEF SeenTruly, SaidTruly
    <3>10. jobOwner' \in [JobIds -> Users \cup {None}] /\ made' \in [Presses -> JobIds \cup {None}]
      BY <1>t, <2>1
    <3>11. UNCHANGED <<interaction, fetch, hops, told>> BY <1>a
    <3> QED BY <2>2, <3>2, <3>3, <3>5, <3>6, <3>9, <3>10, <3>11, ApiGoesOn
  <2> QED BY <2>3, <2>4
<1>6. ASSUME NEW j \in JobIds, Slash!Submitted(h, j) PROVE SlashInv'
  <2>1. PICK r : r = [q EXCEPT !.at = "answered", !.job = j, !.says = "submitted"] OBVIOUS
  <2>2. /\ r \in Slash!Request /\ r.at = "answered" /\ r.says = "submitted" /\ r.job = j
    BY <1>k, <2>1 DEF Slash!Request, Slash!Says
  <2>3. /\ request' = [request EXCEPT ![h] = r] /\ p.command = "recover" /\ q.at = "asked"
        /\ jobOwner[j] = None /\ jobOwner' = [jobOwner EXCEPT ![j] = p.user]
        /\ state' = [state EXCEPT ![j] = "QUEUED"] /\ made' = [made EXCEPT ![h] = j]
    <3>1. p.command = "recover" /\ q.at = "asked" /\ jobOwner[j] = None
      BY <1>0, <1>6 DEF Slash!Submitted
    <3>2. request' = [request EXCEPT ![h].at = "answered", ![h].job = j, ![h].says = "submitted"]
      BY <1>6 DEF Slash!Submitted
    <3>3. request' = [request EXCEPT ![h] = r] BY <1>0, <2>1, <3>2
    <3>4. jobOwner' = [jobOwner EXCEPT ![j] = p.user] BY <1>0, <1>6 DEF Slash!Submitted
    <3>5. state' = [state EXCEPT ![j] = "QUEUED"] /\ made' = [made EXCEPT ![h] = j]
      BY <1>6 DEF Slash!Submitted
    <3> QED BY <3>1, <3>3, <3>4, <3>5
  <2>4. /\ jobOwner' \in [JobIds -> Users \cup {None}] /\ state' \in [JobIds -> Slash!JobState]
        /\ made' \in [Presses -> JobIds \cup {None}]
        /\ jobOwner'[j] = p.user /\ state'[j] = "QUEUED" /\ made'[h] = j
        /\ \A i \in JobIds \ {j} : jobOwner'[i] = jobOwner[i] /\ state'[i] = state[i]
        /\ \A g \in Presses \ {h} : made'[g] = made[g]
    BY <1>a, <1>t, <2>3 DEF Slash!JobState
  <2>5. /\ state[j] = "ABSENT" /\ fetch[h] = "content"
        /\ \A g \in Presses : made[g] # j
    BY <1>k, <1>n, <1>t, <2>3 DEF JobsAreOwned, HandlerInOrder
  <2>6. JobsGoOn
    BY <1>0, <1>a, <2>3, <2>4, <2>5 DEF JobsGoOn, Slash!Terminal
  <2>7. JobsAreOwned'
    <3>1. \A i \in JobIds : jobOwner'[i] = None <=> state'[i] = "ABSENT"
      BY <1>a, <1>n, <1>t, <2>4 DEF JobsAreOwned
    <3>2. ASSUME NEW g \in Presses, made'[g] # None PROVE jobOwner'[made'[g]] # None
      <4>1. CASE g = h BY <1>a, <1>n, <2>4, <4>1
      <4>2. CASE g # h
        <5>1. made'[g] = made[g] /\ made[g] \in JobIds /\ made[g] # j
          BY <1>t, <2>4, <2>5, <3>2, <4>2
        <5> QED BY <1>t, <2>4, <3>2, <5>1 DEF JobsAreOwned
      <4> QED BY <4>1, <4>2
    <3>3. \A g, i \in Presses : made'[g] # None /\ made'[g] = made'[i] => g = i
      BY <1>t, <2>4, <2>5 DEF JobsAreOwned
    <3> QED BY <3>1, <3>2, <3>3 DEF JobsAreOwned
  <2>8. PICK u : u = p.user OBVIOUS
  <2>9. SaidTruly("submitted", j, u, h)'
    BY <1>a, <1>n, <2>4, <2>8 DEF SaidTruly, Slash!JobState, Slash!Terminal
  <2>10. /\ request[h].at # "none" /\ r.at # "none"
         /\ SeenTruly(r, interaction[h].user)'
         /\ SaidTruly(r.says, r.job, interaction[h].user, h)'
    BY <1>0, <1>a, <2>2, <2>3, <2>8, <2>9 DEF SeenTruly, SaidTruly
  <2>11. UNCHANGED <<interaction, fetch, hops, told>> BY <1>a
  <2> QED BY <2>2, <2>3, <2>4, <2>5, <2>6, <2>7, <2>10, <2>11, ApiGoesOn
<1> QED BY <1>2, <1>3, <1>4, <1>5, <1>6

(***************************************************************************)
(* The jobs go on by themselves, and a restart forgets them.               *)
(***************************************************************************)
LEMMA JobSteps ==
  ASSUME SlashInv, Slash!Restarts \/ \E j \in JobIds : Slash!JobMoves(j)
  PROVE  SlashInv'
<1>1. UNCHANGED <<interaction, fetch, hops, told, jobOwner, made>>
  BY DEF Slash!Restarts, Slash!JobMoves, Slash!fetchVars
<1>r. /\ request' \in [Presses -> Slash!Request]
      /\ \A g \in Presses : \/ request'[g] = request[g]
                            \/ request[g].at = "looked" /\ request'[g] = Slash!NoRequest
  <2>1. request \in [Presses -> Slash!Request] /\ Slash!NoRequest \in Slash!Request
    BY DEF SlashInv, Slash!TypeOK, Slash!NoRequest, Slash!Request, Slash!Says, Slash!JobState
  <2>2. CASE Slash!Restarts BY <2>1, <2>2 DEF Slash!Restarts
  <2>3. CASE \E j \in JobIds : Slash!JobMoves(j) BY <2>1, <2>3 DEF Slash!JobMoves
  <2> QED BY <2>2, <2>3
<1>t. /\ jobOwner \in [JobIds -> Users \cup {None}] /\ state \in [JobIds -> Slash!JobState]
      /\ JobsAreOwned
  BY DEF SlashInv, Slash!TypeOK
<1>2. /\ state' \in [JobIds -> Slash!JobState]
      /\ \A i \in JobIds : /\ state'[i] = "ABSENT" <=> state[i] = "ABSENT"
                           /\ state[i] \in Slash!Terminal => state'[i] \in {state[i], "LOST"}
                           /\ state[i] = "LOST" => state'[i] = "LOST"
  <2>1. CASE Slash!Restarts BY <1>t, <2>1 DEF Slash!Restarts, Slash!JobState
  <2>2. ASSUME NEW j \in JobIds, Slash!JobMoves(j) PROVE <1>2
    <3>1. PICK s \in {"RUNNING", "QUEUED", "SUCCEEDED", "FAILED", "TIMED_OUT"} :
            state[j] \in {"QUEUED", "RUNNING"} /\ state' = [state EXCEPT ![j] = s]
      BY <2>2 DEF Slash!JobMoves, Slash!Terminal
    <3> QED BY <1>t, <3>1 DEF Slash!JobState, Slash!Terminal
  <2> QED BY <2>1, <2>2
<1>3. JobsGoOn /\ JobsAreOwned' BY <1>1, <1>2, <1>t DEF JobsGoOn, JobsAreOwned
<1>4. Slash!TypeOK' BY <1>1, <1>2, <1>r DEF SlashInv, Slash!TypeOK
<1>5. ASSUME NEW g \in Presses PROVE PressIsFine(g)'
  <2>1. PressIsFine(g) BY DEF SlashInv, PressesAreFine
  <2>2. AnswersAreTrue(g)' BY <1>1, <1>3, <1>r, AnswersStay
  <2>3. request'[g] = request[g] \/ (request[g].at = "looked" /\ request'[g].at = "none")
    BY <1>r DEF Slash!NoRequest
  <2>4. HandlerInOrder(interaction[g], fetch[g], request[g], told[g], made[g])'
    BY <1>1, <2>1, <2>3 DEF PressIsFine, HandlerInOrder
  <2> QED BY <1>1, <2>1, <2>2, <2>4 DEF PressIsFine, HopsInOrder
<1> QED BY <1>3, <1>4, <1>5 DEF SlashInv, PressesAreFine

(***************************************************************************)
(* In the beginning there are no jobs and no press has started.            *)
(***************************************************************************)
LEMMA SlashInitial == Slash!Init => SlashInv
<1> SUFFICES ASSUME Slash!Init PROVE SlashInv
  OBVIOUS
<1>1. /\ Slash!NewPress \in Slash!Press /\ Slash!NewPress.at = "new"
      /\ Slash!NoRequest \in Slash!Request /\ Slash!NoRequest.at = "none"
      /\ <<>> \in Seq(Slash!Hop) /\ DOMAIN <<>> = {}
  BY DEF Slash!NewPress, Slash!Press, Slash!NoRequest, Slash!Request, Slash!Commands, Slash!Says,
         Slash!JobState
<1>2. Slash!TypeOK BY <1>1 DEF Slash!Init, Slash!TypeOK, Slash!JobState
<1>3. JobsAreOwned BY DEF Slash!Init, JobsAreOwned
<1>4. ASSUME NEW h \in Presses PROVE PressIsFine(h)
  <2>1. /\ interaction[h] = Slash!NewPress /\ fetch[h] = "none" /\ hops[h] = <<>>
        /\ request[h] = Slash!NoRequest /\ made[h] = None /\ told[h] = None
    BY DEF Slash!Init
  <2>2. HandlerInOrder(interaction[h], fetch[h], request[h], told[h], made[h])
    BY <1>1, <2>1 DEF HandlerInOrder
  <2>3. HopsInOrder(fetch[h], hops[h]) BY <1>1, <2>1 DEF HopsInOrder
  <2>4. SaidTruly(told[h], interaction[h].job, interaction[h].user, h) BY <2>1, NothingSaid
  <2>5. AnswersAreTrue(h) BY <1>1, <2>1, <2>4 DEF AnswersAreTrue, SeenTruly
  <2> QED BY <2>2, <2>3, <2>5 DEF PressIsFine
<1> QED BY <1>2, <1>3, <1>4 DEF SlashInv, PressesAreFine

(***************************************************************************)
(* Every step of the package, the API and the sockets keeps the invariant. *)
(***************************************************************************)
LEMMA SlashStep == SlashInv /\ [Slash!Next]_(Slash!slashVars) => SlashInv'
<1> SUFFICES ASSUME SlashInv, [Slash!Next]_(Slash!slashVars) PROVE SlashInv'
  OBVIOUS
<1>1. CASE UNCHANGED Slash!slashVars
  <2>1. UNCHANGED <<interaction, fetch, hops, request, told, jobOwner, state, made>>
    BY <1>1 DEF Slash!slashVars, Slash!fetchVars, Slash!jobVars
  <2>2. JobsGoOn /\ JobsAreOwned' BY <2>1, SameJobs
  <2>3. Slash!TypeOK' BY <2>1 DEF SlashInv, Slash!TypeOK
  <2>4. ASSUME NEW g \in Presses PROVE PressIsFine(g)'
    BY <2>1, <2>2, OtherPressesStay DEF SamePress
  <2> QED BY <2>2, <2>3, <2>4 DEF SlashInv, PressesAreFine
<1>2. CASE Slash!Next
  BY <1>2, HandlerSteps, FetchGoesOn, ApiSteps, JobSteps DEF Slash!Next
<1> QED BY <1>1, <1>2

(***************************************************************************)
(* So it holds in every state of every behaviour.                          *)
(***************************************************************************)
LEMMA SlashInvHolds == Slash!Spec => []SlashInv
<1>1. SlashInv /\ [Slash!Next]_(Slash!slashVars) => SlashInv' BY SlashStep
<1> QED BY <1>1, SlashInitial, PTL DEF Slash!Spec

(***************************************************************************)
(* Whatever timers, sockets, the API and its restarts do: a fetch settles  *)
(* once, a press makes one job at most, out of a file that is all there,   *)
(* and what a user was told of a job stays true.                           *)
(***************************************************************************)
THEOREM RepliesKeepTheirWord == Slash!Spec => []RepliesAreTrue
<1>1. SlashInv => RepliesAreTrue
  <2> SUFFICES ASSUME SlashInv PROVE RepliesAreTrue
    OBVIOUS
  <2>1. Slash!FetchesSettle
    BY DEF SlashInv, PressesAreFine, PressIsFine, HopsInOrder, HandlerInOrder,
           Slash!FetchesSettle, Slash!Last
  <2>2. Slash!RepliesStayTrue
    BY DEF SlashInv, PressesAreFine, PressIsFine, AnswersAreTrue, SaidTruly,
           Slash!RepliesStayTrue
  <2>3. \A h \in Presses : made[h] # None => fetch[h] = "content"
    BY DEF SlashInv, PressesAreFine, PressIsFine, HandlerInOrder
  <2> QED BY <2>1, <2>2, <2>3 DEF RepliesAreTrue, Slash!RepliesAreTrue, SlashInv, JobsAreOwned
<1> QED BY <1>1, SlashInvHolds, PTL

=============================================================================
