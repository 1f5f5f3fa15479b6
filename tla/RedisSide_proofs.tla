-------------------------- MODULE RedisSide_proofs --------------------------
(***************************************************************************)
(* What Redis_proofs shows of the deployed path, said of it beside the     *)
(* queue of RedisQueue; and the client that carries their commands, whose  *)
(* replies are in ASCII (Widths = {1}): the parser compares a length in    *)
(* bytes with one in characters.                                           *)
(***************************************************************************)
EXTENDS RedisSide, SequenceTheorems, WellFoundedInduction, TLAPS

Proofs == INSTANCE Redis_proofs
  WITH Producers <- Processes, Consumers <- {}, Keys <- {}, Faults <- DispatchFaults,
       job <- dJob, waiting <- dWaiting, idemp <- dIdemp, lease <- dLease,
       issued <- dIssued, abandoned <- dAbandoned, proc <- dProc

(***************************************************************************)
(* Dispatch and Proofs are instances of one module for one system; what    *)
(* that module assumes of its constants holds of it.                       *)
(***************************************************************************)
LEMMA SameSystem ==
  /\ Proofs!Assumptions
  /\ DispatchFaults \subseteq {"crash", "expiry"}
  /\ None \notin JobIds \cup {} \cup Proofs!Doc
  /\ Dispatch!DispatchSpec => Proofs!DispatchSpec
<1>1. Proofs!Assumptions
  BY DispatchAssumption DEF Proofs!Assumptions, Dispatch!Assumptions
<1>2. None \notin JobIds \cup {} \cup Proofs!Doc
  BY DispatchAssumption DEF Proofs!Doc, Dispatch!Doc, Proofs!JobState, Dispatch!JobState
<1>3. Dispatch!DispatchInit => Proofs!DispatchInit
  BY DEF Proofs!DispatchInit, Dispatch!DispatchInit, Proofs!Init, Dispatch!Init,
         Proofs!Idle, Dispatch!Idle, Proofs!Polling, Dispatch!Polling
<1>4. Dispatch!DispatchNext => Proofs!DispatchNext
  BY DEF Proofs!DispatchNext, Dispatch!DispatchNext, Proofs!Submit, Dispatch!Submit,
         Proofs!Api, Dispatch!Api, Proofs!Queue, Dispatch!Queue, Proofs!Queued,
         Dispatch!Queued, Proofs!InitJobArtifacts, Dispatch!InitJobArtifacts,
         Proofs!ApiCrash, Dispatch!ApiCrash, Proofs!Loop, Dispatch!Loop,
         Proofs!PopJob, Dispatch!PopJob, Proofs!GetJob, Dispatch!GetJob,
         Proofs!SetRunning, Dispatch!SetRunning, Proofs!Run, Dispatch!Run,
         Proofs!SetCompleted, Dispatch!SetCompleted, Proofs!DaemonCrash,
         Dispatch!DaemonCrash, Proofs!RemoveExpired, Dispatch!RemoveExpired,
         Proofs!EnqueueLookup, Dispatch!EnqueueLookup, Proofs!EnqueueDepth,
         Dispatch!EnqueueDepth, Proofs!EnqueueSetJob, Dispatch!EnqueueSetJob,
         Proofs!EnqueuePush, Dispatch!EnqueuePush, Proofs!EnqueueSetIdemp,
         Dispatch!EnqueueSetIdemp, Proofs!GoTo, Dispatch!GoTo, Proofs!Return,
         Dispatch!Return, Proofs!HasRoom, Dispatch!HasRoom, Proofs!Unused,
         Dispatch!Unused, Proofs!Idle, Dispatch!Idle, Proofs!Polling,
         Dispatch!Polling, Proofs!Pop, Dispatch!Pop, Proofs!Stores, Dispatch!Stores,
         Proofs!Answered, Dispatch!Answered, Proofs!redis, Dispatch!redis,
         Proofs!vars, Dispatch!vars, Proofs!apiVars, Dispatch!apiVars
<1>5. [Dispatch!DispatchNext]_(Dispatch!dispatchVars) =>
        [Proofs!DispatchNext]_(Proofs!dispatchVars)
  BY <1>4
     DEF Proofs!dispatchVars, Dispatch!dispatchVars, Proofs!vars, Dispatch!vars,
         Proofs!redis, Dispatch!redis
<1>6. Dispatch!DispatchSpec => Proofs!DispatchSpec
  BY <1>3, <1>5, PTL DEF Dispatch!DispatchSpec, Proofs!DispatchSpec
<1> QED BY <1>1, <1>2, <1>6, DispatchAssumption

(***************************************************************************)
(* One job is never run twice, though no daemon looks at the state of a    *)
(* job and whatever crashes: see OneRunPerJob.                             *)
(***************************************************************************)
THEOREM OneRun == Dispatch!DispatchSpec => []OneRunPerJob
<1>1. Proofs!DispatchSpec => []Proofs!OneRunPerJob
  BY SameSystem, Proofs!OneRun, LimitsAssumption
<1>2. Proofs!OneRunPerJob => OneRunPerJob
  BY DEF OneRunPerJob, Proofs!OneRunPerJob, Dispatch!OneRunPerJob, Proofs!Distinct,
         Dispatch!Distinct, Proofs!Entries, Dispatch!Entries
<1> QED BY <1>1, <1>2, SameSystem, PTL

(***************************************************************************)
(* A recovery that Redis shows as completed can be downloaded, whenever    *)
(* the submission stored its own files: see CompletedIsDownloadable.       *)
(***************************************************************************)
THEOREM Download == Dispatch!DispatchSpec => []CompletedIsDownloadable
<1>1. Proofs!DispatchSpec => []Proofs!CompletedIsDownloadable
  BY SameSystem, Proofs!Download, LimitsAssumption
<1>2. Proofs!CompletedIsDownloadable => CompletedIsDownloadable
  BY DEF CompletedIsDownloadable, Proofs!CompletedIsDownloadable,
         Dispatch!CompletedIsDownloadable
<1> QED BY <1>1, <1>2, SameSystem, PTL

-----------------------------------------------------------------------------
(***************************************************************************)
(* RespClient.  Induction over the natural numbers, for a set.             *)
(***************************************************************************)
LEMMA Inductive ==
  ASSUME NEW S, 0 \in S, \A n \in Nat : n \in S => n + 1 \in S
  PROVE  Nat \subseteq S
<1> DEFINE T == {n \in Nat : n \notin S}
<1>1. SUFFICES ASSUME T # {} PROVE FALSE OBVIOUS
<1>2. PICK R : R = OpToRel(<, Nat) BY Zenon
<1>3. IsWellFoundedOn(R, Nat) BY <1>2, NatLessThanWellFounded, Zenon
<1>4. T \subseteq Nat OBVIOUS
<1>5. PICK x \in T : \A y \in T : ~ (<<y, x>> \in R) BY <1>1, <1>3, <1>4, WFMin, Zenon
<1>6. \A y \in T : y < x => <<y, x>> \in R BY <1>2, <1>4, Zenon DEF OpToRel
<1>7. x \in Nat /\ x # 0 /\ x - 1 \in Nat OBVIOUS
<1>8. \A y \in T : ~(y < x) BY <1>5, <1>6
<1>9. x - 1 \notin T /\ x \notin S BY <1>7, <1>8
<1> QED BY <1>7, <1>9

(***************************************************************************)
(* The first turns of the loop of _processBuffer, up to turn n.            *)
(***************************************************************************)
AreTurns(f, n, loop) ==
  /\ f = [i \in 0..n |-> f[i]]
  /\ f[0] = loop
  /\ \A i \in 1..n : f[i] = Client!Turn(f[i - 1])

(***************************************************************************)
(* There are such turns, ...                                               *)
(***************************************************************************)
LEMMA SomeTurns ==
  ASSUME NEW loop
  PROVE  \A n \in Nat : \E f : AreTurns(f, n, loop)
<1> DEFINE S == {n \in Nat : \E f : AreTurns(f, n, loop)}
<1>1. 0 \in S
  <2>1. AreTurns([i \in 0..0 |-> loop], 0, loop) BY DEF AreTurns
  <2> QED BY <2>1
<1>2. ASSUME NEW n \in Nat, n \in S PROVE n + 1 \in S
  <2>1. PICK f : AreTurns(f, n, loop) BY <1>2
  <2> DEFINE g == [i \in 0..(n + 1) |-> IF i <= n THEN f[i] ELSE Client!Turn(f[n])]
  <2>2. g = [i \in 0..(n + 1) |-> g[i]] OBVIOUS
  <2>3. g[0] = loop BY <2>1 DEF AreTurns
  <2>4. ASSUME NEW i \in 1..(n + 1) PROVE g[i] = Client!Turn(g[i - 1])
    <3>1. g[i - 1] = f[i - 1] OBVIOUS
    <3>2. CASE i <= n
      <4>1. i \in 1..n BY <3>2
      <4>2. f[i] = Client!Turn(f[i - 1]) BY <2>1, <4>1 DEF AreTurns
      <4>3. g[i] = f[i] BY <3>2
      <4> QED BY <3>1, <4>2, <4>3
    <3>3. CASE i = n + 1
      <4>1. g[i] = Client!Turn(f[n]) /\ i - 1 = n BY <3>3
      <4> QED BY <3>1, <4>1
    <3> QED BY <3>2, <3>3
  <2>5. AreTurns(g, n + 1, loop) BY <2>2, <2>3, <2>4 DEF AreTurns
  <2> QED BY <2>5
<1>3. Nat \subseteq S
  <2> HIDE DEF S
  <2> QED BY <1>1, <1>2, Inductive
<1> QED BY <1>3

(***************************************************************************)
(* and as far as two go they agree.                                        *)
(***************************************************************************)
LEMMA SameTurns ==
  ASSUME NEW loop, NEW n \in Nat, NEW m \in Nat, NEW f, NEW g,
         AreTurns(f, n, loop), AreTurns(g, m, loop)
  PROVE  \A i \in Nat : i <= n /\ i <= m => f[i] = g[i]
<1> DEFINE S == {i \in Nat : i <= n /\ i <= m => f[i] = g[i]}
<1>1. 0 \in S BY DEF AreTurns
<1>2. ASSUME NEW i \in Nat, i \in S PROVE i + 1 \in S
  <2>1. SUFFICES ASSUME i + 1 <= n, i + 1 <= m PROVE f[i + 1] = g[i + 1] OBVIOUS
  <2>2. f[i] = g[i] BY <1>2, <2>1
  <2>3. i + 1 \in 1..n /\ i + 1 \in 1..m /\ (i + 1) - 1 = i BY <2>1
  <2>4. f[i + 1] = Client!Turn(f[i]) /\ g[i + 1] = Client!Turn(g[i])
    BY <2>3 DEF AreTurns
  <2> QED BY <2>2, <2>4
<1>3. Nat \subseteq S
  <2> HIDE DEF S
  <2> QED BY <1>1, <1>2, Inductive
<1> QED BY <1>3

(***************************************************************************)
(* So the recursive definition of Turns defines what it says.              *)
(***************************************************************************)
LEMMA TurnsFollow ==
  ASSUME NEW loop
  PROVE  /\ Client!Turns(loop)[0] = loop
         /\ \A n \in Nat : Client!Turns(loop)[n + 1] = Client!Turn(Client!Turns(loop)[n])
<1> DEFINE first(n) == CHOOSE f : AreTurns(f, n, loop)
           all == [n \in Nat |-> first(n)[n]]
<1>1. \A n \in Nat : AreTurns(first(n), n, loop) BY SomeTurns
<1>2. all[0] = loop BY <1>1 DEF AreTurns
<1>3. ASSUME NEW n \in Nat PROVE all[n + 1] = Client!Turn(all[n])
  <2>1. AreTurns(first(n), n, loop) /\ AreTurns(first(n + 1), n + 1, loop) BY <1>1
  <2> HIDE DEF first
  <2>2. first(n)[n] = first(n + 1)[n] BY <2>1, SameTurns
  <2>3. n + 1 \in 1..(n + 1) /\ (n + 1) - 1 = n OBVIOUS
  <2>4. first(n + 1)[n + 1] = Client!Turn(first(n + 1)[n]) BY <2>1, <2>3 DEF AreTurns
  <2> QED BY <2>2, <2>4
<1> DEFINE Follows(f) == f = [n \in Nat |-> IF n = 0 THEN loop ELSE Client!Turn(f[n - 1])]
<1>4. Follows(all)
  <2> HIDE DEF first
  <2>1. ASSUME NEW n \in Nat, n # 0 PROVE all[n] = Client!Turn(all[n - 1])
    <3>1. n - 1 \in Nat /\ (n - 1) + 1 = n BY <2>1
    <3> HIDE DEF all
    <3> QED BY <1>3, <3>1
  <2>2. all = [n \in Nat |-> all[n]] OBVIOUS
  <2> HIDE DEF all
  <2> QED BY <1>2, <2>1, <2>2
<1>5. Client!Turns(loop) = CHOOSE f : Follows(f) BY DEF Client!Turns
<1>6. Follows(Client!Turns(loop))
  <2> HIDE DEF all, Follows
  <2> QED BY <1>4, <1>5
<1> DEFINE t == Client!Turns(loop)
<1>7. t = [n \in Nat |-> IF n = 0 THEN loop ELSE Client!Turn(t[n - 1])] BY <1>6
<1> HIDE DEF t, Follows, all, first
<1>8. t[0] = loop BY <1>7
<1>9. ASSUME NEW n \in Nat PROVE t[n + 1] = Client!Turn(t[n])
  <2>1. n + 1 \in Nat /\ n + 1 # 0 /\ (n + 1) - 1 = n OBVIOUS
  <2> QED BY <1>7, <2>1
<1> QED BY <1>8, <1>9 DEF t

-----------------------------------------------------------------------------
(***************************************************************************)
(* A reply in ASCII is four characters of its call.  What has arrived and  *)
(* what is on its way, b and w, are the replies to the first of those who  *)
(* wait, in their order; the rest has not been answered yet.               *)
(***************************************************************************)
At(b, w, k) == IF k <= Len(b) THEN b[k] ELSE w[k - Len(b)]

InSequence(b, w, callers, asked) ==
  LET answered == Len(callers) - Len(asked) IN
  /\ answered >= 0
  /\ \A i \in 1..Len(asked) : asked[i] = callers[answered + i]
  /\ Len(b) + Len(w) = 4 * answered
  /\ \A i \in 1..answered, j \in 1..4 :
       At(b, w, 4 * (i - 1) + j) = Client!Reply(callers[i], 1)[j]

OwnSoFar(given) == \A c \in Client!Calls : given[c] \in {None, Client!Value(c)}

Answers == [Client!Calls -> Seq(Client!Char) \cup {None, Rejected}]

RespInv ==
  /\ Client!TypeOK
  /\ ~interrupted => /\ InSequence(buffer, wire, pendingCallbacks, server)
                     /\ OwnSoFar(outcome)

(***************************************************************************)
(* The characters of a reply.                                              *)
(***************************************************************************)
LEMMA ReplyIsFour ==
  ASSUME Widths = {1}, NEW c \in Client!Calls
  PROVE  /\ Client!Reply(c, 1) \in Seq(Client!Char) /\ Len(Client!Reply(c, 1)) = 4
         /\ Client!Reply(c, 1)[1].is = "$" /\ Client!Reply(c, 1)[1].length = 1
         /\ Client!Value(c) = <<Client!Reply(c, 1)[2]>>
         /\ Client!Value(c) \in Seq(Client!Char)
<1>1. /\ [call |-> c, is |-> "$", length |-> 1] \in Client!Char
      /\ [call |-> c, is |-> "text", length |-> 0] \in Client!Char
      /\ [call |-> c, is |-> "CR", length |-> 0] \in Client!Char
      /\ [call |-> c, is |-> "LF", length |-> 0] \in Client!Char
  BY DEF Client!Char
<1> QED BY <1>1 DEF Client!Reply, Client!Value

(***************************************************************************)
(* A part of a sequence.                                                   *)
(***************************************************************************)
LEMMA Parts ==
  ASSUME NEW T, NEW s \in Seq(T), NEW m \in Nat, NEW n \in Nat, 1 <= m, m <= n + 1,
         n <= Len(s)
  PROVE  /\ SubSeq(s, m, n) \in Seq(T) /\ Len(SubSeq(s, m, n)) = n - m + 1
         /\ \A k \in 1..(n - m + 1) : SubSeq(s, m, n)[k] = s[m + k - 1]
<1>1. \A i \in m..n : s[i] \in T OBVIOUS
<1>2. m \in Int /\ n \in Int OBVIOUS
<1>3. /\ SubSeq(s, m, n) \in Seq(T)
      /\ Len(SubSeq(s, m, n)) = IF m <= n THEN n - m + 1 ELSE 0
      /\ \A k \in 1..(n - m + 1) : SubSeq(s, m, n)[k] = s[m + k - 1]
  BY <1>1, <1>2, SubSeqProperties
<1> QED BY <1>3

(***************************************************************************)
(* The first n elements of a sequence.                                     *)
(***************************************************************************)
LEMMA FirstPart ==
  ASSUME NEW T, NEW s \in Seq(T), NEW n \in Nat, n <= Len(s)
  PROVE  /\ SubSeq(s, 1, n) \in Seq(T) /\ Len(SubSeq(s, 1, n)) = n
         /\ \A k \in 1..n : SubSeq(s, 1, n)[k] = s[k]
<1>1. /\ SubSeq(s, 1, n) \in Seq(T) /\ Len(SubSeq(s, 1, n)) = n - 1 + 1
      /\ \A k \in 1..(n - 1 + 1) : SubSeq(s, 1, n)[k] = s[1 + k - 1]
  BY Parts
<1>2. n - 1 + 1 = n /\ \A k \in 1..n : 1 + k - 1 = k OBVIOUS
<1> QED BY <1>1, <1>2

(***************************************************************************)
(* The elements of a sequence from the n-th on.                            *)
(***************************************************************************)
LEMMA LastPart ==
  ASSUME NEW T, NEW s \in Seq(T), NEW n \in Nat, 1 <= n, n <= Len(s) + 1
  PROVE  /\ SubSeq(s, n, Len(s)) \in Seq(T) /\ Len(SubSeq(s, n, Len(s))) = Len(s) - n + 1
         /\ \A k \in 1..(Len(s) - n + 1) : SubSeq(s, n, Len(s))[k] = s[n + k - 1]
<1>1. Len(s) \in Nat /\ Len(s) <= Len(s) OBVIOUS
<1> QED BY <1>1, Parts

(***************************************************************************)
(* A turn of the loop, whatever comes after what has arrived, gives a call *)
(* its own reply and leaves the replies to the others.                     *)
(***************************************************************************)
LEMMA TurnKeepsOrder ==
  ASSUME Widths = {1}, NEW b \in Seq(Client!Char), NEW w \in Seq(Client!Char),
         NEW callers \in Seq(Client!Calls), NEW asked \in Seq(Client!Calls),
         NEW given \in Answers, InSequence(b, w, callers, asked), OwnSoFar(given),
         NEW loop, loop = Client!Turn([buffer |-> b, pending |-> callers, given |-> given])
  PROVE  /\ loop = [buffer |-> loop.buffer, pending |-> loop.pending, given |-> loop.given]
         /\ loop.buffer \in Seq(Client!Char) /\ loop.pending \in Seq(Client!Calls)
         /\ loop.given \in Answers
         /\ InSequence(loop.buffer, w, loop.pending, asked) /\ OwnSoFar(loop.given)
<1>1. CASE ~Client!Parses(b, callers)
  <2>1. loop = [buffer |-> b, pending |-> callers, given |-> given] BY <1>1 DEF Client!Turn
  <2> QED BY <2>1
<1>2. CASE Client!Parses(b, callers)
  <2> DEFINE c == callers[1]
             r == Client!Reply(c, 1)
             n == Len(callers) - Len(asked)
             rest == Client!Rest(b)
  <2>1. /\ b # <<>> /\ callers # <<>> /\ Len(b) >= 1 /\ Len(callers) >= 1
        /\ Len(b) \in Nat /\ Len(callers) \in Nat /\ Len(asked) \in Nat /\ Len(w) \in Nat
        /\ c \in Client!Calls /\ Head(callers) = c
    BY <1>2 DEF Client!Parses
  <2>2. n \in Nat /\ n >= 1 /\ Len(b) + Len(w) = 4 * n BY <2>1 DEF InSequence
  <2>3. /\ r \in Seq(Client!Char) /\ Len(r) = 4 /\ r[1].is = "$" /\ r[1].length = 1
        /\ Client!Value(c) = <<r[2]>> /\ Client!Value(c) \in Seq(Client!Char)
    BY <2>1, ReplyIsFour
  <2>4. \A j \in 1..4 : At(b, w, j) = r[j]
    <3>1. 1 \in 1..n BY <2>2
    <3>2. \A j \in 1..4 : At(b, w, 4 * (1 - 1) + j) = r[j] BY <3>1 DEF InSequence
    <3> QED BY <3>2
  <2>5. b[1] = r[1] BY <2>1, <2>4 DEF At
  <2>6. Len(b) >= 4 BY <1>2, <2>3, <2>5 DEF Client!Parses, Client!Complete
  <2>7. b[2] = r[2] BY <2>1, <2>4, <2>6 DEF At
  <2>8. Client!Given(b) = Client!Value(c)
    <3>1. Client!Given(b) = SubSeq(b, 2, 2)
      BY <2>3, <2>5 DEF Client!Given, Client!Parsed
    <3>2. SubSeq(b, 2, 2) = <<b[2]>>
      <4>1. /\ SubSeq(b, 2, 2) \in Seq(Client!Char) /\ Len(SubSeq(b, 2, 2)) = 1
            /\ SubSeq(b, 2, 2)[1] = b[2]
        BY <2>1, <2>6, Parts
      <4>2. \A x \in Seq(Client!Char) : Len(x) = 1 => x = <<x[1]>> OBVIOUS
      <4> QED BY <4>1, <4>2
    <3> QED BY <2>3, <2>7, <3>1, <3>2
  <2>9. rest = SubSeq(b, 5, Len(b))
    <3>1. 1 + b[1].length + 3 = 5 BY <2>3, <2>5
    <3> QED BY <3>1 DEF Client!Rest
  <2>10. /\ rest \in Seq(Client!Char) /\ Len(rest) = Len(b) - 4
         /\ \A k \in 1..(Len(b) - 4) : rest[k] = b[k + 4]
    <3> DEFINE left == SubSeq(b, 5, Len(b))
    <3> HIDE DEF c, r, rest
    <3>1. 5 \in Nat /\ 1 <= 5 /\ 5 <= Len(b) + 1 BY <2>1, <2>6
    <3>2. /\ left \in Seq(Client!Char) /\ Len(left) = Len(b) - 5 + 1
          /\ \A k \in 1..(Len(b) - 5 + 1) : left[k] = b[5 + k - 1]
      BY <3>1, LastPart
    <3>4. Len(b) - 5 + 1 = Len(b) - 4 /\ \A k \in 1..(Len(b) - 4) : 5 + k - 1 = k + 4
      BY <2>1
    <3>3. rest = left BY <2>9 DEF rest
    <3> HIDE DEF left
    <3> QED BY <3>2, <3>3, <3>4
  <2>11. /\ Tail(callers) \in Seq(Client!Calls) /\ Len(Tail(callers)) = Len(callers) - 1
         /\ \A k \in 1..(Len(callers) - 1) : Tail(callers)[k] = callers[k + 1]
    BY <2>1
  <2>12. loop = [buffer |-> rest, pending |-> Tail(callers),
                 given |-> [given EXCEPT ![c] = Client!Value(c)]]
    BY <1>2, <2>1, <2>8 DEF Client!Turn, Client!Shift
  <2>13. [given EXCEPT ![c] = Client!Value(c)] \in Answers BY <2>1, <2>3 DEF Answers
  <2>14. OwnSoFar([given EXCEPT ![c] = Client!Value(c)]) BY <2>1 DEF OwnSoFar, Answers
  <2>15. InSequence(rest, w, Tail(callers), asked)
    <3> HIDE DEF rest, c, r
    <3>1. Len(Tail(callers)) - Len(asked) = n - 1 BY <2>1, <2>11
    <3>2. \A i \in 1..Len(asked) : asked[i] = Tail(callers)[n - 1 + i]
      <4> SUFFICES ASSUME NEW i \in 1..Len(asked) PROVE asked[i] = Tail(callers)[n - 1 + i]
        OBVIOUS
      <4>1. asked[i] = callers[n + i] BY DEF InSequence
      <4>2. n - 1 + i \in 1..(Len(callers) - 1) /\ (n - 1 + i) + 1 = n + i BY <2>1, <2>2
      <4> QED BY <2>11, <4>1, <4>2
    <3>3. Len(rest) + Len(w) = 4 * (n - 1) BY <2>1, <2>2, <2>10
    <3>4. ASSUME NEW i \in 1..(n - 1), NEW j \in 1..4
          PROVE  At(rest, w, 4 * (i - 1) + j) = Client!Reply(Tail(callers)[i], 1)[j]
      <4>1. /\ i + 1 \in 1..n /\ i \in 1..(Len(callers) - 1) /\ 4 * (i - 1) + j >= 1
            /\ 4 * ((i + 1) - 1) + j = 4 * (i - 1) + j + 4
        BY <2>1, <2>2
      <4>2. At(b, w, 4 * ((i + 1) - 1) + j) = Client!Reply(callers[i + 1], 1)[j]
        BY <4>1 DEF InSequence
      <4>3. Tail(callers)[i] = callers[i + 1] BY <2>11, <4>1
      <4>4. At(rest, w, 4 * (i - 1) + j) = At(b, w, 4 * (i - 1) + j + 4)
        <5> DEFINE k == 4 * (i - 1) + j
        <5>1. k \in Nat /\ k >= 1 BY <4>1
        <5> HIDE DEF k
        <5>2. k <= Len(b) - 4 => At(rest, w, k) = At(b, w, k + 4)
          <6> SUFFICES ASSUME k <= Len(b) - 4 PROVE At(rest, w, k) = At(b, w, k + 4)
            OBVIOUS
          <6>1. At(rest, w, k) = rest[k] /\ At(b, w, k + 4) = b[k + 4]
            BY <2>1, <2>10, <5>1 DEF At
          <6>2. k \in 1..(Len(b) - 4) BY <2>1, <5>1
          <6> QED BY <2>10, <6>1, <6>2
        <5>3. ~(k <= Len(b) - 4) => At(rest, w, k) = At(b, w, k + 4)
          <6> SUFFICES ASSUME ~(k <= Len(b) - 4) PROVE At(rest, w, k) = At(b, w, k + 4)
            OBVIOUS
          <6>1. At(rest, w, k) = w[k - (Len(b) - 4)] /\ At(b, w, k + 4) = w[k + 4 - Len(b)]
            BY <2>1, <2>10, <5>1 DEF At
          <6>2. k - (Len(b) - 4) = k + 4 - Len(b) BY <2>1, <5>1
          <6> QED BY <6>1, <6>2
        <5> QED BY <5>2, <5>3 DEF k
      <4> QED BY <4>1, <4>2, <4>3, <4>4
    <3>5. \A i \in 1..Len(asked) :
            asked[i] = Tail(callers)[Len(Tail(callers)) - Len(asked) + i]
      BY <3>1, <3>2
    <3>6. \A i \in 1..(Len(Tail(callers)) - Len(asked)), j \in 1..4 :
            At(rest, w, 4 * (i - 1) + j) = Client!Reply(Tail(callers)[i], 1)[j]
      BY <3>1, <3>4
    <3>7. Len(Tail(callers)) - Len(asked) >= 0 BY <2>2, <3>1
    <3>8. Len(rest) + Len(w) = 4 * (Len(Tail(callers)) - Len(asked)) BY <3>1, <3>3
    <3> QED BY <3>5, <3>6, <3>7, <3>8, Zenon DEF InSequence
  <2> DEFINE now == [given EXCEPT ![c] = Client!Value(c)]
  <2> HIDE DEF now, rest, c, r
  <2>16. loop = [buffer |-> rest, pending |-> Tail(callers), given |-> now]
    BY <2>12 DEF now
  <2>17. /\ loop.buffer = rest /\ loop.pending = Tail(callers) /\ loop.given = now
         /\ loop = [buffer |-> loop.buffer, pending |-> loop.pending, given |-> loop.given]
    BY <2>16
  <2>18. now \in Answers /\ OwnSoFar(now) BY <2>13, <2>14 DEF now
  <2> QED BY <2>10, <2>11, <2>15, <2>17, <2>18
<1> QED BY <1>1, <1>2

(***************************************************************************)
(* And so the whole loop does.                                             *)
(***************************************************************************)
LEMMA LoopKeepsOrder ==
  ASSUME Widths = {1}, NEW b \in Seq(Client!Char), NEW w \in Seq(Client!Char),
         NEW callers \in Seq(Client!Calls), NEW asked \in Seq(Client!Calls),
         NEW given \in Answers, InSequence(b, w, callers, asked), OwnSoFar(given),
         NEW after, after = Client!Processed(b, callers, given)
  PROVE  /\ InSequence(after.buffer, w, after.pending, asked) /\ OwnSoFar(after.given)
<1> DEFINE loop == [buffer |-> b, pending |-> callers, given |-> given]
           t == Client!Turns(loop)
           Fine(x) == /\ x = [buffer |-> x.buffer, pending |-> x.pending, given |-> x.given]
                      /\ x.buffer \in Seq(Client!Char) /\ x.pending \in Seq(Client!Calls)
                      /\ x.given \in Answers
                      /\ InSequence(x.buffer, w, x.pending, asked) /\ OwnSoFar(x.given)
           S == {n \in Nat : Fine(t[n])}
<1>1. t[0] = loop /\ \A n \in Nat : t[n + 1] = Client!Turn(t[n]) BY TurnsFollow
<1>2. 0 \in S
  <2>1. Fine(loop) OBVIOUS
  <2> HIDE DEF t, loop, Fine
  <2> QED BY <1>1, <2>1
<1>3. ASSUME NEW n \in Nat, n \in S PROVE n + 1 \in S
  <2> DEFINE x == t[n]
             y == t[n + 1]
  <2>1. Fine(x) BY <1>3
  <2>2. y = Client!Turn(x) BY <1>1
  <2> HIDE DEF t, x, y, loop
  <2>3. y = Client!Turn([buffer |-> x.buffer, pending |-> x.pending, given |-> x.given])
    BY <2>1, <2>2
  <2>4. Fine(y) BY <2>1, <2>3, TurnKeepsOrder
  <2> QED BY <2>4 DEF y
<1>4. Nat \subseteq S
  <2> HIDE DEF S
  <2> QED BY <1>2, <1>3, Inductive
<1>5. Len(callers) \in S BY <1>4
<1>6. after = t[Len(callers)] BY DEF Client!Processed
<1> QED BY <1>5, <1>6

(***************************************************************************)
(* The loop's types.                                                       *)
(***************************************************************************)
LEMMA LoopTypes ==
  ASSUME Widths = {1}, NEW b \in Seq(Client!Char), NEW callers \in Seq(Client!Calls),
         NEW given \in Answers, NEW after, after = Client!Processed(b, callers, given)
  PROVE  /\ after.buffer \in Seq(Client!Char) /\ after.pending \in Seq(Client!Calls)
         /\ after.given \in Answers
<1> DEFINE loop == [buffer |-> b, pending |-> callers, given |-> given]
           t == Client!Turns(loop)
           State == [buffer : Seq(Client!Char), pending : Seq(Client!Calls), given : Answers]
           S == {n \in Nat : t[n] \in State}
<1>1. t[0] = loop /\ \A n \in Nat : t[n + 1] = Client!Turn(t[n]) BY TurnsFollow
<1>2. 0 \in S
  <2>1. loop \in State OBVIOUS
  <2> HIDE DEF t, loop, State
  <2>2. t[0] \in State BY <1>1, <2>1
  <2> QED BY <2>2
<1>3. ASSUME NEW x \in State PROVE Client!Turn(x) \in State
  <2>1. SUFFICES ASSUME Client!Parses(x.buffer, x.pending) PROVE Client!Turn(x) \in State
    BY DEF Client!Turn
  <2> DEFINE n == x.buffer[1].length
  <2>2. /\ x.buffer \in Seq(Client!Char) /\ x.pending \in Seq(Client!Calls)
        /\ x.given \in Answers /\ x.buffer # <<>> /\ x.pending # <<>>
        /\ Len(x.buffer) \in Nat /\ Len(x.buffer) >= 1
    BY <2>1 DEF Client!Parses
  <2>3. x.buffer[1] \in Client!Char BY <2>2
  <2>4. n \in Nat /\ Len(x.buffer) >= n + 3
    BY <2>1, <2>2, <2>3 DEF Client!Char, Client!Parses, Client!Complete
  <2> HIDE DEF n
  <2>5. SubSeq(x.buffer, 2, 1 + n) \in Seq(Client!Char)
    <3>1. 2 \in Nat /\ 1 + n \in Nat /\ 1 <= 2 /\ 2 <= 1 + n + 1 /\ 1 + n <= Len(x.buffer)
      BY <2>2, <2>4
    <3> QED BY <2>2, <3>1, Parts, Zenon
  <2>6. SubSeq(x.buffer, n + 4, Len(x.buffer)) \in Seq(Client!Char)
    <3>1. /\ n + 4 \in Nat /\ 1 <= n + 4 /\ n + 4 <= Len(x.buffer) + 1
          /\ Len(x.buffer) <= Len(x.buffer)
      BY <2>2, <2>4
    <3> QED BY <2>2, <3>1, Parts, Zenon
  <2>7. 1 + n + 3 = n + 4 BY <2>4
  <2>8. /\ Client!Rest(x.buffer) \in Seq(Client!Char)
        /\ Client!Given(x.buffer) \in Seq(Client!Char)
    BY <2>5, <2>6, <2>7 DEF Client!Rest, Client!Given, Client!Parsed, n
  <2>9. Head(x.pending) \in Client!Calls /\ Tail(x.pending) \in Seq(Client!Calls) BY <2>2
  <2>10. [x.given EXCEPT ![Head(x.pending)] = Client!Given(x.buffer)] \in Answers
    BY <2>2, <2>8, <2>9 DEF Answers
  <2> QED BY <2>1, <2>8, <2>9, <2>10 DEF Client!Turn, Client!Shift
<1>4. ASSUME NEW n \in Nat, n \in S PROVE n + 1 \in S
  <2>1. t[n] \in State BY <1>4
  <2>2. t[n + 1] = Client!Turn(t[n]) BY <1>1
  <2> HIDE DEF t, State
  <2>3. Client!Turn(t[n]) \in State BY <1>3, <2>1
  <2>4. t[n + 1] \in State BY <2>2, <2>3
  <2> QED BY <2>4
<1>5. Nat \subseteq S
  <2> HIDE DEF S
  <2> QED BY <1>2, <1>4, Inductive
<1>6. Len(callers) \in S BY <1>5
<1>7. after = t[Len(callers)] BY DEF Client!Processed
<1> QED BY <1>6, <1>7

(***************************************************************************)
(* At the start nobody waits.                                              *)
(***************************************************************************)
LEMMA ClientStarts == ASSUME Widths = {1} PROVE Client!Init => RespInv
<1> SUFFICES ASSUME Client!Init PROVE RespInv OBVIOUS
<1> USE DEF Client!Init
<1>1. maxCalls \in Nat BY ClientAssumption DEF Client!Assumptions
<1>2. Client!TypeOK
  <2>1. connected \in BOOLEAN /\ sent \in 0..maxCalls /\ interrupted \in BOOLEAN
    <3>1. 0 \in 0..maxCalls BY <1>1
    <3> QED BY <3>1
  <2>2. server \in Seq(Client!Calls) /\ pendingCallbacks \in Seq(Client!Calls) OBVIOUS
  <2>3. wire \in Seq(Client!Char) /\ buffer \in Seq(Client!Char) OBVIOUS
  <2>4. outcome \in [Client!Calls -> Seq(Client!Char) \cup {None, Rejected}] OBVIOUS
  <2> QED BY <2>1, <2>2, <2>3, <2>4 DEF Client!TypeOK
<1>3. InSequence(buffer, wire, pendingCallbacks, server) BY DEF InSequence
<1>4. OwnSoFar(outcome) BY DEF OwnSoFar
<1> QED BY <1>2, <1>3, <1>4 DEF RespInv

(***************************************************************************)
(* A call is put at the end of both lists.                                 *)
(***************************************************************************)
LEMMA SendKeeps == ASSUME Widths = {1}, RespInv, Client!Send PROVE RespInv'
<1> USE DEF Client!Send
<1>1. /\ maxCalls \in Nat /\ sent \in Nat /\ sent + 1 \in Client!Calls
      /\ pendingCallbacks \in Seq(Client!Calls) /\ server \in Seq(Client!Calls)
      /\ pendingCallbacks' \in Seq(Client!Calls) /\ server' \in Seq(Client!Calls)
      /\ Len(pendingCallbacks') = Len(pendingCallbacks) + 1 /\ Len(server') = Len(server) + 1
      /\ Len(pendingCallbacks) \in Nat /\ Len(server) \in Nat
  BY ClientAssumption DEF Client!Assumptions, RespInv, Client!TypeOK, Client!Calls
<1>2. Client!TypeOK' BY <1>1 DEF RespInv, Client!TypeOK
<1>3. ASSUME ~interrupted PROVE InSequence(buffer, wire, pendingCallbacks', server')
  <2> DEFINE n == Len(pendingCallbacks) - Len(server)
  <2>1. InSequence(buffer, wire, pendingCallbacks, server) BY <1>3 DEF RespInv
  <2>2. Len(pendingCallbacks') - Len(server') = n /\ n \in Nat BY <1>1, <2>1 DEF InSequence
  <2>3. /\ \A i \in 1..Len(pendingCallbacks) : pendingCallbacks'[i] = pendingCallbacks[i]
        /\ pendingCallbacks'[Len(pendingCallbacks) + 1] = sent + 1
        /\ \A i \in 1..Len(server) : server'[i] = server[i]
        /\ server'[Len(server) + 1] = sent + 1
    BY <1>1
  <2> HIDE DEF Client!Send
  <2>4. ASSUME NEW i \in 1..Len(server') PROVE server'[i] = pendingCallbacks'[n + i]
    <3>1. CASE i \in 1..Len(server)
      <4>1. n + i \in 1..Len(pendingCallbacks) BY <1>1, <2>2, <3>1
      <4>2. server[i] = pendingCallbacks[n + i] BY <2>1, <3>1 DEF InSequence
      <4> QED BY <2>3, <3>1, <4>1, <4>2
    <3>2. CASE i = Len(server) + 1
      <4>1. n + i = Len(pendingCallbacks) + 1 BY <1>1, <3>2
      <4> QED BY <2>3, <3>2, <4>1
    <3>3. i \in 1..Len(server) \/ i = Len(server) + 1 BY <1>1
    <3> QED BY <3>1, <3>2, <3>3
  <2>5. Len(buffer) + Len(wire) = 4 * n BY <2>1 DEF InSequence
  <2>6. ASSUME NEW i \in 1..n, NEW j \in 1..4
        PROVE  At(buffer, wire, 4 * (i - 1) + j) = Client!Reply(pendingCallbacks'[i], 1)[j]
    <3>1. i \in 1..Len(pendingCallbacks) BY <1>1, <2>2
    <3> QED BY <2>1, <2>3, <3>1 DEF InSequence
  <2> HIDE DEF n
  <2>7. /\ Len(pendingCallbacks') - Len(server') >= 0
        /\ \A i \in 1..Len(server') :
             server'[i] = pendingCallbacks'[Len(pendingCallbacks') - Len(server') + i]
        /\ Len(buffer) + Len(wire) = 4 * (Len(pendingCallbacks') - Len(server'))
    <3>1. n >= 0 BY <2>2
    <3> QED BY <2>2, <2>4, <2>5, <3>1, Zenon
  <2>8. \A i \in 1..(Len(pendingCallbacks') - Len(server')), j \in 1..4 :
          At(buffer, wire, 4 * (i - 1) + j) = Client!Reply(pendingCallbacks'[i], 1)[j]
    BY <2>2, <2>6
  <2> QED BY <2>7, <2>8, Zenon DEF InSequence
<1> QED BY <1>2, <1>3 DEF RespInv

(***************************************************************************)
(* The server answers the first call that it has not answered.             *)
(***************************************************************************)
LEMMA AnswerKeeps ==
  ASSUME Widths = {1}, RespInv, NEW width \in Widths, Client!Answer(width)
  PROVE  RespInv'
<1> USE DEF Client!Answer
<1> DEFINE r == Client!Reply(Head(server), 1)
<1>1. /\ server \in Seq(Client!Calls) /\ server # <<>> /\ Head(server) = server[1]
      /\ Head(server) \in Client!Calls /\ server' \in Seq(Client!Calls)
      /\ Len(server) \in Nat /\ Len(server) >= 1 /\ Len(server') = Len(server) - 1
      /\ \A i \in 1..(Len(server) - 1) : server'[i] = server[i + 1]
      /\ pendingCallbacks \in Seq(Client!Calls) /\ Len(pendingCallbacks) \in Nat
      /\ buffer \in Seq(Client!Char) /\ Len(buffer) \in Nat
      /\ wire \in Seq(Client!Char) /\ Len(wire) \in Nat
  BY DEF RespInv, Client!TypeOK
<1>2. r \in Seq(Client!Char) /\ Len(r) = 4 BY <1>1, ReplyIsFour
<1>3. wire' = wire \o r OBVIOUS
<1> HIDE DEF r
<1>4. /\ wire' \in Seq(Client!Char) /\ Len(wire') = Len(wire) + 4
      /\ \A k \in 1..Len(wire) : wire'[k] = wire[k]
      /\ \A k \in 1..4 : wire'[Len(wire) + k] = r[k]
  <2> HIDE DEF Client!Answer
  <2>1. /\ wire' \in Seq(Client!Char) /\ Len(wire') = Len(wire) + Len(r)
        /\ \A k \in 1..(Len(wire) + Len(r)) :
             wire'[k] = IF k <= Len(wire) THEN wire[k] ELSE r[k - Len(wire)]
    BY <1>1, <1>2, <1>3, ConcatProperties
  <2>2. \A k \in 1..4 : /\ Len(wire) + k \in 1..(Len(wire) + 4)
                        /\ ~(Len(wire) + k <= Len(wire)) /\ Len(wire) + k - Len(wire) = k
    BY <1>1
  <2>3. \A k \in 1..Len(wire) : k \in 1..(Len(wire) + 4) /\ k <= Len(wire) BY <1>1
  <2> QED BY <1>2, <2>1, <2>2, <2>3
<1>5. Client!TypeOK' BY <1>1, <1>4 DEF RespInv, Client!TypeOK
<1>6. ASSUME ~interrupted PROVE InSequence(buffer, wire', pendingCallbacks, server')
  <2> DEFINE n == Len(pendingCallbacks) - Len(server)
  <2>1. InSequence(buffer, wire, pendingCallbacks, server) BY <1>6 DEF RespInv
  <2> HIDE DEF Client!Answer
  <2>2. Len(pendingCallbacks) - Len(server') = n + 1 /\ n \in Nat
    BY <1>1, <2>1 DEF InSequence
  <2>3. Len(buffer) + Len(wire) = 4 * n BY <2>1 DEF InSequence
  <2>4. Len(buffer) + Len(wire') = 4 * (n + 1)
    <3>1. Len(wire') = Len(wire) + 4 /\ Len(buffer) \in Nat /\ Len(wire) \in Nat
      BY <1>1, <1>4
    <3>2. n \in Nat BY <2>2
    <3> HIDE DEF n
    <3> QED BY <2>3, <3>1, <3>2
  <2>5. ASSUME NEW i \in 1..Len(server')
        PROVE  server'[i] = pendingCallbacks[n + 1 + i]
    <3>1. i + 1 \in 1..Len(server) /\ n + (i + 1) = n + 1 + i BY <1>1, <2>2
    <3>2. server[i + 1] = pendingCallbacks[n + (i + 1)] BY <2>1, <3>1 DEF InSequence
    <3> QED BY <1>1, <3>1, <3>2
  <2>6. ASSUME NEW i \in 1..(n + 1), NEW j \in 1..4
        PROVE  At(buffer, wire', 4 * (i - 1) + j) = Client!Reply(pendingCallbacks[i], 1)[j]
    <3> DEFINE k == 4 * (i - 1) + j
    <3>1. k \in Nat /\ k >= 1 BY <2>2
    <3>2. CASE i \in 1..n
      <4>1. At(buffer, wire, k) = Client!Reply(pendingCallbacks[i], 1)[j]
        BY <2>1, <3>2 DEF InSequence
      <4>2. k <= 4 * n BY <2>2, <3>2
      <4> HIDE DEF k
      <4>3. ~(k <= Len(buffer)) => k - Len(buffer) \in 1..Len(wire)
        BY <1>1, <2>3, <3>1, <4>2
      <4>4. At(buffer, wire', k) = At(buffer, wire, k) BY <1>4, <4>3 DEF At
      <4> QED BY <4>1, <4>4 DEF k
    <3>3. CASE i = n + 1
      <4>1. k = 4 * n + j BY <2>2, <3>3
      <4> HIDE DEF k
      <4> HIDE DEF n
      <4>2. ~(k <= Len(buffer)) /\ k - Len(buffer) = Len(wire) + j
        BY <1>1, <2>2, <2>3, <4>1
      <4>3. At(buffer, wire', k) = r[j] BY <1>4, <4>2 DEF At
      <4>4. server[1] = pendingCallbacks[n + 1]
        <5>1. 1 \in 1..Len(server) BY <1>1
        <5> QED BY <2>1, <5>1 DEF InSequence, n
      <4> QED BY <1>1, <3>3, <4>3, <4>4 DEF k, r
    <3> QED BY <2>2, <3>2, <3>3
  <2> HIDE DEF n
  <2>7. /\ Len(pendingCallbacks) - Len(server') >= 0
        /\ \A i \in 1..Len(server') :
             server'[i] = pendingCallbacks[Len(pendingCallbacks) - Len(server') + i]
        /\ Len(buffer) + Len(wire') = 4 * (Len(pendingCallbacks) - Len(server'))
    <3>1. n + 1 >= 0 BY <2>2
    <3> QED BY <2>2, <2>4, <2>5, <3>1, Zenon
  <2>8. \A i \in 1..(Len(pendingCallbacks) - Len(server')), j \in 1..4 :
          At(buffer, wire', 4 * (i - 1) + j) = Client!Reply(pendingCallbacks[i], 1)[j]
    BY <2>2, <2>6
  <2> QED BY <2>7, <2>8, Zenon DEF InSequence
<1> QED BY <1>5, <1>6 DEF RespInv

(***************************************************************************)
(* A chunk, wherever it ends, is taken as a part of the same text.         *)
(***************************************************************************)
LEMMA DataKeeps ==
  ASSUME Widths = {1}, RespInv, NEW size \in 1..Len(wire), Client!Data(size)
  PROVE  RespInv'
<1> DEFINE chunk == SubSeq(wire, 1, size)
           b == buffer \o chunk
           after == Client!Processed(b, pendingCallbacks, outcome)
<1>1. /\ wire' = SubSeq(wire, size + 1, Len(wire)) /\ buffer' = after.buffer
      /\ pendingCallbacks' = after.pending /\ outcome' = after.given
      /\ UNCHANGED <<connected, sent, server, interrupted>>
  BY DEF Client!Data
<1>2. /\ wire \in Seq(Client!Char) /\ Len(wire) \in Nat /\ size \in Nat
      /\ 1 <= size /\ size <= Len(wire)
      /\ buffer \in Seq(Client!Char) /\ Len(buffer) \in Nat
      /\ pendingCallbacks \in Seq(Client!Calls) /\ server \in Seq(Client!Calls)
      /\ outcome \in Answers
  BY DEF RespInv, Client!TypeOK, Answers
<1>3. /\ chunk \in Seq(Client!Char) /\ Len(chunk) = size
      /\ \A k \in 1..size : chunk[k] = wire[k]
  BY <1>2, FirstPart
<1>4. /\ wire' \in Seq(Client!Char) /\ Len(wire') = Len(wire) - size
      /\ \A k \in 1..(Len(wire) - size) : wire'[k] = wire[k + size]
  <2> DEFINE left == SubSeq(wire, size + 1, Len(wire))
  <2>1. size + 1 \in Nat /\ 1 <= size + 1 /\ size + 1 <= Len(wire) + 1 BY <1>2
  <2>2. /\ left \in Seq(Client!Char) /\ Len(left) = Len(wire) - (size + 1) + 1
        /\ \A k \in 1..(Len(wire) - (size + 1) + 1) : left[k] = wire[size + 1 + k - 1]
    BY <1>2, <2>1, LastPart
  <2>3. /\ Len(wire) - (size + 1) + 1 = Len(wire) - size
        /\ \A k \in 1..(Len(wire) - size) : size + 1 + k - 1 = k + size
    BY <1>2
  <2>4. wire' = left BY <1>1
  <2> HIDE DEF left
  <2> QED BY <2>2, <2>3, <2>4
<1> HIDE DEF chunk
<1>5. /\ b \in Seq(Client!Char) /\ Len(b) = Len(buffer) + size
      /\ \A k \in 1..Len(buffer) : b[k] = buffer[k]
      /\ \A k \in 1..size : b[Len(buffer) + k] = chunk[k]
  <2>1. /\ b \in Seq(Client!Char) /\ Len(b) = Len(buffer) + Len(chunk)
        /\ \A k \in 1..(Len(buffer) + Len(chunk)) :
             b[k] = IF k <= Len(buffer) THEN buffer[k] ELSE chunk[k - Len(buffer)]
    BY <1>2, <1>3, ConcatProperties
  <2>2. \A k \in 1..size :
          /\ Len(buffer) + k \in 1..(Len(buffer) + size)
          /\ ~(Len(buffer) + k <= Len(buffer)) /\ Len(buffer) + k - Len(buffer) = k
    BY <1>2
  <2>3. \A k \in 1..Len(buffer) : k \in 1..(Len(buffer) + size) /\ k <= Len(buffer)
    BY <1>2
  <2> HIDE DEF b
  <2> QED BY <1>3, <2>1, <2>2, <2>3
<1> HIDE DEF b
<1>6. Client!TypeOK'
  <2>1. /\ after.buffer \in Seq(Client!Char) /\ after.pending \in Seq(Client!Calls)
        /\ after.given \in Answers
    BY <1>2, <1>5, LoopTypes
  <2> HIDE DEF after
  <2> QED BY <1>1, <1>4, <2>1 DEF RespInv, Client!TypeOK, Answers
<1>7. ASSUME ~interrupted
      PROVE  InSequence(buffer', wire', pendingCallbacks', server') /\ OwnSoFar(outcome')
  <2>1. InSequence(buffer, wire, pendingCallbacks, server) /\ OwnSoFar(outcome)
    BY <1>7 DEF RespInv
  <2>2. ASSUME NEW k \in Nat, 1 <= k, k <= Len(buffer) + Len(wire)
        PROVE  At(b, wire', k) = At(buffer, wire, k)
    <3>1. CASE k <= Len(buffer)
      <4>1. k <= Len(b) /\ k \in 1..Len(buffer) BY <1>2, <1>5, <2>2, <3>1
      <4> QED BY <1>5, <3>1, <4>1 DEF At
    <3>2. CASE ~(k <= Len(buffer)) /\ k <= Len(buffer) + size
      <4>1. k <= Len(b) /\ k - Len(buffer) \in 1..size /\ Len(buffer) + (k - Len(buffer)) = k
        BY <1>2, <1>5, <2>2, <3>2
      <4>2. b[k] = wire[k - Len(buffer)] BY <1>3, <1>5, <4>1
      <4> QED BY <3>2, <4>1, <4>2 DEF At
    <3>3. CASE ~(k <= Len(buffer) + size)
      <4>1. /\ ~(k <= Len(b)) /\ ~(k <= Len(buffer)) /\ k - Len(b) \in 1..(Len(wire) - size)
            /\ (k - Len(b)) + size = k - Len(buffer)
        BY <1>2, <1>5, <2>2, <3>3
      <4>2. wire'[k - Len(b)] = wire[k - Len(buffer)] BY <1>4, <4>1
      <4> QED BY <4>1, <4>2 DEF At
    <3> QED BY <3>1, <3>2, <3>3
  <2>3. InSequence(b, wire', pendingCallbacks, server)
    <3> DEFINE n == Len(pendingCallbacks) - Len(server)
    <3>1. n \in Int /\ n >= 0 BY <1>2, <2>1 DEF InSequence
    <3>2. Len(b) + Len(wire') = 4 * n /\ Len(buffer) + Len(wire) = 4 * n
      <4>1. Len(buffer) + Len(wire) = 4 * n BY <2>1 DEF InSequence
      <4>2. Len(b) + Len(wire') = Len(buffer) + Len(wire) BY <1>2, <1>4, <1>5
      <4> QED BY <4>1, <4>2
    <3>3. \A i \in 1..Len(server) : server[i] = pendingCallbacks[n + i]
      BY <2>1 DEF InSequence
    <3>4. ASSUME NEW i \in 1..n, NEW j \in 1..4
          PROVE  At(b, wire', 4 * (i - 1) + j) = Client!Reply(pendingCallbacks[i], 1)[j]
      <4> DEFINE k == 4 * (i - 1) + j
      <4>1. k \in Nat /\ 1 <= k /\ k <= 4 * n BY <3>1
      <4>2. At(buffer, wire, k) = Client!Reply(pendingCallbacks[i], 1)[j]
        BY <2>1 DEF InSequence
      <4> HIDE DEF k, n
      <4>3. At(b, wire', k) = At(buffer, wire, k) BY <2>2, <3>2, <4>1
      <4> QED BY <4>2, <4>3 DEF k
    <3> QED BY <3>1, <3>2, <3>3, <3>4, Zenon DEF InSequence
  <2>4. InSequence(after.buffer, wire', after.pending, server) /\ OwnSoFar(after.given)
    BY <1>2, <1>4, <1>5, <2>1, <2>3, LoopKeepsOrder
  <2> HIDE DEF after
  <2> QED BY <1>1, <2>4
<1> QED BY <1>1, <1>6, <1>7 DEF RespInv

(***************************************************************************)
(* A connection nobody waits on carries nothing.                           *)
(***************************************************************************)
LEMMA LossKeeps ==
  ASSUME Widths = {1}, RespInv, Client!Error \/ Client!Close
  PROVE  RespInv'
<1>1. /\ server' = <<>> /\ wire' = <<>> /\ UNCHANGED <<sent, buffer>>
      /\ connected' = FALSE
      /\ interrupted' = (interrupted \/ pendingCallbacks # <<>>)
  BY DEF Client!Error, Client!Close, Client!Lost
<1>2. /\ pendingCallbacks \in Seq(Client!Calls) /\ outcome \in Answers /\ interrupted \in BOOLEAN
      /\ server \in Seq(Client!Calls) /\ wire \in Seq(Client!Char) /\ buffer \in Seq(Client!Char)
  BY DEF RespInv, Client!TypeOK, Answers
<1>3. \/ UNCHANGED <<pendingCallbacks, outcome>>
      \/ /\ pendingCallbacks # <<>>
         /\ pendingCallbacks' = Tail(pendingCallbacks)
         /\ outcome' = [outcome EXCEPT ![Head(pendingCallbacks)] = Rejected]
  BY DEF Client!Error, Client!Close
<1>4. pendingCallbacks' \in Seq(Client!Calls) /\ outcome' \in Answers
  <2>1. pendingCallbacks # <<>> => Tail(pendingCallbacks) \in Seq(Client!Calls) BY <1>2
  <2>2. [outcome EXCEPT ![Head(pendingCallbacks)] = Rejected] \in Answers
    BY <1>2 DEF Answers
  <2> QED BY <1>2, <1>3, <2>1, <2>2
<1>5. Client!TypeOK'
  <2>1. server' \in Seq(Client!Calls) /\ wire' \in Seq(Client!Char) BY <1>1
  <2>2. interrupted' \in BOOLEAN /\ connected' \in BOOLEAN
    <3>1. (interrupted \/ pendingCallbacks # <<>>) \in BOOLEAN BY <1>2
    <3> QED BY <1>1, <3>1
  <2>3. sent' \in 0..maxCalls /\ buffer' \in Seq(Client!Char)
    BY <1>1 DEF RespInv, Client!TypeOK
  <2> QED BY <1>4, <2>1, <2>2, <2>3 DEF Client!TypeOK, Answers
<1>6. ASSUME ~interrupted'
      PROVE  InSequence(buffer', wire', pendingCallbacks', server') /\ OwnSoFar(outcome')
  <2>1. /\ ~interrupted /\ pendingCallbacks = <<>>
        /\ UNCHANGED <<pendingCallbacks, outcome>>
    BY <1>1, <1>2, <1>3, <1>6
  <2>2. InSequence(buffer, wire, pendingCallbacks, server) /\ OwnSoFar(outcome)
    BY <2>1 DEF RespInv
  <2>3. Len(buffer) = 0 BY <1>2, <2>1, <2>2 DEF InSequence
  <2>4. InSequence(buffer, <<>>, <<>>, <<>>) BY <2>3 DEF InSequence
  <2> QED BY <1>1, <2>1, <2>2, <2>4
<1> QED BY <1>5, <1>6 DEF RespInv

(***************************************************************************)
(* The order holds at every moment, ...                                    *)
(***************************************************************************)
LEMMA RespInvHolds == ASSUME Widths = {1} PROVE Client!Spec => []RespInv
<1>1. Client!Init => RespInv BY ClientStarts
<1>2. RespInv /\ [Client!Next]_(Client!vars) => RespInv'
  <2> SUFFICES ASSUME RespInv, [Client!Next]_(Client!vars) PROVE RespInv' OBVIOUS
  <2>1. CASE Client!Send BY <2>1, SendKeeps
  <2>2. ASSUME NEW width \in Widths, Client!Answer(width) PROVE RespInv'
    BY <2>2, AnswerKeeps
  <2>3. ASSUME NEW size \in 1..Len(wire), Client!Data(size) PROVE RespInv'
    BY <2>3, DataKeeps
  <2>4. CASE Client!Error \/ Client!Close BY <2>4, LossKeeps
  <2>5. CASE UNCHANGED Client!vars
    BY <2>5 DEF Client!vars, RespInv, Client!TypeOK, InSequence, OwnSoFar, At
  <2> QED BY <2>1, <2>2, <2>3, <2>4, <2>5 DEF Client!Next
<1> QED BY <1>1, <1>2, PTL DEF Client!Spec

(***************************************************************************)
(* so that, in ASCII, a call is given its own reply, however the replies   *)
(* are cut, however many callers wait, and however connections are lost    *)
(* that nobody waits on: see ReplyIsOwn.                                   *)
(***************************************************************************)
THEOREM OwnReplies == ASSUME Widths = {1} PROVE Client!Spec => []ReplyIsOwn
<1>1. RespInv => ReplyIsOwn BY DEF RespInv, OwnSoFar, ReplyIsOwn, Client!ReplyIsOwn
<1> QED BY <1>1, RespInvHolds, PTL

=============================================================================
