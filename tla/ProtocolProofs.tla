--------------------------- MODULE ProtocolProofs ---------------------------
(***************************************************************************)
(* Theorems about module Protocols: the protocols over the mint's timed    *)
(* locks, for every margin, expiry and pair of clocks.  They share no      *)
(* state: each has its own invariant, and a theorem about the composition  *)
(* carries that of one of them over to the specification TLC runs.         *)
(***************************************************************************)
EXTENDS Protocols, FiniteSets, FiniteSetTheorems, TLAPS

-----------------------------------------------------------------------------
(***************************************************************************)
(* Swap.                                                                   *)
(***************************************************************************)
States == {"none", "locked", "claimed", "refunded", "pruned"}

Typed ==
  /\ now \in 0..SwapEnd
  /\ ahead \in [1..2 -> Nat] /\ expiry \in [1..2 -> Nat]
  /\ window \in Windows /\ window \in Nat
  /\ timely \in BOOLEAN
  /\ leg \in [1..2 -> States] /\ leg[1] # "pruned"
  /\ spent_at \in Nat
  /\ a \in {"start", "funded", "claiming", "evaluated", "over"}
  /\ b \in {"start", "measured", "funding", "waiting", "asked", "told", "found",
            "checked", "claiming", "evaluated", "over"}
  /\ read \in [time : Nat, state : States]
  /\ due \in [{"A", "B"} -> Nat]

\* What the margin and the retention check leave B, once it has quoted.
Fits ==
  LET horizon == expiry[1] - expiry[2]
      skew == ahead[1] - ahead[2]
  IN  /\ horizon >= skew + PollingInterval + 4 * Latency + Grace
      /\ horizon >= skew + PollingInterval + 5 * Latency
      /\ window >= PollingInterval + 2 * Latency

OnTime == now <= due["A"] /\ now <= due["B"]

\* A claims before T', and its claim commits within a request of that.
Claims ==
  /\ a = "start" => leg[1] = "none"
  /\ leg[1] = "refunded" => now + ahead[1] >= expiry[1]
  /\ a = "evaluated" => leg[2] # "none" /\ due["A"] + ahead[2] < expiry[2] + Latency

\* B funds leg 2 when leg 1 is there and the horizon is what it has to be.
Funds ==
  /\ b \in {"start", "measured", "funding"} => leg[2] = "none"
  /\ b = "measured" => /\ read.time <= now + ahead[1]
                       /\ due["B"] + ahead[1] = read.time + Latency
  /\ b \notin {"start", "measured", "over"} \/ leg[2] # "none" => Fits /\ leg[1] # "none"

\* While leg 2 is there to be claimed, B looks at it again soon.
Polls ==
  /\ leg[2] = "none" => b \in {"start", "measured", "funding", "over"}
  /\ leg[2] = "locked" =>
       /\ b \in {"waiting", "asked", "told"}
       /\ b = "waiting" => due["B"] <= now + PollingInterval
       /\ b \in {"asked", "told"} => due["B"] <= now + Latency
       /\ b = "told" => read.state = "locked"

\* B's next step comes at most this long after the claim of leg 2.
Within(duration) == due["B"] + ahead[2] <= spent_at + duration

\* From the claim of leg 2 on, B is on its way to leg 1, or has it.
Reads ==
  leg[2] \in {"claimed", "pruned"} =>
    /\ spent_at < expiry[2] + Latency
    /\ leg[2] = "pruned" => now + ahead[2] > spent_at + window
    /\ b = "waiting" => Within(Latency + PollingInterval)
    /\ b = "asked" => Within(2 * Latency + PollingInterval)
    /\ b = "told" => \/ read.state = "locked" /\ Within(Latency)
                     \/ read.state = "claimed" /\ Within(2 * Latency + PollingInterval)
    /\ b \in {"found", "checked"} => Within(3 * Latency + PollingInterval)
    /\ b = "checked" => read.time <= due["B"] + ahead[1]
    /\ b \in {"claiming", "evaluated"} => Within(4 * Latency + PollingInterval)
    /\ b = "over" => leg[1] = "claimed"
    /\ leg[1] # "refunded"

Timed == OnTime /\ Claims /\ Funds /\ Polls /\ Reads

SwapInv == Typed /\ (timely => Timed)

-----------------------------------------------------------------------------
\* What is assumed of the constants, one fact for each.
LEMMA SwapConstants ==
  ASSUME Exchanging!ConstantsOK
  PROVE  /\ Latency \in Nat /\ Estimate \in Nat /\ PollingInterval \in Nat
         /\ Grace \in Nat /\ Precision \in Nat /\ SwapEnd \in Nat
         /\ Ahead \subseteq Nat /\ Expiry \subseteq Nat \X Nat /\ Windows \subseteq Nat
BY DEF Exchanging!ConstantsOK

LEMMA SwapInit ==
  ASSUME Exchanging!ConstantsOK, Exchanging!Init
  PROVE  SwapInv
<1> USE SwapConstants DEF Exchanging!Mint, Exchanging!Never
<1>1. Typed
  <2>1. ahead \in [1..2 -> Nat] /\ window \in Windows /\ window \in Nat /\ timely \in BOOLEAN
    BY DEF Exchanging!Init
  <2>2. expiry \in [1..2 -> Nat]
    <3>1. expiry \in Nat \X Nat
      BY DEF Exchanging!Init
    <3> QED
      BY <3>1
  <2>3. leg \in [1..2 -> States] /\ leg[1] # "pruned"
    BY DEF Exchanging!Init, States
  <2>4. due \in [{"A", "B"} -> Nat]
    BY DEF Exchanging!Init
  <2>5. read \in [time : Nat, state : States]
    BY DEF Exchanging!Init, Exchanging!Nothing, States
  <2>6. now \in 0..SwapEnd /\ spent_at \in Nat /\ a = "start" /\ b = "start"
    BY DEF Exchanging!Init
  <2> QED
    BY <2>1, <2>2, <2>3, <2>4, <2>5, <2>6 DEF Typed
<1>2. Timed
  <2>1. leg[1] = "none" /\ leg[2] = "none" /\ due["A"] = SwapEnd + 1 /\ due["B"] = SwapEnd + 1
    BY DEF Exchanging!Init
  <2>2. now = 0 /\ a = "start" /\ b = "start"
    BY DEF Exchanging!Init
  <2> QED
    BY <2>1, <2>2 DEF Timed, OnTime, Claims, Funds, Polls, Reads
<1> QED
  BY <1>1, <1>2 DEF SwapInv

-----------------------------------------------------------------------------
\* The types are kept, whatever the parties do.
LEMMA SwapTyped ==
  ASSUME Exchanging!ConstantsOK, Typed, [Exchanging!Next]_(Exchanging!vars)
  PROVE  Typed'
<1> USE SwapConstants
    DEF Typed, Exchanging!Deal, Exchanging!Clock, Exchanging!By, Exchanging!Never,
        Exchanging!Nothing, States
<1>1. CASE Exchanging!ANext
  BY <1>1 DEF Exchanging!ANext, Exchanging!AFund, Exchanging!AClaim,
    Exchanging!AClaimRefused, Exchanging!AClaimEvaluated, Exchanging!AClaimCommits,
    Exchanging!ARefund
<1>2. CASE Exchanging!BMeasure \/ Exchanging!BRefuses \/ Exchanging!BQuotes \/ Exchanging!BFund
  BY <1>2 DEF Exchanging!BMeasure, Exchanging!BRefuses, Exchanging!BQuotes, Exchanging!BFund
<1>3. CASE Exchanging!BAsk \/ Exchanging!BTold \/ Exchanging!BPollAgain
             \/ Exchanging!BNothingToRead \/ Exchanging!BFound
  BY <1>3 DEF Exchanging!BAsk, Exchanging!BTold, Exchanging!BPollAgain,
    Exchanging!BNothingToRead, Exchanging!BFound
<1>4. CASE Exchanging!BTime \/ Exchanging!BTooLate \/ Exchanging!BClaim
             \/ Exchanging!BClaimEvaluated \/ Exchanging!BClaimCommits \/ Exchanging!BRefund
  BY <1>4 DEF Exchanging!BTime, Exchanging!BTooLate, Exchanging!BClaim,
    Exchanging!BClaimEvaluated, Exchanging!BClaimCommits, Exchanging!BRefund
<1>5. CASE Exchanging!Prune \/ Exchanging!Tick
  BY <1>5 DEF Exchanging!Prune, Exchanging!Tick
<1>6. CASE UNCHANGED Exchanging!vars
  BY <1>6 DEF Exchanging!vars
<1> QED
  BY <1>1, <1>2, <1>3, <1>4, <1>5, <1>6 DEF Exchanging!Next, Exchanging!BNext

-----------------------------------------------------------------------------
\* A's steps.  A claim is evaluated before T' and commits within a request of
\* that; what it finds then is B's lock, which B has looked at no longer ago
\* than a polling interval.
LEMMA AStep ==
  ASSUME Exchanging!ConstantsOK, Typed, Timed, Exchanging!ANext
  PROVE  Timed'
<1> USE SwapConstants DEF Exchanging!Deal, Exchanging!Clock, Exchanging!By
<1>0. UNCHANGED <<now, ahead, expiry, window, b, read>>
  BY DEF Exchanging!ANext, Exchanging!AFund, Exchanging!AClaim, Exchanging!AClaimRefused,
         Exchanging!AClaimEvaluated, Exchanging!AClaimCommits, Exchanging!ARefund
<1>t. /\ now \in Nat /\ now <= SwapEnd /\ ahead[1] \in Nat /\ ahead[2] \in Nat
      /\ expiry[1] \in Nat /\ expiry[2] \in Nat /\ window \in Nat /\ spent_at \in Nat
      /\ due["A"] \in Nat /\ due["B"] \in Nat
  BY DEF Typed
<1>1. CASE Exchanging!AFund
  <2>1. /\ a = "start" /\ a' = "funded" /\ leg'[1] = "locked" /\ leg'[2] = leg[2]
        /\ UNCHANGED <<spent_at, due>>
    BY <1>1 DEF Exchanging!AFund, Typed
  <2> QED
    BY <1>0, <1>t, <2>1 DEF Timed, OnTime, Claims, Funds, Polls, Reads, Within, Fits
<1>2. CASE Exchanging!AClaim \/ Exchanging!AClaimRefused
  <2>1. /\ a # "start" /\ a' \in {"claiming", "funded"}
        /\ UNCHANGED <<leg, spent_at, due>>
    BY <1>2 DEF Exchanging!AClaim, Exchanging!AClaimRefused
  <2> QED
    BY <1>0, <1>t, <2>1 DEF Timed, OnTime, Claims, Funds, Polls, Reads, Within, Fits
<1>3. CASE Exchanging!AClaimEvaluated
  <2>1. /\ a = "claiming" /\ a' = "evaluated" /\ leg[2] = "locked"
        /\ now + ahead[2] < expiry[2]
        /\ due'["A"] = now + Latency /\ due'["B"] = due["B"]
        /\ UNCHANGED <<leg, spent_at>>
    BY <1>3 DEF Exchanging!AClaimEvaluated, Exchanging!Claimable, Typed
  <2> QED
    BY <1>0, <1>t, <2>1 DEF Timed, OnTime, Claims, Funds, Polls, Reads, Within, Fits
<1>4. CASE Exchanging!AClaimCommits
  <2>1. /\ a = "evaluated" /\ due'["A"] = SwapEnd + 1 /\ due'["B"] = due["B"]
    BY <1>4 DEF Exchanging!AClaimCommits, Exchanging!Never, Typed
  <2>2. CASE leg[2] = "locked"
    <3>1. /\ leg'[2] = "claimed" /\ leg'[1] = leg[1] /\ a' = "over"
          /\ spent_at' = now + ahead[2]
      BY <1>4, <2>2 DEF Exchanging!AClaimCommits, Typed
    <3> QED
      BY <1>0, <1>t, <2>1, <2>2, <3>1
         DEF Timed, OnTime, Claims, Funds, Polls, Reads, Within, Fits
  <2>3. CASE leg[2] # "locked"
    <3>1. a' = "funded" /\ UNCHANGED <<leg, spent_at>>
      BY <1>4, <2>3 DEF Exchanging!AClaimCommits
    <3> QED
      BY <1>0, <1>t, <2>1, <3>1 DEF Timed, OnTime, Claims, Funds, Polls, Reads, Within, Fits
  <2> QED
    BY <2>2, <2>3
<1>5. CASE Exchanging!ARefund
  <2>1. /\ a # "start" /\ leg[1] = "locked" /\ now + ahead[1] >= expiry[1]
        /\ leg'[1] = "refunded" /\ leg'[2] = leg[2]
        /\ UNCHANGED <<a, spent_at, due>>
    BY <1>5 DEF Exchanging!ARefund, Exchanging!Refundable, Typed
  \* Leg 2 is not claimed: B would have been at leg 1 by now.
  <2>2. leg[2] \notin {"claimed", "pruned"}
    <3> SUFFICES ASSUME leg[2] \in {"claimed", "pruned"} PROVE FALSE
      OBVIOUS
    <3>1. Reads /\ now <= due["B"] /\ b # "over"
      BY <2>1 DEF Timed, OnTime, Reads
    <3>2. b \in {"waiting", "asked", "told", "found", "checked", "claiming", "evaluated"}
      BY <3>1 DEF Timed, Funds, Typed
    <3>3. /\ spent_at < expiry[2] + Latency
          /\ due["B"] + ahead[2] <= spent_at + 4 * Latency + PollingInterval
      BY <1>t, <3>1, <3>2 DEF Reads, Within
    <3>4. expiry[1] - expiry[2] >= ahead[1] - ahead[2] + PollingInterval + 5 * Latency
      BY <3>2 DEF Timed, Funds, Fits
    <3> QED
      BY <1>t, <2>1, <3>1, <3>3, <3>4
  <2> QED
    BY <1>0, <1>t, <2>1, <2>2
       DEF Timed, OnTime, Claims, Funds, Polls, Reads, Within, Fits
<1> QED
  BY <1>1, <1>2, <1>3, <1>4, <1>5 DEF Exchanging!ANext

-----------------------------------------------------------------------------
\* What B quotes for fits the deal: the skew as B measured it is off by what
\* the two requests took, and the margin has the room for that.
LEMMA QuoteFits ==
  ASSUME Exchanging!ConstantsOK, SafeEstimate, Typed, Timed, b = "measured",
         Exchanging!Quotable(Exchanging!Margin(read.time - Exchanging!Clock(2)))
  PROVE  Fits
<1>1. /\ now \in Nat /\ ahead[1] \in Nat /\ ahead[2] \in Nat /\ read.time \in Nat
      /\ expiry[1] \in Nat /\ expiry[2] \in Nat /\ window \in Nat /\ due["B"] \in Nat
  BY SwapConstants DEF Typed
<1>2. PICK skew \in Int : skew = read.time - (now + ahead[2])
  BY <1>1
<1>3. PICK margin \in Int : margin = Exchanging!Margin(skew)
  BY <1>2, SwapConstants DEF Exchanging!Margin, Exchanging!Abs
<1>4. margin >= PollingInterval + 2 * Grace + 3 * Estimate + skew /\ margin >= PollingInterval + 3 * Estimate
  BY <1>2, <1>3, SwapConstants DEF Exchanging!Margin, Exchanging!Abs
<1>5. expiry[1] - expiry[2] >= margin /\ window >= expiry[1] - expiry[2] + margin
  BY <1>2, <1>3 DEF Exchanging!Quotable, Exchanging!Covers, Exchanging!Clock
<1>6. skew >= ahead[1] - ahead[2] - Latency
  BY <1>1, <1>2, SwapConstants DEF Timed, OnTime, Funds
<1> QED
  BY <1>1, <1>2, <1>4, <1>5, <1>6, SwapConstants DEF Fits, SafeEstimate

\* B measures, quotes and funds leg 2, or leaves it.
LEMMA BFunds ==
  ASSUME Exchanging!ConstantsOK, SafeEstimate, Typed, Timed,
         Exchanging!BMeasure \/ Exchanging!BRefuses \/ Exchanging!BQuotes \/ Exchanging!BFund
  PROVE  Timed'
<1> USE SwapConstants DEF Exchanging!Deal, Exchanging!By, Exchanging!Never
<1>0. UNCHANGED <<now, ahead, expiry, window, a, spent_at>>
  BY DEF Exchanging!BMeasure, Exchanging!BRefuses, Exchanging!BQuotes, Exchanging!BFund
<1>t. /\ now \in Nat /\ now <= SwapEnd /\ ahead[1] \in Nat /\ ahead[2] \in Nat
      /\ expiry[1] \in Nat /\ expiry[2] \in Nat /\ window \in Nat /\ spent_at \in Nat
      /\ due["A"] \in Nat /\ due["B"] \in Nat
  BY DEF Typed
<1>1. CASE Exchanging!BMeasure
  <2>1. /\ b = "start" /\ b' = "measured" /\ read'.time = now + ahead[1]
        /\ due'["A"] = due["A"] /\ due'["B"] = now + Latency /\ leg' = leg
    BY <1>1 DEF Exchanging!BMeasure, Exchanging!Clock, Typed
  <2> QED
    BY <1>0, <1>t, <2>1 DEF Timed, OnTime, Claims, Funds, Polls, Reads, Within, Fits
<1>2. CASE Exchanging!BRefuses
  <2>1. /\ b = "measured" /\ b' = "over"
        /\ due'["A"] = due["A"] /\ due'["B"] = SwapEnd + 1 /\ leg' = leg
    BY <1>2 DEF Exchanging!BRefuses, Typed
  <2> QED
    BY <1>0, <1>t, <2>1 DEF Timed, OnTime, Claims, Funds, Polls, Reads, Within, Fits
<1>3. CASE Exchanging!BQuotes
  <2>1. /\ b = "measured" /\ b' = "funding" /\ leg[1] = "locked"
        /\ due'["A"] = due["A"] /\ due'["B"] = SwapEnd + 1 /\ leg' = leg
    BY <1>3 DEF Exchanging!BQuotes, Typed
  <2>2. Fits
    BY <1>3, QuoteFits DEF Exchanging!BQuotes
  <2> QED
    BY <1>0, <1>t, <2>1, <2>2 DEF Timed, OnTime, Claims, Funds, Polls, Reads, Within, Fits
<1>4. CASE Exchanging!BFund
  <2>1. b = "funding" /\ leg[2] = "none" /\ Fits /\ leg[1] # "none"
    BY <1>4 DEF Exchanging!BFund, Timed, Funds
  <2>2. CASE now + ahead[2] < expiry[2]
    <3>1. /\ b' = "waiting" /\ leg'[1] = leg[1] /\ leg'[2] = "locked"
          /\ due'["A"] = due["A"] /\ due'["B"] = now
      BY <1>4, <2>2 DEF Exchanging!BFund, Exchanging!Clock, Typed
    <3> QED
      BY <1>0, <1>t, <2>1, <3>1 DEF Timed, OnTime, Claims, Funds, Polls, Reads, Within, Fits
  <2>3. CASE ~(now + ahead[2] < expiry[2])
    <3>1. b' = "over" /\ UNCHANGED <<leg, due>>
      BY <1>4, <2>3 DEF Exchanging!BFund, Exchanging!Clock
    <3> QED
      BY <1>0, <1>t, <2>1, <3>1 DEF Timed, OnTime, Claims, Funds, Polls, Reads, Within, Fits
  <2> QED
    BY <2>2, <2>3
<1> QED
  BY <1>1, <1>2, <1>3, <1>4

\* B polls.  The window keeps x readable until B has read it.
LEMMA BPolls ==
  ASSUME Exchanging!ConstantsOK, Typed, Timed,
         \/ Exchanging!BAsk \/ Exchanging!BTold \/ Exchanging!BPollAgain
         \/ Exchanging!BNothingToRead \/ Exchanging!BFound \/ Exchanging!BRefund
  PROVE  Timed'
<1> USE SwapConstants DEF Exchanging!Deal, Exchanging!By, Exchanging!Never
<1>0. UNCHANGED <<now, ahead, expiry, window, a, spent_at>>
  BY DEF Exchanging!BAsk, Exchanging!BTold, Exchanging!BPollAgain,
         Exchanging!BNothingToRead, Exchanging!BFound, Exchanging!BRefund
<1>t. /\ now \in Nat /\ now <= SwapEnd /\ ahead[1] \in Nat /\ ahead[2] \in Nat
      /\ expiry[1] \in Nat /\ expiry[2] \in Nat /\ window \in Nat /\ spent_at \in Nat
      /\ due["A"] \in Nat /\ due["B"] \in Nat
  BY DEF Typed
<1>1. CASE Exchanging!BAsk
  <2>1. /\ b = "waiting" /\ b' = "asked" /\ leg' = leg
        /\ due'["A"] = due["A"] /\ due'["B"] = now + Latency
    BY <1>1 DEF Exchanging!BAsk, Typed
  <2> QED
    BY <1>0, <1>t, <2>1 DEF Timed, OnTime, Claims, Funds, Polls, Reads, Within, Fits
<1>2. CASE Exchanging!BTold
  <2>1. b = "asked" /\ b' = "told" /\ read'.state = leg[2] /\ UNCHANGED <<leg, due>>
    <3>1. read' = [time |-> 0, state |-> leg[2]]
      BY <1>2 DEF Exchanging!BTold, Exchanging!Nothing
    <3> QED
      BY <1>2, <3>1 DEF Exchanging!BTold
  <2>2. leg[2] # "pruned"
    BY <1>t, <2>1 DEF Timed, OnTime, Funds, Reads, Within, Fits
  <2> QED
    BY <1>0, <1>t, <2>1, <2>2
       DEF Timed, OnTime, Claims, Funds, Polls, Reads, Within, Fits
<1>3. CASE Exchanging!BPollAgain
  <2>1. /\ b = "told" /\ b' = "waiting" /\ leg' = leg /\ read.state = "locked"
        /\ due'["A"] = due["A"] /\ due'["B"] = now + PollingInterval
    BY <1>3 DEF Exchanging!BPollAgain, Typed
  <2> QED
    BY <1>0, <1>t, <2>1 DEF Timed, OnTime, Claims, Funds, Polls, Reads, Within, Fits
<1>4. CASE Exchanging!BNothingToRead
  <2>1. /\ b = "told" /\ b' = "over" /\ leg' = leg /\ read.state \in {"refunded", "pruned"}
        /\ due'["A"] = due["A"] /\ due'["B"] = SwapEnd + 1
    BY <1>4 DEF Exchanging!BNothingToRead, Typed
  <2> QED
    BY <1>0, <1>t, <2>1 DEF Timed, OnTime, Claims, Funds, Polls, Reads, Within, Fits
<1>5. CASE Exchanging!BFound
  <2>1. /\ b = "told" /\ b' = "found" /\ leg' = leg /\ read.state = "claimed"
        /\ due'["A"] = due["A"] /\ due'["B"] = now + Latency
    BY <1>5 DEF Exchanging!BFound, Typed
  <2> QED
    BY <1>0, <1>t, <2>1 DEF Timed, OnTime, Claims, Funds, Polls, Reads, Within, Fits
<1>6. CASE Exchanging!BRefund
  <2>1. /\ b = "waiting" /\ leg[2] = "locked" /\ leg'[1] = leg[1] /\ leg'[2] = "refunded"
        /\ UNCHANGED <<b, due>>
    BY <1>6 DEF Exchanging!BRefund, Exchanging!Refundable, Typed
  <2> QED
    BY <1>0, <1>t, <2>1 DEF Timed, OnTime, Claims, Funds, Polls, Reads, Within, Fits
<1> QED
  BY <1>1, <1>2, <1>3, <1>4, <1>5, <1>6

\* B claims leg 1 with x: it is not too late, and A has not taken it back.
LEMMA BTakes ==
  ASSUME Exchanging!ConstantsOK, Typed, Timed,
         \/ Exchanging!BTime \/ Exchanging!BTooLate \/ Exchanging!BClaim
         \/ Exchanging!BClaimEvaluated \/ Exchanging!BClaimCommits
  PROVE  Timed'
<1> USE SwapConstants DEF Exchanging!Deal, Exchanging!By, Exchanging!Never
<1>0. UNCHANGED <<now, ahead, expiry, window, a, spent_at>>
  BY DEF Exchanging!BTime, Exchanging!BTooLate, Exchanging!BClaim,
         Exchanging!BClaimEvaluated, Exchanging!BClaimCommits
<1>t. /\ now \in Nat /\ now <= SwapEnd /\ ahead[1] \in Nat /\ ahead[2] \in Nat
      /\ expiry[1] \in Nat /\ expiry[2] \in Nat /\ window \in Nat /\ spent_at \in Nat
      /\ due["A"] \in Nat /\ due["B"] \in Nat /\ read.time \in Nat
  BY DEF Typed
<1>1. CASE Exchanging!BTime
  <2>1. b = "found" /\ b' = "checked" /\ read'.time = now + ahead[1] /\ UNCHANGED <<leg, due>>
    <3>1. read' = [time |-> now + ahead[1], state |-> "none"]
      BY <1>1 DEF Exchanging!BTime, Exchanging!Nothing, Exchanging!Clock
    <3> QED
      BY <1>1, <3>1 DEF Exchanging!BTime
  <2> QED
    BY <1>0, <1>t, <2>1 DEF Timed, OnTime, Claims, Funds, Polls, Reads, Within, Fits
<1>2. CASE Exchanging!BTooLate
  <2>1. /\ b = "checked" /\ b' = "over" /\ leg' = leg /\ ~(read.time < expiry[1] - Grace)
        /\ due'["A"] = due["A"] /\ due'["B"] = SwapEnd + 1
    BY <1>2 DEF Exchanging!BTooLate, Exchanging!InTime, Typed
  <2>2. leg[2] \notin {"claimed", "pruned"}
    BY <1>t, <2>1 DEF Timed, Funds, Reads, Within, Fits
  <2> QED
    BY <1>0, <1>t, <2>1, <2>2
       DEF Timed, OnTime, Claims, Funds, Polls, Reads, Within, Fits
<1>3. CASE Exchanging!BClaim
  <2>1. /\ b = "checked" /\ b' = "claiming" /\ leg' = leg
        /\ due'["A"] = due["A"] /\ due'["B"] = now + Latency
    BY <1>3 DEF Exchanging!BClaim, Typed
  <2> QED
    BY <1>0, <1>t, <2>1 DEF Timed, OnTime, Claims, Funds, Polls, Reads, Within, Fits
\* When the claim is evaluated, T has not come.
<1>4. CASE Exchanging!BClaimEvaluated
  <2>1. CASE leg[1] = "locked" /\ now + ahead[1] < expiry[1]
    <3>1. b = "claiming" /\ b' = "evaluated" /\ UNCHANGED <<leg, due>>
      BY <1>4, <2>1 DEF Exchanging!BClaimEvaluated, Exchanging!Claimable, Exchanging!Clock
    <3> QED
      BY <1>0, <1>t, <3>1 DEF Timed, OnTime, Claims, Funds, Polls, Reads, Within, Fits
  <2>2. CASE ~(leg[1] = "locked" /\ now + ahead[1] < expiry[1])
    <3>1. /\ b = "claiming" /\ b' = "over" /\ leg' = leg
          /\ due'["A"] = due["A"] /\ due'["B"] = SwapEnd + 1
      BY <1>4, <2>2 DEF Exchanging!BClaimEvaluated, Exchanging!Claimable, Exchanging!Clock,
                        Typed
    <3>2. leg[2] \in {"claimed", "pruned"} => now + ahead[1] < expiry[1]
      BY <1>t, <3>1 DEF Timed, OnTime, Funds, Reads, Within, Fits
    <3>3. leg[2] \in {"claimed", "pruned"} => leg[1] = "claimed"
      BY <2>2, <3>1, <3>2 DEF Timed, Funds, Reads, Typed, States
    <3> QED
      BY <1>0, <1>t, <3>1, <3>3 DEF Timed, OnTime, Claims, Funds, Polls, Reads, Within, Fits
  <2> QED
    BY <2>1, <2>2
<1>5. CASE Exchanging!BClaimCommits
  <2>1. /\ b = "evaluated" /\ b' = "over"
        /\ due'["A"] = due["A"] /\ due'["B"] = SwapEnd + 1
    BY <1>5 DEF Exchanging!BClaimCommits, Typed
  <2>2. /\ leg'[2] = leg[2]
        /\ leg'[1] = IF leg[1] = "locked" THEN "claimed" ELSE leg[1]
    BY <1>5 DEF Exchanging!BClaimCommits, Typed
  <2> QED
    BY <1>0, <1>t, <2>1, <2>2
       DEF Timed, OnTime, Claims, Funds, Polls, Reads, Within, Fits, Typed, States
<1> QED
  BY <1>1, <1>2, <1>3, <1>4, <1>5

-----------------------------------------------------------------------------
LEMMA SwapStep ==
  ASSUME Exchanging!ConstantsOK, SafeEstimate, SwapInv, [Exchanging!Next]_(Exchanging!vars)
  PROVE  SwapInv'
<1>1. Typed /\ Typed'
  BY SwapTyped DEF SwapInv
<1>2. ASSUME timely, timely' PROVE Timed'
  <2>0. Timed
    BY <1>2, Zenon DEF SwapInv
  <2>1. CASE Exchanging!ANext
    BY <1>1, <2>0, <2>1, AStep
  <2>2. CASE Exchanging!BNext
    <3>1. \/ Exchanging!BMeasure \/ Exchanging!BRefuses \/ Exchanging!BQuotes
          \/ Exchanging!BFund
          \/ Exchanging!BAsk \/ Exchanging!BTold \/ Exchanging!BPollAgain
          \/ Exchanging!BNothingToRead \/ Exchanging!BFound \/ Exchanging!BRefund
          \/ Exchanging!BTime \/ Exchanging!BTooLate \/ Exchanging!BClaim
          \/ Exchanging!BClaimEvaluated \/ Exchanging!BClaimCommits
      BY <2>2, Zenon DEF Exchanging!BNext
    <3> QED
      BY <1>1, <2>0, <3>1, BFunds, BPolls, BTakes, Zenon
  <2>3. CASE Exchanging!Prune
    <3>1. /\ leg[2] = "claimed" /\ now + ahead[2] > spent_at + window
          /\ leg'[1] = leg[1] /\ leg'[2] = "pruned"
          /\ UNCHANGED <<now, ahead, expiry, window, a, b, read, spent_at, due>>
      BY <1>1, <2>3 DEF Exchanging!Prune, Exchanging!Clock, Exchanging!Deal, Typed
    <3> QED
      BY <2>0, <3>1 DEF Timed, OnTime, Claims, Funds, Polls, Reads, Within, Fits
  <2>4. CASE Exchanging!Tick
    <3>1. /\ now < due["A"] /\ now < due["B"] /\ now' = now + 1
          /\ UNCHANGED <<ahead, expiry, window, leg, spent_at, a, b, read, due>>
      BY <1>2, <2>4 DEF Exchanging!Tick, Exchanging!Deal
    <3>2. /\ now \in Nat /\ ahead[1] \in Nat /\ ahead[2] \in Nat
          /\ expiry[1] \in Nat /\ expiry[2] \in Nat /\ window \in Nat /\ spent_at \in Nat
          /\ due["A"] \in Nat /\ due["B"] \in Nat /\ read.time \in Nat
      BY <1>1 DEF Typed
    <3> QED
      BY SwapConstants, <2>0, <3>1, <3>2
         DEF Timed, OnTime, Claims, Funds, Polls, Reads, Within, Fits
  <2>5. CASE UNCHANGED Exchanging!vars
    BY <2>0, <2>5 DEF Exchanging!vars, Timed, OnTime, Claims, Funds, Polls, Reads, Within, Fits
  <2> QED
    BY <2>1, <2>2, <2>3, <2>4, <2>5, Zenon DEF Exchanging!Next
<1>3. timely' => timely
  <2>1. timely' = timely
    BY Zenon DEF Exchanging!Next, Exchanging!ANext, Exchanging!BNext, Exchanging!vars,
      Exchanging!Deal, Exchanging!AFund, Exchanging!AClaim, Exchanging!AClaimRefused,
      Exchanging!AClaimEvaluated, Exchanging!AClaimCommits, Exchanging!ARefund,
      Exchanging!BMeasure, Exchanging!BRefuses, Exchanging!BQuotes, Exchanging!BFund,
      Exchanging!BAsk, Exchanging!BTold, Exchanging!BPollAgain, Exchanging!BNothingToRead,
      Exchanging!BFound, Exchanging!BRefund, Exchanging!BTime, Exchanging!BTooLate,
      Exchanging!BClaim, Exchanging!BClaimEvaluated, Exchanging!BClaimCommits,
      Exchanging!Prune, Exchanging!Tick
  <2> QED
    BY <2>1
<1> QED
  BY <1>1, <1>2, <1>3, Zenon DEF SwapInv

LEMMA SwapSafe ==
  ASSUME Exchanging!ConstantsOK, SafeEstimate
  PROVE  Exchanging!Spec => [](Exchanging!TypeOK /\ Exchanging!BothOrNeither)
<1>1. Exchanging!Init => SwapInv
  BY SwapInit
<1>2. SwapInv /\ [Exchanging!Next]_(Exchanging!vars) => SwapInv'
  BY SwapStep
<1>3. SwapInv => Exchanging!TypeOK
  BY DEF SwapInv, Typed, States, Exchanging!TypeOK, Exchanging!Mint
<1>4. SwapInv => Exchanging!BothOrNeither
  BY Zenon DEF SwapInv, Timed, Reads, Exchanging!BothOrNeither
<1> QED
  BY <1>1, <1>2, <1>3, <1>4, PTL DEF Exchanging!Spec

\* A swap is atomic for a B that polls and claims on time, for every margin,
\* horizon and skew of the two mints' clocks that b_fund quotes for: A never
\* takes leg 1 back once it has claimed leg 2 (compute_margin, b_fund and
\* b_poll_and_claim of swap.py).
THEOREM SwapIsAtomic ==
  ASSUME Exchanging!ConstantsOK, SafeEstimate
  PROVE  ProtocolSpec => []BothOrNeither
<1>1. ProtocolInit /\ protocol = "swap" => Exchanging!Init
  BY Zenon DEF ProtocolInit
<1>2. protocol = "swap" /\ [ProtocolNext]_protocolVars =>
        (protocol = "swap")' /\ [Exchanging!Next]_(Exchanging!vars)
  BY DEF ProtocolNext, protocolVars, swapVars, Exchanging!vars
<1>3. ~(protocol = "swap") /\ [ProtocolNext]_protocolVars => ~(protocol = "swap")'
  BY DEF ProtocolNext, protocolVars
<1>4. Exchanging!Spec => [](Exchanging!TypeOK /\ Exchanging!BothOrNeither)
  BY SwapSafe
<1>5. BothOrNeither <=>
        (protocol = "swap" => Exchanging!TypeOK /\ Exchanging!BothOrNeither)
  BY DEF BothOrNeither
<1> QED
  BY <1>1, <1>2, <1>3, <1>4, <1>5, PTL DEF ProtocolSpec, Exchanging!Spec

-----------------------------------------------------------------------------
(***************************************************************************)
(* CommitThenAccept.                                                       *)
(***************************************************************************)
RevealBy == term - Grace - RedeemMargin

\* Types, and what each party has behind it.
AcceptTyped ==
  /\ day \in 0..AcceptEnd /\ mint_time \in 0..AcceptEnd
  /\ term \in Terms /\ term \in Nat /\ finish \in 0..(AcceptEnd + 1 + HandoverTime)
  /\ accepted \in 0..(AcceptEnd + 1) /\ satisfied \in 0..(AcceptEnd + 1)
  /\ output \in {"none", "locked", "claimed", "refunded"}
  /\ customer \in {"new", "committed", "asked", "revealed", "refused"}
  /\ worker \in {"new", "read", "verified", "away", "paid"}

Agreed ==
  /\ output = "none" => customer = "new"
  /\ output = "refunded" => day >= term
  /\ output = "claimed" => worker = "paid"
  /\ worker \in {"new", "read"} => satisfied = AcceptEnd + 1
  /\ satisfied # AcceptEnd + 1 => satisfied <= day /\ term >= AcceptBy + Grace + RedeemMargin
  /\ satisfied # AcceptEnd + 1 => worker = "verified" \/ customer = "revealed"
  /\ customer \in {"asked", "revealed"} /\ worker \in {"new", "read"} =>
       finish = accepted + HandoverTime
  /\ customer \in {"new", "committed"} => accepted = AcceptEnd + 1
  /\ customer \in {"asked", "revealed", "refused"} =>
       accepted <= day /\ (customer = "refused" <=> ~(accepted <= RevealBy))

\* The worker has its pay, or is still in time to redeem.
Payable ==
  customer \in {"asked", "revealed"} /\ satisfied <= accepted =>
    \/ output = "claimed"
    \/ /\ output = "locked" /\ worker = "verified"
       /\ finish = accepted + HandoverTime /\ day <= finish

AcceptInv == AcceptTyped /\ Agreed /\ Payable

LEMMA AcceptStep ==
  ASSUME Accepting!ConstantsOK, RedeemsInTime, AcceptInv, [Accepting!Next]_(Accepting!vars)
  PROVE  AcceptInv'
<1>0. /\ AcceptBy \in Nat /\ Grace \in Nat /\ RedeemMargin \in Nat /\ HandoverTime \in Nat
      /\ AcceptEnd \in Nat
  BY DEF Accepting!ConstantsOK
<1> USE <1>0 DEF AcceptInv, AcceptTyped, Agreed, Payable, RevealBy, Accepting!Never
<1>1. CASE Accepting!PayerCommit
  BY <1>1 DEF Accepting!PayerCommit
<1>2. CASE Accepting!WorkerStatus
  BY <1>2 DEF Accepting!WorkerStatus
\* A worker that verifies when the payer has asked already is not late: the
\* reveal deadline has not passed.
<1>3. CASE Accepting!WorkerVerify
  BY <1>3 DEF Accepting!WorkerVerify, Accepting!WindowOpen, RedeemsInTime
<1>4. CASE Accepting!PayerReveal
  BY <1>4 DEF Accepting!PayerReveal, Accepting!RevealDeadline, RedeemsInTime
<1>5. CASE Accepting!Handover
  BY <1>5 DEF Accepting!Handover
<1>6. CASE Accepting!WorkerRedeem
  BY <1>6 DEF Accepting!WorkerRedeem, RedeemsInTime
<1>7. CASE Accepting!PayerRefund
  BY <1>7 DEF Accepting!PayerRefund, RedeemsInTime
<1>8. CASE Accepting!Tick
  BY <1>8 DEF Accepting!Tick
<1>9. CASE UNCHANGED Accepting!vars
  BY <1>9 DEF Accepting!vars
<1> QED
  BY <1>1, <1>2, <1>3, <1>4, <1>5, <1>6, <1>7, <1>8, <1>9 DEF Accepting!Next

LEMMA AcceptanceSafe ==
  ASSUME Accepting!ConstantsOK, RedeemsInTime
  PROVE  Accepting!Spec => [](Accepting!TypeOK /\ Accepting!AcceptedIsPaid)
<1>1. Accepting!Init => AcceptInv
  BY DEF Accepting!Init, Accepting!ConstantsOK, Accepting!Never, AcceptInv, AcceptTyped,
         Agreed, Payable
<1>2. AcceptInv /\ [Accepting!Next]_(Accepting!vars) => AcceptInv'
  BY AcceptStep
<1>3. AcceptInv => Accepting!TypeOK
  BY DEF AcceptInv, AcceptTyped, Accepting!TypeOK, Accepting!Never
<1>4. AcceptInv => Accepting!AcceptedIsPaid
  BY DEF Accepting!ConstantsOK, AcceptInv, AcceptTyped, Agreed, Payable, RevealBy,
         RedeemsInTime, Accepting!AcceptedIsPaid
<1> QED
  BY <1>1, <1>2, <1>3, <1>4, PTL DEF Accepting!Spec

\* A worker that verified before the payer accepted is paid: the payer cannot
\* take back what its code revealed, nor can that code refuse an acceptance
\* within the terms, whatever expiry the payer committed (worker_verify,
\* payer_reveal and worker_redeem of escrow.py).
THEOREM AcceptanceIsPaid ==
  ASSUME Accepting!ConstantsOK, RedeemsInTime
  PROVE  ProtocolSpec => []AcceptedIsPaid
<1>1. ProtocolInit /\ protocol = "accept" => Accepting!Init
  BY Zenon DEF ProtocolInit
<1>2. protocol = "accept" /\ [ProtocolNext]_protocolVars =>
        (protocol = "accept")' /\ [Accepting!Next]_(Accepting!vars)
  BY DEF ProtocolNext, protocolVars, acceptVars, Accepting!vars
<1>3. ~(protocol = "accept") /\ [ProtocolNext]_protocolVars => ~(protocol = "accept")'
  BY DEF ProtocolNext, protocolVars
<1>4. Accepting!Spec => [](Accepting!TypeOK /\ Accepting!AcceptedIsPaid)
  BY AcceptanceSafe
<1>5. AcceptedIsPaid <=>
        (protocol = "accept" => Accepting!TypeOK /\ Accepting!AcceptedIsPaid)
  BY DEF AcceptedIsPaid
<1> QED
  BY <1>1, <1>2, <1>3, <1>4, <1>5, PTL DEF ProtocolSpec, Accepting!Spec

-----------------------------------------------------------------------------
(***************************************************************************)
(* Escrow.                                                                 *)
(***************************************************************************)
JudgeTyped ==
  /\ hour \in Nat /\ hour <= EscrowEnd /\ by \in Nat /\ limit \in Nat
  /\ rungs \in [Arbiters \X (1..R) -> {"none", "locked", "claimed", "refunded"}]
  /\ redeemer \in {"new", "verified", "refused", "redeeming"}
  /\ claim \subseteq Arbiters \X (1..R)
  /\ revealed \in [Arbiters -> -1..R]

\* The funding is what the payee verified, nothing is refunded before the
\* expiry, and nothing of the call under way is claimed.
Funded ==
  /\ hour <= by
  /\ funder = "new" => \A o \in Arbiters \X (1..R) : rungs[o] = "none"
  /\ redeemer \in {"new", "verified", "refused"} => claim = {}
  /\ redeemer \in {"verified", "redeeming"} =>
       /\ limit >= DecisionDeadline + Grace + RedeemMargin
       /\ genuine = Arbiters \X (1..R)
       /\ \A o \in Arbiters \X (1..R) : rungs[o] # "none"
  /\ \A o \in Arbiters \X (1..R) : rungs[o] = "refunded" => hour >= limit
  /\ \A o \in claim : rungs[o] # "claimed" /\ o[2] <= revealed[o[1]]

\* A rung of an honest arbiter that is revealed and not claimed yet.
Owed(o) ==
  o \in (Arbiters \ Faulty) \X (1..R) /\ o[2] <= revealed[o[1]] /\ rungs[o] # "claimed"

\* It is claimed by a call that has committed by then.
Due ==
  redeemer # "refused" => \A o \in Arbiters \X (1..R) : Owed(o) =>
    /\ by <= DecisionDeadline + 2 * Latency
    /\ redeemer = "redeeming" /\ o \notin claim => by <= DecisionDeadline + Latency

EscrowInv == JudgeTyped /\ Funded /\ Due

\* The lesser of two numbers, as the community modules define it.
LEMMA LesserOfTwo ==
  ASSUME NEW m \in Nat, NEW n \in Nat
  PROVE  /\ Judging!Min({m, n}) \in Nat
         /\ Judging!Min({m, n}) <= m /\ Judging!Min({m, n}) <= n
         /\ Judging!Min({m, n}) \in {m, n}
<1>1. \E x \in {m, n} : \A y \in {m, n} : x <= y
  <2>1. CASE m <= n
    BY <2>1
  <2>2. CASE n <= m
    BY <2>2
  <2> QED
    BY <2>1, <2>2
<1> QED
  BY <1>1 DEF Judging!Min

LEMMA EscrowConstants ==
  ASSUME Judging!ConstantsOK
  PROVE  /\ R \in Nat /\ K \in Nat /\ DecisionDeadline \in Nat /\ Grace \in Nat /\ RedeemMargin \in Nat
         /\ Latency \in Nat /\ EscrowEnd \in Nat /\ Expiries \subseteq Nat
         /\ Faulty \subseteq Arbiters /\ IsFiniteSet(Arbiters)
BY DEF Judging!ConstantsOK, Judging!IsFiniteSet, IsFiniteSet

LEMMA EscrowInit ==
  ASSUME Judging!ConstantsOK, Judging!Init
  PROVE  EscrowInv
BY EscrowConstants DEF Judging!Init, Judging!Output, Judging!Rung, Judging!Never,
   EscrowInv, JudgeTyped, Funded, Due, Owed

\* The payer funds, and takes back what it can: nothing before the expiry.
LEMMA PayerSteps ==
  ASSUME Judging!ConstantsOK, EscrowInv,
         \/ \E missing \in {{}} \cup {{o} : o \in Judging!Output} : Judging!Fund(missing)
         \/ Judging!RefundStatus \/ Judging!Refund
  PROVE  EscrowInv'
<1> USE EscrowConstants DEF Judging!payeeVars, Judging!panel
<1>1. ASSUME NEW missing, Judging!Fund(missing) PROVE EscrowInv'
  <2>1. /\ UNCHANGED <<hour, limit, by, redeemer, claim, revealed, genuine>>
        /\ funder = "new" /\ funder' = "funded" /\ hour < limit
        /\ rungs' = [o \in Arbiters \X (1..R) |->
                       IF o \in Judging!Output \ missing THEN "locked" ELSE rungs[o]]
    BY <1>1 DEF Judging!Fund, Judging!With, Judging!Output, Judging!Rung
  <2>2. JudgeTyped'
    BY <2>1 DEF EscrowInv, JudgeTyped
  <2>3. \A o \in Arbiters \X (1..R) : rungs'[o] = "locked" \/ rungs'[o] = rungs[o]
    BY <2>1
  <2>4. Funded'
    BY <2>1, <2>3 DEF EscrowInv, Funded, JudgeTyped
  <2>5. Due'
    <3>1. \A o \in Arbiters \X (1..R) : rungs[o] = "none"
      BY <2>1 DEF EscrowInv, Funded
    <3> QED
      BY <2>1, <3>1 DEF EscrowInv, Due, Owed
  <2> QED
    BY <2>2, <2>4, <2>5 DEF EscrowInv
<1>2. CASE Judging!RefundStatus
  BY <1>2 DEF Judging!RefundStatus, EscrowInv, JudgeTyped, Funded, Due, Owed
<1>3. CASE Judging!Refund
  <2>1. /\ UNCHANGED <<hour, limit, by, redeemer, claim, revealed, genuine>>
        /\ funder' = "funded"
    BY <1>3 DEF Judging!Refund
  <2>2. CASE hour >= limit /\ refundable \subseteq Judging!In("locked")
    <3>1. rungs' = [o \in Arbiters \X (1..R) |->
                      IF o \in refundable THEN "refunded" ELSE rungs[o]]
      BY <1>3, <2>2 DEF Judging!Refund, Judging!With, Judging!Output, Judging!Rung
    <3>2. \A o \in Arbiters \X (1..R) :
            rungs'[o] = rungs[o] \/ (rungs[o] = "locked" /\ rungs'[o] = "refunded")
      BY <2>2, <3>1 DEF Judging!In, EscrowInv, JudgeTyped
    <3>3. JudgeTyped'
      BY <2>1, <3>1 DEF EscrowInv, JudgeTyped
    <3>4. Funded'
      BY <2>1, <2>2, <3>2 DEF EscrowInv, Funded, JudgeTyped
    <3>5. Due'
      BY <2>1, <3>2 DEF EscrowInv, Due, Owed, JudgeTyped
    <3> QED
      BY <3>3, <3>4, <3>5 DEF EscrowInv
  <2>3. CASE ~(hour >= limit /\ refundable \subseteq Judging!In("locked"))
    <3>1. rungs' = rungs
      BY <1>3, <2>3 DEF Judging!Refund
    <3> QED
      BY <2>1, <3>1 DEF EscrowInv, JudgeTyped, Funded, Due, Owed
  <2> QED
    BY <2>2, <2>3
<1> QED
  BY <1>1, <1>2, <1>3

\* What the panel reveals is in time, and the payee's next call is not put off.
LEMMA PanelSteps ==
  ASSUME Judging!ConstantsOK, EscrowInv,
         \/ \E h \in Judging!Honest, v \in Judging!Vote : Judging!CastVote(h, v)
         \/ \E h \in Arbiters, w \in Judging!Award : Judging!Reveal(h, w)
  PROVE  EscrowInv'
<1> USE EscrowConstants DEF Judging!payerVars, Judging!payeeVars
<1>1. ASSUME NEW h, NEW v, Judging!CastVote(h, v) PROVE EscrowInv'
  BY <1>1 DEF Judging!CastVote, EscrowInv, JudgeTyped, Funded, Due, Owed
<1>2. ASSUME NEW h \in Arbiters, NEW w \in Judging!Award, Judging!Reveal(h, w)
      PROVE  EscrowInv'
  <2>1. /\ UNCHANGED <<hour, limit, redeemer, funder, claim, genuine, rungs>>
        /\ revealed[h] < w /\ w \in 0..R /\ revealed' = [revealed EXCEPT ![h] = w]
        /\ h \notin Faulty => hour <= DecisionDeadline
    BY <1>2 DEF Judging!Reveal, Judging!payerVars, Judging!Honest, Judging!Award
  <2>2. /\ revealed \in [Arbiters -> -1..R] /\ hour \in Nat /\ by \in Nat
        /\ claim \subseteq Arbiters \X (1..R) /\ hour <= by
    BY DEF EscrowInv, JudgeTyped, Funded
  <2>3. /\ by' \in Nat /\ hour <= by' /\ by' <= by
        /\ w > 0 /\ redeemer # "refused" => by' <= hour + Latency
    <3>1. CASE w > 0 /\ redeemer # "refused"
      <4>1. by' = Judging!Min({by, hour + Latency})
        BY <1>2, <3>1 DEF Judging!Reveal
      <4> QED
        BY <2>2, <4>1, LesserOfTwo
    <3>2. CASE ~(w > 0 /\ redeemer # "refused")
      BY <1>2, <2>2, <3>2 DEF Judging!Reveal
    <3> QED
      BY <3>1, <3>2
  <2>4. JudgeTyped'
    BY <2>1, <2>3 DEF EscrowInv, JudgeTyped
  <2>5. Funded'
    <3>1. \A o \in claim : o[2] <= revealed'[o[1]]
      <4> SUFFICES ASSUME NEW o \in claim PROVE o[2] <= revealed'[o[1]]
        OBVIOUS
      <4>1. o[2] <= revealed[o[1]] /\ o[1] \in Arbiters /\ o[2] \in 1..R
        BY <2>2 DEF EscrowInv, Funded
      <4> QED
        BY <2>1, <2>2, <4>1
    <3> QED
      BY <2>1, <2>3, <3>1 DEF EscrowInv, Funded
  <2>6. Due'
    <3> SUFFICES ASSUME redeemer # "refused", NEW o \in Arbiters \X (1..R), Owed(o)'
                 PROVE  /\ by' <= DecisionDeadline + 2 * Latency
                        /\ redeemer = "redeeming" /\ o \notin claim =>
                             by' <= DecisionDeadline + Latency
      BY <2>1 DEF Due
    <3>1. CASE Owed(o)
      BY <2>2, <2>3, <3>1 DEF EscrowInv, Due
    <3>2. CASE ~Owed(o)
      <4>1. /\ o[1] \in Arbiters /\ o[2] \in 1..R /\ o[1] \notin Faulty
            /\ o[2] <= revealed'[o[1]] /\ ~(o[2] <= revealed[o[1]])
        BY <2>1, <3>2 DEF Owed
      <4>2. o[1] = h /\ w > 0
        BY <2>1, <2>2, <4>1
      <4> QED
        BY <2>1, <2>2, <2>3, <4>1, <4>2
    <3> QED
      BY <3>1, <3>2
  <2> QED
    BY <2>4, <2>5, <2>6 DEF EscrowInv
<1> QED
  BY <1>1, <1>2

\* The payee verifies and redeems.  A call that is in time takes all it names.
LEMMA PayeeSteps ==
  ASSUME Judging!ConstantsOK, RedeemsTwice, EscrowInv,
         Judging!VerifyFunding \/ Judging!BeginRedeem \/ Judging!Redeem
  PROVE  EscrowInv'
<1> USE EscrowConstants DEF Judging!payerVars, Judging!panel, Judging!Output, Judging!Rung
<1>1. CASE Judging!VerifyFunding
  <2>1. /\ UNCHANGED <<hour, limit, by, funder, claim, revealed, genuine, rungs>>
        /\ redeemer = "new" /\ redeemer' \in {"verified", "refused"}
        /\ redeemer' = "verified" => Judging!Verifies
    BY <1>1 DEF Judging!VerifyFunding
  <2>2. Judging!Verifies =>
          /\ genuine = Arbiters \X (1..R) /\ limit >= DecisionDeadline + Grace + RedeemMargin
          /\ \A o \in Arbiters \X (1..R) : rungs[o] # "none"
    BY DEF Judging!Verifies, Judging!In, Judging!Conformant
  <2> QED
    BY <2>1, <2>2 DEF EscrowInv, JudgeTyped, Funded, Due, Owed
<1>2. CASE Judging!BeginRedeem
  <2>1. /\ UNCHANGED <<hour, limit, by, funder, revealed, genuine, rungs>>
        /\ redeemer = "verified" /\ redeemer' = "redeeming"
        /\ claim' = {o \in Arbiters \X (1..R) : o[2] <= revealed[o[1]]} \ Judging!In("claimed")
    BY <1>2 DEF Judging!BeginRedeem, Judging!Outstanding, Judging!Revealed
  <2>2. \A o \in Arbiters \X (1..R) :
          o \in claim' <=> o[2] <= revealed[o[1]] /\ rungs[o] # "claimed"
    BY <2>1 DEF Judging!In
  <2>3. JudgeTyped'
    BY <2>1 DEF EscrowInv, JudgeTyped
  <2>4. Funded'
    BY <2>1, <2>2, <2>3 DEF EscrowInv, Funded, JudgeTyped
  <2>5. Due'
    BY <2>1, <2>2 DEF EscrowInv, Due, Owed
  <2> QED
    BY <2>3, <2>4, <2>5 DEF EscrowInv
<1>3. CASE Judging!Redeem
  <2>1. /\ UNCHANGED <<hour, limit, funder, revealed, genuine>>
        /\ redeemer = "redeeming" /\ redeemer' = "verified" /\ claim' = {}
    BY <1>3 DEF Judging!Redeem
  <2>2. CASE Judging!Claimable
    <3>1. /\ rungs' = [o \in Arbiters \X (1..R) |->
                         IF o \in claim THEN "claimed" ELSE rungs[o]]
          /\ by' = IF Judging!Outstanding \ claim # {} THEN hour + Latency
                                                        ELSE EscrowEnd + 1
      BY <1>3, <2>2 DEF Judging!Redeem, Judging!With, Judging!Never
    <3>2. by' \in Nat /\ hour <= by'
      BY <3>1 DEF EscrowInv, JudgeTyped
    <3>3. JudgeTyped'
      BY <2>1, <3>1, <3>2 DEF EscrowInv, JudgeTyped
    <3>4. Funded'
      <4>1. \A o \in Arbiters \X (1..R) : rungs'[o] = "claimed" \/ rungs'[o] = rungs[o]
        BY <3>1
      <4>2. funder = "new" => claim = {}
        BY <2>2 DEF EscrowInv, Funded, JudgeTyped, Judging!Claimable, Judging!In
      <4> QED
        BY <2>1, <3>1, <3>2, <4>1, <4>2 DEF EscrowInv, Funded
    <3>5. Due'
      <4> SUFFICES ASSUME NEW o \in Arbiters \X (1..R), Owed(o)'
                   PROVE  by' <= DecisionDeadline + 2 * Latency
        BY <2>1 DEF Due
      <4>1. o \notin claim /\ Owed(o)
        BY <2>1, <3>1 DEF Owed
      <4>2. o \in Judging!Outstanding \ claim
        BY <4>1 DEF Owed, Judging!Outstanding, Judging!Revealed, Judging!In
      <4>3. by <= DecisionDeadline + Latency /\ hour <= by
        BY <2>1, <4>1 DEF EscrowInv, Due, Funded
      <4> QED
        BY <3>1, <4>2, <4>3 DEF EscrowInv, JudgeTyped
    <3> QED
      BY <3>3, <3>4, <3>5 DEF EscrowInv
  <2>3. CASE ~Judging!Claimable
    <3>1. rungs' = rungs /\ by' = EscrowEnd + 1
      BY <1>3, <2>3 DEF Judging!Redeem, Judging!Never
    <3>2. \A o \in Arbiters \X (1..R) : ~Owed(o)
      <4> SUFFICES ASSUME NEW o \in Arbiters \X (1..R), Owed(o) PROVE FALSE
        OBVIOUS
      <4>1. hour < limit
        BY <2>1 DEF EscrowInv, Due, Funded, JudgeTyped, RedeemsTwice
      <4>2. ASSUME NEW e \in claim PROVE e \in Judging!In("locked") \cap genuine
        <5>1. e \in Arbiters \X (1..R) /\ rungs[e] # "claimed" /\ rungs[e] # "none"
          BY <2>1 DEF EscrowInv, JudgeTyped, Funded
        <5>2. rungs[e] # "refunded"
          BY <4>1, <5>1 DEF EscrowInv, JudgeTyped, Funded
        <5>3. rungs[e] = "locked" /\ genuine = Arbiters \X (1..R)
          BY <2>1, <5>1, <5>2 DEF EscrowInv, JudgeTyped, Funded
        <5> QED
          BY <5>1, <5>3 DEF Judging!In
      <4> QED
        BY <2>3, <4>1, <4>2 DEF Judging!Claimable
    <3>3. JudgeTyped' /\ Funded'
      BY <2>1, <3>1 DEF EscrowInv, JudgeTyped, Funded
    <3>4. Due'
      BY <2>1, <3>1, <3>2 DEF Due, Owed
    <3> QED
      BY <3>3, <3>4 DEF EscrowInv
  <2> QED
    BY <2>2, <2>3
<1> QED
  BY <1>1, <1>2, <1>3

\* The rest of the types: what the payer holds, and how late a call may end.
HandsTyped ==
  /\ limit \in Expiries /\ funder \in {"new", "funded", "refunding"}
  /\ genuine \subseteq Judging!Output /\ refundable \subseteq Judging!Output
  /\ by <= EscrowEnd + 1 + Latency

LEMMA HandsStep ==
  ASSUME Judging!ConstantsOK, EscrowInv, HandsTyped, [Judging!Next]_(Judging!vars)
  PROVE  HandsTyped'
<1> USE EscrowConstants DEF HandsTyped, Judging!payerVars, Judging!payeeVars, Judging!panel
<1>1. hour \in Nat /\ hour <= EscrowEnd /\ by \in Nat
  BY DEF EscrowInv, JudgeTyped
<1>2. CASE \E missing \in {{}} \cup {{o} : o \in Judging!Output} : Judging!Fund(missing)
  BY <1>2 DEF Judging!Fund
<1>3. CASE \/ Judging!VerifyFunding \/ Judging!BeginRedeem \/ Judging!Tick
           \/ \E h \in Judging!Honest, v \in Judging!Vote : Judging!CastVote(h, v)
  BY <1>3 DEF Judging!VerifyFunding, Judging!BeginRedeem, Judging!Tick, Judging!CastVote
<1>4. ASSUME NEW h \in Arbiters, NEW w \in Judging!Award, Judging!Reveal(h, w)
      PROVE  HandsTyped'
  <2>1. UNCHANGED <<limit, funder, genuine, refundable>>
    BY <1>4 DEF Judging!Reveal
  <2>2. by' = by \/ by' = Judging!Min({by, hour + Latency})
    BY <1>4 DEF Judging!Reveal
  <2>3. by' \in Nat /\ by' <= by
    BY <1>1, <2>2, LesserOfTwo
  <2> QED
    BY <1>1, <2>1, <2>3
<1>5. CASE Judging!Redeem
  <2>1. by' = hour + Latency \/ by' = EscrowEnd + 1
    BY <1>5 DEF Judging!Redeem, Judging!Never
  <2> QED
    BY <1>1, <1>5, <2>1 DEF Judging!Redeem
<1>6. CASE Judging!RefundStatus \/ Judging!Refund
  BY <1>6 DEF Judging!RefundStatus, Judging!Refund, Judging!In
<1>7. CASE UNCHANGED Judging!vars
  BY <1>7 DEF Judging!vars
<1> QED
  BY <1>2, <1>3, <1>4, <1>5, <1>6, <1>7 DEF Judging!Next

LEMMA AwardsArePaid ==
  ASSUME Judging!ConstantsOK, RedeemsTwice
  PROVE  Judging!Spec => [](JudgeTyped /\ HandsTyped /\ Judging!AwardedIsPaid)
<1>1. Judging!Init => EscrowInv
  BY EscrowInit
<1>2. EscrowInv /\ [Judging!Next]_(Judging!vars) => EscrowInv'
  <2> SUFFICES ASSUME EscrowInv, [Judging!Next]_(Judging!vars) PROVE EscrowInv'
    OBVIOUS
  <2>1. CASE Judging!Tick
    BY <2>1, EscrowConstants DEF Judging!Tick, Judging!payerVars, Judging!payeeVars,
       Judging!panel, EscrowInv, JudgeTyped, Funded, Due, Owed
  <2>2. CASE UNCHANGED Judging!vars
    BY <2>2 DEF Judging!vars, EscrowInv, JudgeTyped, Funded, Due, Owed
  <2> QED
    BY <2>1, <2>2, PayerSteps, PanelSteps, PayeeSteps, Zenon DEF Judging!Next
<1>3. EscrowInv => Judging!AwardedIsPaid
  <2> SUFFICES ASSUME EscrowInv, redeemer \in {"verified", "redeeming"},
                      NEW h \in Arbiters \ Faulty, NEW r \in 1..revealed[h],
                      rungs[<<h, r>>] = "refunded"
               PROVE  FALSE
    BY DEF Judging!AwardedIsPaid, Judging!Honest
  <2>1. <<h, r>> \in Arbiters \X (1..R) /\ r <= revealed[h] /\ revealed[h] \in -1..R
    BY EscrowConstants DEF EscrowInv, JudgeTyped
  <2>2. Owed(<<h, r>>)
    BY <2>1 DEF Owed
  <2>3. hour >= limit /\ hour <= by /\ limit >= DecisionDeadline + Grace + RedeemMargin
    BY <2>1 DEF EscrowInv, Funded
  <2>4. by <= DecisionDeadline + 2 * Latency
    BY <2>1, <2>2 DEF EscrowInv, Due
  <2> QED
    BY <2>3, <2>4, EscrowConstants DEF RedeemsTwice, EscrowInv, JudgeTyped
<1>4. Judging!Init => HandsTyped
  BY EscrowConstants DEF Judging!Init, Judging!Never, HandsTyped
<1>5. EscrowInv /\ HandsTyped /\ [Judging!Next]_(Judging!vars) => HandsTyped'
  BY HandsStep
<1>6. EscrowInv => JudgeTyped
  BY DEF EscrowInv
<1> QED
  BY <1>1, <1>2, <1>3, <1>4, <1>5, <1>6, PTL DEF Judging!Spec

-----------------------------------------------------------------------------
\* What a minority of faulty arbiters cannot do, whatever the time.

VotesTyped ==
  /\ rungs \in [Arbiters \X (1..R) -> {"none", "locked", "claimed", "refunded"}]
  /\ claim \subseteq Arbiters \X (1..R)
  /\ revealed \in [Arbiters -> -1..R]
  /\ votes \in [Arbiters \ Faulty -> SUBSET Judging!Vote]

Voted(w) == \E h \in Arbiters \ Faulty : \E v \in votes[h] : v.award >= w

\* A rung is claimed because it was revealed, and an honest arbiter reveals
\* because an honest arbiter voted.
Vouched ==
  /\ \A o \in Arbiters \X (1..R) :
       o \in claim \/ rungs[o] = "claimed" => o[2] <= revealed[o[1]]
  /\ \A h \in Arbiters \ Faulty : revealed[h] >= 1 => Voted(revealed[h])

PanelInv == VotesTyped /\ Vouched

\* A quorum is more than the faulty members.
LEMMA QuorumIsHonest ==
  ASSUME Judging!ConstantsOK, Cardinality(Faulty) < K, NEW w \in Judging!Award,
         Judging!Quorum(w)
  PROVE  Voted(w)
<1>1. PICK e \in Evidence : Cardinality(Judging!Voters(w, e)) >= K
  BY DEF Judging!Quorum, Judging!Cardinality, Cardinality
<1>2. ~(Judging!Voters(w, e) \subseteq Faulty)
  <2> SUFFICES ASSUME Judging!Voters(w, e) \subseteq Faulty PROVE FALSE
    OBVIOUS
  <2>1. IsFiniteSet(Faulty)
    BY EscrowConstants, FS_Subset
  <2>2. /\ Cardinality(Judging!Voters(w, e)) <= Cardinality(Faulty)
        /\ Cardinality(Faulty) \in Nat /\ Cardinality(Judging!Voters(w, e)) \in Nat
    BY <2>1, FS_Subset, FS_CardinalityType
  <2> QED
    BY <1>1, <2>2, EscrowConstants
<1>3. PICK h \in Judging!Voters(w, e) : h \notin Faulty
  BY <1>2
<1>4. h \in Arbiters \ Faulty /\ [award |-> w, evidence |-> e] \in votes[h]
  BY <1>3 DEF Judging!Voters, Judging!VotesOf
<1> QED
  BY <1>4 DEF Voted, Judging!Award

\* A vote that was cast stays.
LEMMA VotesStand ==
  ASSUME PanelInv, NEW h \in Judging!Honest, NEW v \in Judging!Vote, Judging!CastVote(h, v)
  PROVE  PanelInv'
<1>1. /\ UNCHANGED <<rungs, claim, revealed>>
      /\ votes[h] = {} /\ votes' = [votes EXCEPT ![h] = {v}]
  BY DEF Judging!CastVote, Judging!payerVars, Judging!payeeVars
<1>2. VotesTyped'
  BY <1>1 DEF PanelInv, VotesTyped, Judging!Honest
<1>3. \A g \in Arbiters \ Faulty : votes[g] \subseteq votes'[g]
  BY <1>1 DEF PanelInv, VotesTyped
<1>4. Vouched'
  BY <1>1, <1>3 DEF PanelInv, Vouched, Voted
<1> QED
  BY <1>2, <1>4 DEF PanelInv

LEMMA RevealsAreVouched ==
  ASSUME Judging!ConstantsOK, Cardinality(Faulty) < K, PanelInv,
         NEW h \in Arbiters, NEW w \in Judging!Award, Judging!Reveal(h, w)
  PROVE  PanelInv'
<1>1. /\ UNCHANGED <<rungs, claim, votes>>
      /\ revealed[h] < w /\ w \in 0..R /\ revealed' = [revealed EXCEPT ![h] = w]
      /\ h \in Arbiters \ Faulty => Judging!Quorum(w)
  BY DEF Judging!Reveal, Judging!payerVars, Judging!Honest, Judging!Award
<1>2. VotesTyped'
  BY <1>1, EscrowConstants DEF PanelInv, VotesTyped
<1>3. \A g \in Arbiters : /\ revealed[g] \in Int /\ revealed'[g] \in Int
                          /\ revealed[g] <= revealed'[g]
                          /\ g # h => revealed'[g] = revealed[g]
  BY <1>1, EscrowConstants DEF PanelInv, VotesTyped
<1>4. \A o \in Arbiters \X (1..R) :
        o \in claim \/ rungs[o] = "claimed" => o[2] <= revealed'[o[1]]
  <2> SUFFICES ASSUME NEW o \in Arbiters \X (1..R), o \in claim \/ rungs[o] = "claimed"
               PROVE  o[2] <= revealed'[o[1]]
    OBVIOUS
  <2>1. o[2] <= revealed[o[1]] /\ o[1] \in Arbiters /\ o[2] \in Int
    BY DEF PanelInv, Vouched
  <2> QED
    BY <1>3, <2>1
<1>5. \A g \in Arbiters \ Faulty : revealed'[g] >= 1 => Voted(revealed'[g])
  <2> SUFFICES ASSUME NEW g \in Arbiters \ Faulty, revealed'[g] >= 1
               PROVE  Voted(revealed'[g])
    OBVIOUS
  <2>1. CASE g = h
    <3>1. revealed'[g] = w
      BY <1>1, <2>1 DEF PanelInv, VotesTyped
    <3>2. Voted(w)
      BY <1>1, <2>1, QuorumIsHonest
    <3> QED
      BY <3>1, <3>2
  <2>2. CASE g # h
    <3>1. revealed'[g] = revealed[g]
      BY <1>3, <2>2
    <3> QED
      BY <3>1 DEF PanelInv, Vouched
  <2> QED
    BY <2>1, <2>2
<1>6. Vouched'
  BY <1>1, <1>4, <1>5 DEF Vouched, Voted
<1> QED
  BY <1>2, <1>6 DEF PanelInv

\* The other steps reveal nothing and vote for nothing.
LEMMA OthersVouched ==
  ASSUME Judging!ConstantsOK, PanelInv,
         \/ \E missing \in {{}} \cup {{o} : o \in Judging!Output} : Judging!Fund(missing)
         \/ Judging!VerifyFunding \/ Judging!BeginRedeem \/ Judging!Redeem
         \/ Judging!RefundStatus \/ Judging!Refund \/ Judging!Tick
         \/ UNCHANGED Judging!vars
  PROVE  PanelInv'
<1>1. UNCHANGED <<votes, revealed>>
  BY DEF Judging!Fund, Judging!VerifyFunding, Judging!BeginRedeem, Judging!Redeem,
         Judging!RefundStatus, Judging!Refund, Judging!Tick, Judging!panel, Judging!vars
<1>2. /\ rungs' \in [Arbiters \X (1..R) -> {"none", "locked", "claimed", "refunded"}]
      /\ claim' \subseteq Arbiters \X (1..R)
  BY DEF PanelInv, VotesTyped, Judging!Fund, Judging!VerifyFunding, Judging!BeginRedeem,
     Judging!Redeem, Judging!RefundStatus, Judging!Refund, Judging!Tick, Judging!vars,
     Judging!payerVars, Judging!payeeVars, Judging!With, Judging!Output, Judging!Rung,
     Judging!Outstanding, Judging!Revealed
<1>3. ASSUME NEW o \in Arbiters \X (1..R), o \in claim' \/ rungs'[o] = "claimed"
      PROVE  o[2] <= revealed[o[1]]
  BY <1>3 DEF PanelInv, VotesTyped, Vouched, Judging!Fund, Judging!VerifyFunding,
     Judging!BeginRedeem, Judging!Redeem, Judging!RefundStatus, Judging!Refund,
     Judging!Tick, Judging!vars, Judging!payerVars, Judging!payeeVars, Judging!With,
     Judging!Output, Judging!Rung, Judging!Outstanding, Judging!Revealed
<1>4. VotesTyped'
  BY <1>1, <1>2 DEF PanelInv, VotesTyped
<1>5. Vouched'
  BY <1>1, <1>3 DEF PanelInv, Vouched, Voted
<1> QED
  BY <1>4, <1>5 DEF PanelInv

\* A minority of faulty arbiters gives away their own rungs and no others, for
\* every panel, quorum and number of rungs (_count_quorum and reveal of
\* escrow.py).
THEOREM DefectionIsBounded ==
  ASSUME Judging!ConstantsOK
  PROVE  Judging!Spec => []Judging!DefectionBounded
<1>1. CASE Cardinality(Faulty) < K
  <2>1. Judging!Init => PanelInv
    BY EscrowConstants DEF Judging!Init, Judging!Honest, Judging!Output, Judging!Rung,
       PanelInv, VotesTyped, Vouched
  <2>2. PanelInv /\ [Judging!Next]_(Judging!vars) => PanelInv'
    BY <1>1, VotesStand, RevealsAreVouched, OthersVouched, Zenon DEF Judging!Next
  <2>3. PanelInv => Judging!DefectionBounded
    <3> SUFFICES ASSUME PanelInv, NEW h \in Arbiters \ Faulty, NEW r \in 1..R,
                        rungs[<<h, r>>] = "claimed"
                 PROVE  \E g \in Arbiters \ Faulty : \E v \in votes[g] : v.award >= r
      BY DEF Judging!DefectionBounded, Judging!Honest, Judging!Rung
    <3>1. r <= revealed[h]
      BY DEF PanelInv, Vouched
    <3>2. revealed[h] \in -1..R /\ Voted(revealed[h])
      BY <3>1, EscrowConstants DEF PanelInv, VotesTyped, Vouched
    <3>3. PICK g \in Arbiters \ Faulty : \E v \in votes[g] : v.award >= revealed[h]
      BY <3>2 DEF Voted
    <3>4. PICK v \in votes[g] : v.award >= revealed[h]
      BY <3>3
    <3>5. v.award \in 0..R
      BY <3>4 DEF PanelInv, VotesTyped, Judging!Vote, Judging!Award
    <3> QED
      BY <3>1, <3>2, <3>4, <3>5, EscrowConstants
  <2> QED
    BY <2>1, <2>2, <2>3, PTL DEF Judging!Spec
<1>2. CASE ~(Cardinality(Faulty) < K)
  <2>1. Judging!DefectionBounded
    BY <1>2 DEF Judging!DefectionBounded, Judging!Cardinality, Cardinality
  <2> QED
    BY <2>1, PTL
<1> QED
  BY <1>1, <1>2

\* Votes are votes, whatever the quorum is.
VotesKept == votes \in [Arbiters \ Faulty -> SUBSET Judging!Vote]

LEMMA VotesKeepTypes ==
  Judging!Spec => []VotesKept
<1>1. Judging!Init => VotesKept
  BY DEF Judging!Init, Judging!Honest, VotesKept
<1>2. VotesKept /\ [Judging!Next]_(Judging!vars) => VotesKept'
  <2> SUFFICES ASSUME VotesKept, [Judging!Next]_(Judging!vars) PROVE VotesKept'
    OBVIOUS
  <2>1. ASSUME NEW h \in Judging!Honest, NEW v \in Judging!Vote, Judging!CastVote(h, v)
        PROVE  VotesKept'
    BY <2>1 DEF Judging!CastVote, Judging!Honest, VotesKept
  <2>2. ASSUME NEW h \in Arbiters, NEW w \in Judging!Award, Judging!Reveal(h, w)
        PROVE  VotesKept'
    BY <2>2 DEF Judging!Reveal, VotesKept
  <2>3. CASE \E missing \in {{}} \cup {{o} : o \in Judging!Output} : Judging!Fund(missing)
    BY <2>3 DEF Judging!Fund, Judging!panel, VotesKept
  <2>4. CASE \/ Judging!VerifyFunding \/ Judging!BeginRedeem \/ Judging!Redeem
             \/ Judging!RefundStatus \/ Judging!Refund \/ Judging!Tick
             \/ UNCHANGED Judging!vars
    BY <2>4 DEF Judging!VerifyFunding, Judging!BeginRedeem, Judging!Redeem,
       Judging!RefundStatus, Judging!Refund, Judging!Tick, Judging!panel, Judging!vars,
       VotesKept
  <2> QED
    BY <2>1, <2>2, <2>3, <2>4 DEF Judging!Next
<1> QED
  BY <1>1, <1>2, PTL DEF Judging!Spec

LEMMA EscrowSafe ==
  ASSUME Judging!ConstantsOK, RedeemsTwice
  PROVE  Judging!Spec =>
           [](Judging!TypeOK /\ Judging!AwardedIsPaid /\ Judging!DefectionBounded)
<1>1. Judging!Spec => [](JudgeTyped /\ HandsTyped /\ Judging!AwardedIsPaid)
  BY AwardsArePaid
<1>2. Judging!Spec => []Judging!DefectionBounded
  BY DefectionIsBounded
<1>3. Judging!Spec => []VotesKept
  BY VotesKeepTypes
<1>4. JudgeTyped /\ HandsTyped /\ VotesKept => Judging!TypeOK
  BY DEF JudgeTyped, HandsTyped, VotesKept, Judging!TypeOK, Judging!Output, Judging!Rung,
     Judging!Honest, Judging!Never
<1> QED
  BY <1>1, <1>2, <1>3, <1>4, PTL

\* No refund after delivery, for every panel and number of rungs: what an
\* honest arbiter revealed by the decision deadline is not taken back from a
\* payee that verified its funding (compute_deadlines, verify_funding, redeem
\* and refund_expired of escrow.py).
THEOREM EscrowIsHonoured ==
  ASSUME Judging!ConstantsOK, RedeemsTwice
  PROVE  ProtocolSpec => []EscrowHonoured
<1>1. ProtocolInit /\ protocol = "escrow" => Judging!Init
  BY Zenon DEF ProtocolInit
<1>2. protocol = "escrow" /\ [ProtocolNext]_protocolVars =>
        (protocol = "escrow")' /\ [Judging!Next]_(Judging!vars)
  BY DEF ProtocolNext, protocolVars, escrowVars, Judging!vars
<1>3. ~(protocol = "escrow") /\ [ProtocolNext]_protocolVars => ~(protocol = "escrow")'
  BY DEF ProtocolNext, protocolVars
<1>4. Judging!Spec => [](Judging!TypeOK /\ Judging!AwardedIsPaid /\ Judging!DefectionBounded)
  BY EscrowSafe
<1>5. EscrowHonoured <=> (protocol = "escrow" => Judging!TypeOK /\ Judging!AwardedIsPaid /\ Judging!DefectionBounded)
  BY DEF EscrowHonoured
<1> QED
  BY <1>1, <1>2, <1>3, <1>4, <1>5, PTL DEF ProtocolSpec, Judging!Spec

-----------------------------------------------------------------------------
(***************************************************************************)
(* Channel.                                                                *)
(***************************************************************************)
LEMMA ChannelConstants ==
  ASSUME Drawing!ConstantsOK
  PROVE  /\ N \in Nat \ {0} /\ Capacity \in Nat \ {0} /\ Garbage \subseteq 1..N
         /\ Deadline \in Nat /\ Grace \in Nat /\ SettleMargin \in Nat
         /\ MinLifetime \in Nat /\ Latency \in Nat /\ ChannelEnd \in Nat
BY DEF Drawing!ConstantsOK

\* The tranches are numbered without a gap.
LEMMA TranchesAre ==
  ASSUME Drawing!ConstantsOK
  PROVE  Last \in Nat \ {0} /\ Drawing!Tranches = 1..Last
<1> USE ChannelConstants
<1>1. (N - 1) \div Capacity \in Nat /\ ((N - 1) \div Capacity) * Capacity <= N - 1
  BY DEF Last
<1>2. Last \in Nat \ {0}
  BY <1>1 DEF Last
<1>3. ASSUME NEW i \in 1..N PROVE (i - 1) \div Capacity + 1 \in 1..Last
  <2>1. i - 1 \in Nat /\ i - 1 <= N - 1
    BY <1>3
  <2>2. (i - 1) \div Capacity \in Nat /\ (i - 1) \div Capacity <= (N - 1) \div Capacity
    BY <2>1
  <2> QED
    BY <1>1, <2>2 DEF Last
<1>4. ASSUME NEW t \in 1..Last PROVE \E i \in 1..N : t = (i - 1) \div Capacity + 1
  <2>1. t - 1 \in Nat /\ t - 1 <= (N - 1) \div Capacity
    BY <1>1, <1>2, <1>4 DEF Last
  <2>2. (t - 1) * Capacity \in Nat
    BY <2>1
  <2>3. (t - 1) * Capacity <= N - 1
    BY <1>1, <2>1
  <2>4. ((t - 1) * Capacity) \div Capacity = t - 1
    BY <2>1
  <2>5. (t - 1) * Capacity + 1 \in 1..N
    BY <2>2, <2>3
  <2>6. t = ((t - 1) * Capacity + 1 - 1) \div Capacity + 1
    BY <2>1, <2>2, <2>4
  <2> QED
    BY <2>5, <2>6
<1>5. Drawing!Tranches = {(i - 1) \div Capacity + 1 : i \in 1..N}
  BY DEF Drawing!Tranches, Drawing!Tranche, Drawing!Increment
<1> QED
  BY <1>2, <1>3, <1>4, <1>5

ChannelTyped ==
  /\ time \in Nat /\ time <= ChannelEnd /\ call_end \in Nat
  /\ entry \in [1..N -> {"none", "locked", "claimed", "refunded"}]
  /\ payer \in {"closed", "open", "status", "refund"}
  /\ payee \in {"new", "idle", "settling", "committing"}
  /\ drawn \subseteq 1..N /\ unspent \subseteq 1..N /\ held \subseteq 1..N
  /\ settled \subseteq held /\ owed \subseteq held
  /\ at \in [{"payer", "payee"} -> Int]

\* What can be claimed, and what is refunded.
Standing ==
  /\ held \cap Garbage = {}
  /\ payer = "closed" => payee = "new"
  /\ payee = "new" => held = {}
  /\ payee # "new" => \A i \in 1..N : entry[i] # "none"
  /\ payer \in {"status", "refund"} => time >= Deadline
  /\ \A i \in 1..N : entry[i] = "refunded" => time >= Deadline

\* What is claimed is counted as settled.
Counted == \A i \in 1..N : i \in settled <=> entry[i] = "claimed"

\* The tranche at hand is in time, and the ones before it are claimed.
Settling ==
  /\ payee \in {"settling", "committing"} =>
       /\ at["payee"] \in 1..(Last + 1)
       /\ owed = held
       /\ time <= call_end
       /\ call_end < Deadline - Grace - SettleMargin + at["payee"] * Latency
       /\ \A i \in owed : Drawing!Tranche(i) < at["payee"] => entry[i] = "claimed"
  /\ payee = "committing" => at["payee"] <= Last
  /\ payee \in {"new", "idle"} => \A i \in owed : entry[i] = "claimed"

ChannelInv == ChannelTyped /\ Standing /\ (~mishap => Counted /\ Settling)

LEMMA ChannelInit ==
  ASSUME Drawing!ConstantsOK, Drawing!Init
  PROVE  ChannelInv
<1> USE ChannelConstants DEF Drawing!Init, Drawing!Increment, Drawing!Never
<1>1. ChannelTyped
  BY DEF ChannelTyped
<1>2. Standing /\ Counted /\ Settling
  BY DEF Standing, Counted, Settling
<1> QED
  BY <1>1, <1>2, Zenon DEF ChannelInv

LEMMA ChannelKeepsTypes ==
  ASSUME Drawing!ConstantsOK, ChannelTyped, [Drawing!Next]_(Drawing!vars)
  PROVE  ChannelTyped'
<1> USE ChannelConstants
    DEF Drawing!payerVars, Drawing!payeeVars, Drawing!history, Drawing!Increment,
        Drawing!Never
<1>1. \/ Drawing!FundTranche \/ Drawing!Accept
      \/ \E k \in 1..N : Drawing!Draw(k)
      \/ \E k \in drawn, x \in drawn : Drawing!OnDraw(k, x)
      \/ \E force \in BOOLEAN : Drawing!BeginSettle(force)
      \/ Drawing!SkipTranche \/ Drawing!Evaluate \/ Drawing!Rejected \/ Drawing!Commit
      \/ Drawing!CommitUnanswered \/ Drawing!SettleReturns
      \/ Drawing!BeginRefund \/ Drawing!RefundStatus \/ Drawing!RefundTranche
      \/ Drawing!RefundReturns \/ Drawing!Tick \/ UNCHANGED Drawing!vars
  BY DEF Drawing!Next
<1>2. entry' \in [1..N -> {"none", "locked", "claimed", "refunded"}]
  <2>1. \/ entry' = entry
        \/ \E set : entry' = Drawing!With("locked", set) \/ entry' = Drawing!With("claimed", set)
                      \/ entry' = Drawing!With("refunded", set)
    BY <1>1 DEF Drawing!FundTranche, Drawing!Accept, Drawing!Draw, Drawing!OnDraw,
       Drawing!BeginSettle, Drawing!SkipTranche, Drawing!Evaluate, Drawing!Rejected,
       Drawing!Commit, Drawing!CommitUnanswered, Drawing!SettleReturns,
       Drawing!BeginRefund, Drawing!RefundStatus, Drawing!RefundTranche,
       Drawing!RefundReturns, Drawing!Tick, Drawing!vars
  <2> QED
    BY <2>1 DEF ChannelTyped, Drawing!With
<1>3. at' \in [{"payer", "payee"} -> Int]
  <2>1. \/ at' = at
        \/ \E p \in {"payer", "payee"} : \/ at' = [at EXCEPT ![p] = 1]
                                         \/ at' = [at EXCEPT ![p] = @ + 1]
    BY <1>1 DEF Drawing!FundTranche, Drawing!Accept, Drawing!Draw, Drawing!OnDraw,
       Drawing!BeginSettle, Drawing!SkipTranche, Drawing!Evaluate, Drawing!Rejected,
       Drawing!Commit, Drawing!CommitUnanswered, Drawing!SettleReturns,
       Drawing!BeginRefund, Drawing!RefundStatus, Drawing!RefundTranche,
       Drawing!RefundReturns, Drawing!Tick, Drawing!vars, Drawing!NextTranche
  <2> QED
    BY <2>1 DEF ChannelTyped
<1>4. time' \in Nat /\ time' <= ChannelEnd /\ call_end' \in Nat
  BY SMTT(30), <1>1 DEF ChannelTyped, Drawing!FundTranche, Drawing!Accept, Drawing!Draw,
     Drawing!OnDraw, Drawing!BeginSettle, Drawing!SkipTranche, Drawing!Evaluate,
     Drawing!Rejected, Drawing!Commit, Drawing!CommitUnanswered, Drawing!SettleReturns,
     Drawing!BeginRefund, Drawing!RefundStatus, Drawing!RefundTranche,
     Drawing!RefundReturns, Drawing!Tick, Drawing!vars
<1>5. /\ payer' \in {"closed", "open", "status", "refund"}
      /\ payee' \in {"new", "idle", "settling", "committing"}
      /\ drawn' \subseteq 1..N /\ unspent' \subseteq 1..N
  BY <1>1 DEF ChannelTyped, Drawing!FundTranche, Drawing!Accept, Drawing!Draw,
     Drawing!OnDraw, Drawing!BeginSettle, Drawing!SkipTranche, Drawing!Evaluate,
     Drawing!Rejected, Drawing!Commit, Drawing!CommitUnanswered, Drawing!SettleReturns,
     Drawing!BeginRefund, Drawing!RefundStatus, Drawing!RefundTranche,
     Drawing!RefundReturns, Drawing!Tick, Drawing!vars, Drawing!Members
<1>6. held' \subseteq 1..N /\ settled' \subseteq held' /\ owed' \subseteq held'
  BY <1>1 DEF ChannelTyped, Drawing!FundTranche, Drawing!Accept, Drawing!Draw,
     Drawing!OnDraw, Drawing!BeginSettle, Drawing!SkipTranche, Drawing!Evaluate,
     Drawing!Rejected, Drawing!Commit, Drawing!CommitUnanswered, Drawing!SettleReturns,
     Drawing!BeginRefund, Drawing!RefundStatus, Drawing!RefundTranche,
     Drawing!RefundReturns, Drawing!Tick, Drawing!vars, Drawing!Members, Drawing!Walked,
     Drawing!Todo
<1> QED
  BY <1>2, <1>3, <1>4, <1>5, <1>6, Zenon DEF ChannelTyped

LEMMA StandingKept ==
  ASSUME Drawing!ConstantsOK, ChannelTyped, Standing, [Drawing!Next]_(Drawing!vars)
  PROVE  Standing'
<1> USE ChannelConstants
    DEF Drawing!payerVars, Drawing!payeeVars, Drawing!history, Drawing!Increment
<1>1. CASE Drawing!FundTranche
  <2>1. /\ payer = "closed" /\ payee = "new" /\ held = {}
        /\ payer' \in {"closed", "open"} /\ UNCHANGED <<time, payee, held>>
        /\ \A i \in 1..N : entry'[i] = "locked" \/ entry'[i] = entry[i]
    BY <1>1 DEF Drawing!FundTranche, Drawing!With, Standing
  <2> QED
    BY <2>1 DEF Standing
<1>2. CASE Drawing!Accept
  BY <1>2 DEF Drawing!Accept, Drawing!In, Standing
<1>3. CASE \E k \in drawn, x \in drawn : Drawing!OnDraw(k, x)
  <2>1. /\ payee = "idle" /\ UNCHANGED <<time, entry, payer, payee>>
        /\ held' \cap Garbage = {}
    <3>1. PICK k \in drawn, x \in drawn : Drawing!OnDraw(k, x)
      BY <1>3
    <3>2. \A i \in Drawing!Walked(k, x) : i \notin Garbage
      <4> SUFFICES ASSUME NEW i \in Drawing!Walked(k, x) PROVE i \notin Garbage
        OBVIOUS
      <4>1. i \in 1..N /\ k \in 1..N /\ i <= k
            /\ \A j \in i..k : Drawing!Opens(x - (k - j), j)
        BY DEF Drawing!Walked, Drawing!Members, ChannelTyped
      <4> QED
        BY <4>1 DEF Drawing!Opens
    <3> QED
      BY <3>1, <3>2 DEF Drawing!OnDraw, Standing
  <2> QED
    BY <2>1 DEF Standing
<1>4. CASE \/ \E k \in Drawing!Increment : Drawing!Draw(k)
           \/ \E force \in BOOLEAN : Drawing!BeginSettle(force)
           \/ Drawing!SkipTranche \/ Drawing!Evaluate \/ Drawing!Rejected
           \/ Drawing!SettleReturns
  BY <1>4 DEF Drawing!Draw, Drawing!BeginSettle, Drawing!SkipTranche, Drawing!Evaluate,
     Drawing!Rejected, Drawing!SettleReturns, Standing
<1>5. CASE Drawing!Commit \/ Drawing!CommitUnanswered
  <2>1. /\ payee = "committing" /\ payee' \in {"settling", "idle"}
        /\ UNCHANGED <<time, payer, held>>
        /\ \A i \in 1..N : entry'[i] = "claimed" \/ entry'[i] = entry[i]
    BY <1>5 DEF Drawing!Commit, Drawing!CommitUnanswered, Drawing!With
  <2> QED
    BY <2>1 DEF Standing
<1>6. CASE Drawing!BeginRefund \/ Drawing!RefundStatus \/ Drawing!RefundReturns
  BY <1>6 DEF Drawing!BeginRefund, Drawing!RefundStatus, Drawing!RefundReturns, Standing
<1>7. CASE Drawing!RefundTranche
  <2>1. /\ payer = "refund" /\ payer' \in {"status", "open"}
        /\ UNCHANGED <<time, payee, held>>
        /\ \A i \in 1..N : entry'[i] = "refunded" \/ entry'[i] = entry[i]
    BY <1>7 DEF Drawing!RefundTranche, Drawing!With, Drawing!In
  <2> QED
    BY <2>1 DEF Standing
<1>8. CASE Drawing!Tick
  BY <1>8 DEF Drawing!Tick, ChannelTyped, Standing
<1>9. CASE UNCHANGED Drawing!vars
  BY <1>9 DEF Drawing!vars, Standing
<1> QED
  BY <1>1, <1>2, <1>3, <1>4, <1>5, <1>6, <1>7, <1>8, <1>9 DEF Drawing!Next

\* What the payee is about to claim is there to be claimed.
LEMMA AllRedeemable ==
  ASSUME Drawing!ConstantsOK, SettlesInTime, ChannelTyped, Standing, Counted, Settling,
         payee \in {"settling", "committing"}, at["payee"] <= Last
  PROVE  time < Deadline /\ Drawing!Redeemable(at["payee"])
<1> USE ChannelConstants, TranchesAre
<1>1. PICK t \in 1..Last : t = at["payee"]
  BY DEF Settling
<1>2. PICK soon \in Nat : soon = t * Latency
  BY <1>1
<1>3. PICK late \in Nat : late = Last * Latency
  BY <1>1
<1>4. soon <= late
  BY <1>1, <1>2, <1>3
<1>5. time <= call_end /\ call_end < Deadline - Grace - SettleMargin + soon
  BY <1>1, <1>2 DEF Settling
<1>6. time < Deadline
  <2>1. late <= Grace + SettleMargin
    BY <1>3, Zenon DEF SettlesInTime
  <2>2. time \in Nat /\ call_end \in Nat
    BY DEF ChannelTyped
  <2>3. /\ Deadline \in Nat /\ Grace \in Nat /\ SettleMargin \in Nat
        /\ soon \in Nat /\ late \in Nat
    BY <1>2, <1>3
  <2> HIDE ChannelConstants, TranchesAre
  <2> QED
    BY <2>1, <2>2, <2>3, <1>4, <1>5
<1>7. ASSUME NEW i \in Drawing!Todo(at["payee"])
      PROVE  entry[i] = "locked" /\ i \notin Garbage
  <2>1. i \in held /\ i \in 1..N /\ i \notin settled
    BY <1>7 DEF Drawing!Todo, ChannelTyped
  <2>2. entry[i] \notin {"none", "claimed", "refunded"}
    BY <1>6, <2>1 DEF Standing, Counted, ChannelTyped
  <2> QED
    BY <2>1, <2>2 DEF Standing, ChannelTyped
<1> QED
  BY <1>6, <1>7 DEF Drawing!Redeemable

\* The loop's own steps.
LEMMA SettleSteps ==
  ASSUME Drawing!ConstantsOK, SettlesInTime, ChannelTyped, Standing, Counted, Settling,
         \/ Drawing!BeginSettle(FALSE) \/ Drawing!SkipTranche \/ Drawing!Evaluate
         \/ Drawing!Rejected \/ Drawing!Commit \/ Drawing!SettleReturns
  PROVE  Counted' /\ Settling'
<1> USE ChannelConstants, TranchesAre DEF Drawing!payerVars, Drawing!history
<1>t. /\ time \in Nat /\ call_end \in Nat /\ owed \subseteq held /\ held \subseteq 1..N
      /\ settled \subseteq held
      /\ at \in [{"payer", "payee"} -> Int]
  BY DEF ChannelTyped
<1>d. ASSUME NEW i \in 1..N PROVE Drawing!Tranche(i) \in 1..Last
  BY <1>d DEF Drawing!Tranches, Drawing!Increment
<1>m. ASSUME NEW t \in Int
      PROVE  t * Latency \in Int /\ (t + 1) * Latency = t * Latency + Latency
  OBVIOUS
<1>1. CASE Drawing!BeginSettle(FALSE)
  <2>1. /\ payee = "idle" /\ payee' = "settling" /\ at'["payee"] = 1
        /\ call_end' = time + Latency /\ time < Deadline - Grace - SettleMargin
        /\ owed' = held /\ UNCHANGED <<time, entry, held, settled>>
    BY <1>1, <1>t DEF Drawing!BeginSettle, Drawing!InTime
  <2>2. \A i \in owed' : ~(Drawing!Tranche(i) < at'["payee"])
    BY SMTT(30), <1>t, <1>d, <2>1
  <2>3. call_end' < Deadline - Grace - SettleMargin + at'["payee"] * Latency
    BY <1>t, <2>1
  <2>4. time' <= call_end' /\ at'["payee"] \in 1..(Last + 1)
    BY SMTT(30), <1>t, <2>1
  <2> QED
    BY <2>1, <2>2, <2>3, <2>4 DEF Counted, Settling
<1>2. CASE Drawing!SkipTranche
  <2>1. /\ payee = "settling" /\ payee' = payee /\ at["payee"] \in 1..Last
        /\ Drawing!Todo(at["payee"]) = {}
        /\ at'["payee"] = at["payee"] + 1
        /\ UNCHANGED <<time, call_end, entry, held, owed, settled>>
    BY <1>2, <1>t DEF Drawing!SkipTranche, Drawing!NextTranche, Drawing!payeeVars
  <2>2. ASSUME NEW i \in owed, Drawing!Tranche(i) < at["payee"] + 1
        PROVE  entry[i] = "claimed"
    <3>1. CASE Drawing!Tranche(i) < at["payee"]
      BY <2>1, <3>1 DEF Settling
    <3>2. CASE Drawing!Tranche(i) = at["payee"]
      BY <1>t, <2>1, <3>2 DEF Counted, Drawing!Todo, Drawing!Members, Drawing!Increment
    <3> QED
      BY <1>t, <1>d, <2>1, <2>2, <3>1, <3>2
  <2>3. PICK soon \in Int : soon = at["payee"] * Latency
    BY <1>t, <1>m
  <2>4. at'["payee"] * Latency = soon + Latency
    BY <1>t, <1>m, <2>1, <2>3
  <2>5. call_end < Deadline - Grace - SettleMargin + soon
    BY <2>1, <2>3 DEF Settling
  <2>6. call_end < Deadline - Grace - SettleMargin + at'["payee"] * Latency
    BY SMTT(30), <1>t, <2>4, <2>5
  <2>7. time <= call_end /\ owed = held /\ at'["payee"] \in 1..(Last + 1)
    BY SMTT(30), <2>1 DEF Settling
  <2> QED
    BY <2>1, <2>2, <2>6, <2>7 DEF Counted, Settling
<1>3. CASE Drawing!Evaluate
  <2>1. /\ payee = "settling" /\ payee' = "committing" /\ at["payee"] \in 1..Last
        /\ UNCHANGED <<time, call_end, entry, held, owed, settled, at>>
    BY <1>3 DEF Drawing!Evaluate
  <2> QED
    BY <2>1 DEF Counted, Settling
\* A tranche that is in time is never refused.
<1>4. CASE Drawing!Rejected
  <2>1. /\ payee \in {"settling", "committing"} /\ at["payee"] <= Last
        /\ ~(time < Deadline /\ Drawing!Redeemable(at["payee"]))
    BY <1>4 DEF Drawing!Rejected, Settling
  <2> QED
    BY <2>1, AllRedeemable
<1>5. CASE Drawing!Commit
  <2>1. /\ payee = "committing" /\ payee' = "settling"
        /\ at'["payee"] = at["payee"] + 1 /\ call_end' = time + Latency
        /\ UNCHANGED <<time, held, owed>>
        /\ settled' = settled \cup Drawing!Todo(at["payee"])
        /\ entry' = [i \in 1..N |->
                       IF i \in Drawing!Todo(at["payee"]) THEN "claimed" ELSE entry[i]]
    BY <1>5, <1>t DEF Drawing!Commit, Drawing!NextTranche, Drawing!With, Drawing!Increment
  <2>2. Counted'
    BY <1>t, <2>1 DEF Counted
  <2>3. ASSUME NEW i \in owed, Drawing!Tranche(i) < at["payee"] + 1
        PROVE  entry'[i] = "claimed"
    <3>0. i \in 1..N /\ i \in held
      BY <1>t
    <3>1. CASE Drawing!Tranche(i) < at["payee"]
      <4>1. entry[i] = "claimed"
        BY <2>1, <3>1 DEF Settling
      <4> QED
        BY <2>1, <3>0, <4>1
    <3>2. CASE Drawing!Tranche(i) = at["payee"]
      <4>1. i \in settled'
        BY <2>1, <3>0, <3>2 DEF Drawing!Todo, Drawing!Members, Drawing!Increment
      <4> QED
        BY <2>2, <3>0, <4>1 DEF Counted
    <3>3. Drawing!Tranche(i) < at["payee"] \/ Drawing!Tranche(i) = at["payee"]
      BY <1>t, <1>d, <2>3, <3>0
    <3> QED
      BY <3>1, <3>2, <3>3
  <2>4. PICK soon \in Int : soon = at["payee"] * Latency
    BY <1>t, <1>m
  <2>5. at'["payee"] * Latency = soon + Latency
    BY <1>t, <1>m, <2>1, <2>4
  <2>6. time <= call_end /\ call_end < Deadline - Grace - SettleMargin + soon
    BY <2>1, <2>4 DEF Settling
  <2>7. call_end' < Deadline - Grace - SettleMargin + at'["payee"] * Latency
    <3>1. time \in Nat /\ call_end \in Nat /\ soon \in Int
      BY <1>t, <2>4
    <3>2. time + Latency < Deadline - Grace - SettleMargin + (soon + Latency)
      BY SMTT(30), <2>6, <3>1
    <3> QED
      BY <2>1, <2>5, <3>2
  <2>8. time' <= call_end' /\ owed' = held' /\ at'["payee"] \in 1..(Last + 1)
    <3>1. at["payee"] \in 1..(Last + 1) /\ at["payee"] <= Last /\ owed = held
      BY <2>1 DEF Settling
    <3> QED
      BY <1>t, <2>1, <3>1
  <2> QED
    BY <2>1, <2>2, <2>3, <2>7, <2>8 DEF Settling
<1>6. CASE Drawing!SettleReturns
  <2>1. /\ payee = "settling" /\ payee' = "idle" /\ at["payee"] \notin 1..Last
        /\ UNCHANGED <<time, entry, held, owed, settled>>
    BY <1>6 DEF Drawing!SettleReturns
  <2>2. at["payee"] = Last + 1
    <3>1. at["payee"] \in 1..(Last + 1)
      BY <2>1 DEF Settling
    <3> QED
      BY <2>1, <3>1
  <2>3. \A i \in owed : entry[i] = "claimed"
    BY SMTT(30), <1>t, <1>d, <2>1, <2>2 DEF Settling
  <2> QED
    BY <2>1, <2>3 DEF Counted, Settling
<1> QED
  BY <1>1, <1>2, <1>3, <1>4, <1>5, <1>6

\* The steps of the payer, and of the payee outside settle.
LEMMA OtherSteps ==
  ASSUME Drawing!ConstantsOK, ChannelTyped, Standing, Counted, Settling,
         \/ Drawing!FundTranche \/ Drawing!Accept
         \/ \E k \in Drawing!Increment : Drawing!Draw(k)
         \/ \E k \in drawn, x \in drawn : Drawing!OnDraw(k, x)
         \/ Drawing!BeginRefund \/ Drawing!RefundStatus \/ Drawing!RefundTranche
         \/ Drawing!RefundReturns \/ Drawing!Tick \/ UNCHANGED Drawing!vars
  PROVE  Counted' /\ Settling'
<1> USE ChannelConstants
    DEF Drawing!payerVars, Drawing!payeeVars, Drawing!history, Drawing!Increment
<1>1. CASE Drawing!FundTranche
  <2>1. /\ payee = "new" /\ held = {} /\ owed = {} /\ settled = {}
        /\ UNCHANGED <<payee, owed, settled>>
        /\ \A i \in 1..N : entry'[i] = "locked" \/ entry'[i] = entry[i]
    BY <1>1 DEF Drawing!FundTranche, Drawing!With, Standing, ChannelTyped
  <2> QED
    BY <2>1 DEF Counted, Settling
<1>2. CASE Drawing!Accept
  BY <1>2 DEF Drawing!Accept, Counted, Settling
<1>3. CASE \E k \in drawn, x \in drawn : Drawing!OnDraw(k, x)
  BY <1>3 DEF Drawing!OnDraw, Counted, Settling
<1>4. CASE (\E k \in Drawing!Increment : Drawing!Draw(k)) \/ UNCHANGED Drawing!vars
  BY <1>4 DEF Drawing!Draw, Drawing!vars, Counted, Settling
<1>5. CASE Drawing!BeginRefund \/ Drawing!RefundStatus
  BY <1>5 DEF Drawing!BeginRefund, Drawing!RefundStatus, Counted, Settling
<1>6. CASE Drawing!RefundReturns
  <2>1. /\ at'["payee"] = at["payee"]
        /\ UNCHANGED <<time, entry, payee, held, settled, call_end, owed>>
    BY <1>6 DEF Drawing!RefundReturns, ChannelTyped
  <2> QED
    BY <2>1 DEF Counted, Settling
\* What was claimed is not refunded.
<1>7. CASE Drawing!RefundTranche
  <2>1. /\ at'["payee"] = at["payee"] /\ UNCHANGED <<time, payee, held, settled, call_end, owed>>
        /\ \A i \in 1..N : \/ entry'[i] = entry[i]
                           \/ entry[i] = "locked" /\ entry'[i] = "refunded"
    BY <1>7 DEF Drawing!RefundTranche, Drawing!With, Drawing!In, Drawing!NextTranche,
       ChannelTyped
  <2>2. \A i \in 1..N : entry'[i] = "claimed" <=> entry[i] = "claimed"
    BY <2>1
  <2>3. owed \subseteq 1..N
    BY DEF ChannelTyped
  <2>4. Counted'
    BY <2>1, <2>2 DEF Counted
  <2>5. Settling'
    BY <2>1, <2>2, <2>3 DEF Settling
  <2> QED
    BY <2>4, <2>5
<1>8. CASE Drawing!Tick
  BY <1>8 DEF Drawing!Tick, ChannelTyped, Counted, Settling
<1> QED
  BY <1>1, <1>2, <1>3, <1>4, <1>5, <1>6, <1>7, <1>8

\* Where the two loops are, and how late a call may end.
LoopsTyped ==
  /\ at["payer"] \in 1..(Last + 1) /\ at["payee"] \in 1..(Last + 1)
  /\ payer \in {"closed", "refund"} => at["payer"] <= Last
  /\ payee = "committing" => at["payee"] <= Last
  /\ call_end <= ChannelEnd + 1 + Latency /\ mishap \in BOOLEAN

LEMMA LastTranche ==
  ASSUME Drawing!ConstantsOK
  PROVE  Drawing!Max(Drawing!Tranches) = Last
<1>1. Last \in Nat \ {0} /\ Drawing!Tranches = 1..Last
  BY TranchesAre
<1>2. Last \in 1..Last /\ \A t \in 1..Last : Last >= t
  BY <1>1
<1>3. \A x \in 1..Last : (\A t \in 1..Last : x >= t) => x = Last
  BY <1>1
<1> QED
  BY <1>1, <1>2, <1>3 DEF Drawing!Max

LEMMA LoopsStep ==
  ASSUME Drawing!ConstantsOK, ChannelTyped, LoopsTyped, [Drawing!Next]_(Drawing!vars)
  PROVE  LoopsTyped'
<1> USE ChannelConstants, TranchesAre
    DEF ChannelTyped, LoopsTyped, Drawing!payerVars, Drawing!payeeVars, Drawing!history,
        Drawing!Never, Drawing!NextTranche
<1>1. CASE Drawing!FundTranche
  <2>1. at["payer"] = Last => payer' = "open" /\ at' = [at EXCEPT !["payer"] = 1]
    BY <1>1, LastTranche DEF Drawing!FundTranche
  <2>2. at["payer"] # Last => payer' = payer /\ at' = [at EXCEPT !["payer"] = @ + 1]
    BY <1>1, LastTranche DEF Drawing!FundTranche
  <2>3. payer = "closed" /\ UNCHANGED <<payee, call_end, mishap>>
    BY <1>1 DEF Drawing!FundTranche
  <2>4. at["payer"] \in 1..Last /\ at["payee"] \in 1..(Last + 1)
    BY <2>3
  <2>5. at'["payer"] \in 1..Last /\ at'["payee"] = at["payee"]
    BY SMTT(30), <2>1, <2>2, <2>4
  <2> QED
    BY SMTT(30), <2>3, <2>4, <2>5
<1>2. CASE Drawing!Accept \/ Drawing!BeginRefund \/ Drawing!Tick \/ UNCHANGED Drawing!vars
  BY <1>2 DEF Drawing!Accept, Drawing!BeginRefund, Drawing!Tick, Drawing!vars
<1>3. CASE \/ \E k \in Drawing!Increment : Drawing!Draw(k)
           \/ \E k \in drawn, x \in drawn : Drawing!OnDraw(k, x)
  BY <1>3 DEF Drawing!Draw, Drawing!OnDraw
<1>4. CASE \E force \in BOOLEAN : Drawing!BeginSettle(force)
  BY SMTT(30), <1>4 DEF Drawing!BeginSettle
<1>5. CASE Drawing!SkipTranche \/ Drawing!Evaluate
  BY SMTT(30), <1>5 DEF Drawing!SkipTranche, Drawing!Evaluate
<1>6. CASE Drawing!Rejected \/ Drawing!CommitUnanswered \/ Drawing!SettleReturns
  <2>1. /\ payee' = "idle" /\ payer' = payer /\ call_end' = ChannelEnd + 1
        /\ at' = [at EXCEPT !["payee"] = 1]
    BY <1>6 DEF Drawing!Rejected, Drawing!CommitUnanswered, Drawing!SettleReturns
  <2>2. mishap' \in BOOLEAN
    BY <1>6, Zenon DEF Drawing!Rejected, Drawing!CommitUnanswered, Drawing!SettleReturns
  <2> QED
    BY SMTT(30), <2>1, <2>2
<1>7. CASE Drawing!Commit
  BY SMTT(30), <1>7 DEF Drawing!Commit
<1>8. CASE Drawing!RefundStatus \/ Drawing!RefundReturns
  BY SMTT(30), <1>8 DEF Drawing!RefundStatus, Drawing!RefundReturns
<1>9. CASE Drawing!RefundTranche
  <2>1. /\ payer = "refund" /\ payer' \in {"status", "open"}
        /\ UNCHANGED <<payee, call_end, mishap>>
        /\ at' \in {[at EXCEPT !["payer"] = @ + 1], [at EXCEPT !["payer"] = 1]}
    BY <1>9 DEF Drawing!RefundTranche
  <2>2. at["payer"] \in 1..Last /\ at["payee"] \in 1..(Last + 1)
    BY <2>1
  <2>3. at'["payer"] \in 1..(Last + 1) /\ at'["payee"] = at["payee"]
    BY SMTT(30), <2>1, <2>2
  <2> QED
    BY <2>1, <2>2, <2>3
<1> QED
  BY <1>1, <1>2, <1>3, <1>4, <1>5, <1>6, <1>7, <1>8, <1>9, Zenon DEF Drawing!Next

LEMMA DrawsArePaid ==
  ASSUME Drawing!ConstantsOK, SettlesInTime
  PROVE  Drawing!Spec => [](ChannelTyped /\ Drawing!DrawsHonoured)
<1>1. Drawing!Init => ChannelInv
  BY ChannelInit
<1>2. ChannelInv /\ [Drawing!Next]_(Drawing!vars) => ChannelInv'
  <2> SUFFICES ASSUME ChannelInv, [Drawing!Next]_(Drawing!vars) PROVE ChannelInv'
    OBVIOUS
  <2>1. ChannelTyped /\ Standing /\ ChannelTyped' /\ Standing'
    BY ChannelKeepsTypes, StandingKept, Zenon DEF ChannelInv
  <2>2. ~mishap' => /\ ~mishap
                    /\ \/ Drawing!FundTranche \/ Drawing!Accept
                       \/ \E k \in Drawing!Increment : Drawing!Draw(k)
                       \/ \E k \in drawn, x \in drawn : Drawing!OnDraw(k, x)
                       \/ Drawing!BeginRefund \/ Drawing!RefundStatus
                       \/ Drawing!RefundTranche \/ Drawing!RefundReturns
                       \/ Drawing!Tick \/ UNCHANGED Drawing!vars
                       \/ Drawing!BeginSettle(FALSE) \/ Drawing!SkipTranche
                       \/ Drawing!Evaluate \/ Drawing!Rejected \/ Drawing!Commit
                       \/ Drawing!SettleReturns
    <3>1. ASSUME NEW force \in BOOLEAN, Drawing!BeginSettle(force)
          PROVE  mishap' \/ (~mishap /\ Drawing!BeginSettle(FALSE))
      <4>1. CASE force = FALSE
        BY <3>1, <4>1, Zenon DEF Drawing!BeginSettle
      <4>2. CASE force = TRUE
        BY <3>1, <4>2, Zenon DEF Drawing!BeginSettle
      <4> QED
        BY <3>1, <4>1, <4>2, Zenon
    <3>2. Drawing!CommitUnanswered => mishap'
      BY Zenon DEF Drawing!CommitUnanswered
    <3>3. \/ Drawing!FundTranche \/ Drawing!Accept
          \/ \E k \in Drawing!Increment : Drawing!Draw(k)
          \/ \E k \in drawn, x \in drawn : Drawing!OnDraw(k, x)
          \/ Drawing!BeginRefund \/ Drawing!RefundStatus \/ Drawing!RefundTranche
          \/ Drawing!RefundReturns \/ Drawing!Tick \/ UNCHANGED Drawing!vars
          \/ Drawing!SkipTranche \/ Drawing!Evaluate \/ Drawing!Rejected \/ Drawing!Commit
          \/ Drawing!SettleReturns
          => mishap' = mishap
      BY Zenon DEF Drawing!FundTranche, Drawing!Accept, Drawing!Draw, Drawing!OnDraw,
         Drawing!BeginRefund, Drawing!RefundStatus, Drawing!RefundTranche,
         Drawing!RefundReturns, Drawing!Tick, Drawing!vars, Drawing!SkipTranche,
         Drawing!Evaluate, Drawing!Rejected, Drawing!Commit, Drawing!SettleReturns,
         Drawing!history
    <3> QED
      BY <3>1, <3>2, <3>3, Zenon DEF Drawing!Next
  <2>3. ASSUME ~mishap' PROVE Counted' /\ Settling'
    <3>1. Counted /\ Settling
      BY <2>2, <2>3, Zenon DEF ChannelInv
    <3> QED
      BY <2>1, <2>2, <2>3, <3>1, SettleSteps, OtherSteps, Zenon
  <2> QED
    BY <2>1, <2>3, Zenon DEF ChannelInv
<1>3. ChannelInv => Drawing!DrawsHonoured
  <2> SUFFICES ASSUME ChannelInv, ~mishap
               PROVE  /\ owed \cap Drawing!In("refunded") = {}
                      /\ payee = "idle" => owed \subseteq Drawing!In("claimed")
    BY Zenon DEF Drawing!DrawsHonoured
  <2>1. ChannelTyped /\ Standing /\ Counted /\ Settling
    BY Zenon DEF ChannelInv
  <2>2. \A i \in owed : i \in 1..N
    BY <2>1 DEF ChannelTyped
  <2>3. payee = "idle" => owed \subseteq Drawing!In("claimed")
    BY <2>1, <2>2 DEF Settling, Drawing!In, Drawing!Increment
  <2>4. ASSUME NEW i \in owed, entry[i] = "refunded" PROVE FALSE
    <3>1. i \in 1..N /\ time >= Deadline
      BY <2>1, <2>2, <2>4 DEF Standing
    <3>2. payee \in {"settling", "committing"} /\ ~(Drawing!Tranche(i) < at["payee"])
      BY <2>1, <2>4 DEF Settling, ChannelTyped
    <3>3. Drawing!Tranche(i) \in 1..Last
      BY <3>1, TranchesAre DEF Drawing!Tranches, Drawing!Increment
    <3>4. at["payee"] <= Last
      BY <2>1, <3>2, <3>3, TranchesAre DEF Settling
    <3> QED
      BY SMTT(30), <2>1, <3>1, <3>2, <3>4, AllRedeemable, ChannelConstants DEF ChannelTyped
  <2> QED
    BY <2>3, <2>4 DEF Drawing!In
<1>4. ChannelInv => ChannelTyped
  BY Zenon DEF ChannelInv
<1> QED
  BY <1>1, <1>2, <1>3, <1>4, PTL DEF Drawing!Spec

\* Whatever draws get lost, come late or come twice: below an increment that
\* the payee holds it holds all of its tranche, down to a garbage lock
\* (on_draw of channels.py).
THEOREM DrawsMakeUp ==
  ASSUME Drawing!ConstantsOK
  PROVE  Drawing!Spec => []Drawing!DrawsSubsume
<1> DEFINE Inv == ChannelTyped /\ Drawing!DrawsSubsume
<1>1. Drawing!Init => Inv
  BY ChannelInit DEF Drawing!Init, Drawing!DrawsSubsume, ChannelInv
<1>2. Inv /\ [Drawing!Next]_(Drawing!vars) => Inv'
  <2> SUFFICES ASSUME Inv, [Drawing!Next]_(Drawing!vars) PROVE Inv'
    OBVIOUS
  <2>1. ChannelTyped'
    BY ChannelKeepsTypes
  <2>2. CASE held' = held
    BY <2>1, <2>2 DEF Drawing!DrawsSubsume
  <2>3. ASSUME NEW k \in drawn, NEW x \in drawn, Drawing!OnDraw(k, x)
        PROVE  Drawing!DrawsSubsume'
    <3>1. held' = held \cup Drawing!Walked(k, x) /\ k \in 1..N /\ x \in 1..N
      BY <2>3 DEF Drawing!OnDraw, ChannelTyped
    <3> SUFFICES ASSUME NEW i \in held', i - 1 \in Drawing!Members(Drawing!Tranche(i))
                 PROVE  i - 1 \in held' \cup Garbage
      BY DEF Drawing!DrawsSubsume
    <3>2. CASE i \in held
      BY <3>1, <3>2 DEF Drawing!DrawsSubsume
    <3>3. CASE i \in Drawing!Walked(k, x)
      <4>1. /\ i \in 1..N /\ Drawing!Tranche(i) = Drawing!Tranche(k) /\ i <= k
            /\ \A j \in i..k : j \notin held /\ Drawing!Opens(x - (k - j), j)
        BY <3>3 DEF Drawing!Walked, Drawing!Members, Drawing!Increment
      <4>2. x = k
        BY <3>1, <4>1 DEF Drawing!Opens
      <4>3. CASE i - 1 \in held \cup Garbage
        BY <3>1, <4>3
      <4>4. CASE i - 1 \notin held \cup Garbage
        <5>1. i - 1 \in Drawing!Members(Drawing!Tranche(k)) /\ i - 1 <= k
          BY <3>1, <4>1
        <5>2. ASSUME NEW j \in (i - 1)..k
              PROVE  j \notin held /\ Drawing!Opens(x - (k - j), j)
          <6>1. CASE j = i - 1
            BY <3>1, <4>1, <4>2, <4>4, <6>1 DEF Drawing!Opens
          <6>2. CASE j # i - 1
            BY <3>1, <4>1, <5>2, <6>2
          <6> QED
            BY <6>1, <6>2
        <5> QED
          BY <3>1, <5>1, <5>2 DEF Drawing!Walked
      <4> QED
        BY <4>3, <4>4
    <3> QED
      BY <3>1, <3>2, <3>3
  <2>4. held' = held \/ \E k \in drawn, x \in drawn : Drawing!OnDraw(k, x)
    BY Zenon DEF Drawing!Next, Drawing!vars, Drawing!payeeVars, Drawing!FundTranche,
       Drawing!Accept, Drawing!Draw, Drawing!BeginSettle, Drawing!SkipTranche,
       Drawing!Evaluate, Drawing!Rejected, Drawing!Commit, Drawing!CommitUnanswered,
       Drawing!SettleReturns, Drawing!BeginRefund, Drawing!RefundStatus,
       Drawing!RefundTranche, Drawing!RefundReturns, Drawing!Tick
  <2> QED
    BY <2>1, <2>2, <2>3, <2>4
<1>3. Inv => Drawing!DrawsSubsume
  OBVIOUS
<1> QED
  BY <1>1, <1>2, <1>3, PTL DEF Drawing!Spec

LEMMA ChannelSafe ==
  ASSUME Drawing!ConstantsOK, SettlesInTime
  PROVE  Drawing!Spec =>
           [](Drawing!TypeOK /\ Drawing!DrawsHonoured /\ Drawing!DrawsSubsume)
<1>1. Drawing!Spec => [](ChannelTyped /\ Drawing!DrawsHonoured)
  BY DrawsArePaid
<1>2. Drawing!Spec => []Drawing!DrawsSubsume
  BY DrawsMakeUp
<1>3. Drawing!Init => LoopsTyped
  <2>1. Drawing!Init => mishap \in BOOLEAN
    BY Zenon DEF Drawing!Init
  <2> QED
    BY <2>1, ChannelConstants, TranchesAre DEF Drawing!Init, Drawing!Never, LoopsTyped
<1>4. ChannelTyped /\ LoopsTyped /\ [Drawing!Next]_(Drawing!vars) => LoopsTyped'
  BY LoopsStep
<1>5. ChannelTyped /\ LoopsTyped => Drawing!TypeOK
  <2> SUFFICES ASSUME ChannelTyped, LoopsTyped PROVE Drawing!TypeOK
    OBVIOUS
  <2>1. at \in [{"payer", "payee"} -> 1..(Last + 1)]
    BY DEF ChannelTyped, LoopsTyped
  <2>2. 1..(Last + 1) = Drawing!Tranches \cup {Drawing!Max(Drawing!Tranches) + 1}
    BY TranchesAre, LastTranche
  <2>3. call_end \in 0..(ChannelEnd + 1 + Latency) /\ time \in 0..ChannelEnd
    BY ChannelConstants DEF ChannelTyped, LoopsTyped
  <2> QED
    BY <2>1, <2>2, <2>3 DEF ChannelTyped, LoopsTyped, Drawing!TypeOK, Drawing!Increment, Drawing!Never
<1> QED
  BY <1>1, <1>2, <1>3, <1>4, <1>5, PTL DEF Drawing!Spec

\* A settlement in time is a settlement in full, for every length of a channel,
\* size of its batches and set of garbage locks: what the payee held when
\* settle found itself in time is never refunded, and is claimed when settle
\* returns (settle, on_draw and refund of channels.py).
THEOREM DrawsAreHonoured ==
  ASSUME Drawing!ConstantsOK, SettlesInTime
  PROVE  ProtocolSpec => []DrawsHonoured
<1>1. ProtocolInit /\ protocol = "channel" => Drawing!Init
  BY Zenon DEF ProtocolInit
<1>2. protocol = "channel" /\ [ProtocolNext]_protocolVars =>
        (protocol = "channel")' /\ [Drawing!Next]_(Drawing!vars)
  BY DEF ProtocolNext, protocolVars, channelVars, Drawing!vars, Drawing!payerVars,
     Drawing!payeeVars, Drawing!history
<1>3. ~(protocol = "channel") /\ [ProtocolNext]_protocolVars => ~(protocol = "channel")'
  BY DEF ProtocolNext, protocolVars
<1>4. Drawing!Spec => [](Drawing!TypeOK /\ Drawing!DrawsHonoured /\ Drawing!DrawsSubsume)
  BY ChannelSafe
<1>5. DrawsHonoured <=> (protocol = "channel" => Drawing!TypeOK /\ Drawing!DrawsHonoured /\ Drawing!DrawsSubsume)
  BY DEF DrawsHonoured
<1> QED
  BY <1>1, <1>2, <1>3, <1>4, <1>5, PTL DEF ProtocolSpec, Drawing!Spec
=============================================================================
