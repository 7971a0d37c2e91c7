------------------------- MODULE RateLimiterProofs -------------------------
(***************************************************************************)
(* Proofs about RateLimiter, for every set of concurrent requests, every   *)
(* limit and every window.                                                 *)
(***************************************************************************)
EXTENDS RateLimiter, FiniteSetTheorems, TLAPS

CallerStates == [pc: {"idle", "count", "add"}, stamp: Nat]

\* The stamps of requests under way are past and of one request each; the
\* one being counted is known nowhere, the one being added is counted.
Stamps ==
    /\ \A s \in counted : s < clock
    /\ \A c \in Callers :
          /\ caller[c].pc # "idle" =>
                caller[c].stamp < clock /\ caller[c].stamp \notin hits
          /\ caller[c].pc = "count" => caller[c].stamp \notin counted
          /\ caller[c].pc = "add" => caller[c].stamp \in counted
    /\ \A c, d \in Callers :
          caller[c].pc # "idle" /\ caller[d].pc # "idle" /\ c # d
              => caller[c].stamp # caller[d].stamp

\* The key does not expire before the last stamp it holds, or is about to
\* hold, has left the window.
ExpiresLate ==
    deadline # 0 => \A s \in hits \cup Adding : s + Window <= deadline

LimiterIInv ==
    /\ LimiterTypeOK
    /\ IsFiniteSet(hits)
    /\ OnlyPassedCount
    /\ Stamps
    /\ ExpiresLate
    /\ WindowRemembered

\* In the initial state nothing is recorded.
LEMMA InitLimiterIInv == LimiterInit => LimiterIInv
<1> SUFFICES ASSUME LimiterInit PROVE LimiterIInv
  OBVIOUS
<1>1. IsFiniteSet(hits)
  BY FS_EmptySet DEF LimiterInit
<1>2. Adding = {}
  BY DEF LimiterInit, Adding
<1>. QED
  BY <1>1, <1>2 DEF LimiterInit, LimiterIInv, LimiterTypeOK, OnlyPassedCount, Stamps,
     ExpiresLate, WindowRemembered

\* A request that leaves takes nothing with it but its stamp under way.
LEMMA LeaveAdding ==
    ASSUME LimiterTypeOK, NEW c \in Callers, Leave(c)
    PROVE  /\ caller' \in [Callers -> CallerStates]
           /\ \A d \in Callers : caller'[d].stamp = caller[d].stamp
           /\ \A d \in Callers \ {c} : caller'[d] = caller[d]
           /\ caller'[c].pc = "idle"
           /\ Adding' \subseteq Adding
           /\ caller[c].pc # "add" => Adding' = Adding
           /\ Adding \subseteq Adding' \cup {caller[c].stamp}
BY DEF LimiterTypeOK, Leave, Adding, CallerStates

\* The pipeline forgets only stamps that have left the window, and puts the
\* expiry of what it leaves past the window of every stamp there is.
LEMMA SweepKeeps ==
    ASSUME LimiterIInv, NEW c \in Callers, caller[c].pc = "count", Sweep(c),
           UNCHANGED clock
    PROVE  /\ hits' \subseteq hits
           /\ IsFiniteSet(hits')
           /\ deadline' \in Nat
           /\ \A s \in hits : s + Window > clock => s \in hits'
           /\ deadline' # 0 => \A s \in Nat : s < clock => s + Window <= deadline'
<1> USE LimiterAssumption DEF LimiterIInv, LimiterTypeOK
<1>1. hits' \subseteq hits
  BY DEF Sweep, Recent
<1>2. IsFiniteSet(hits')
  BY <1>1, FS_Subset
<1>3. deadline' \in Nat
  BY DEF Sweep
<1>4. ASSUME NEW s \in hits, s + Window > clock
      PROVE  s \in hits'
  <2>1. caller[c].stamp < clock /\ caller[c].stamp \in Nat
    BY DEF Stamps
  <2>2. s \in Nat
    BY <1>4
  <2>. QED
    BY <1>4, <2>1, <2>2 DEF Sweep, Recent
<1>5. ASSUME deadline' # 0, NEW s \in Nat, s < clock
      PROVE  s + Window <= deadline'
  BY <1>5 DEF Sweep
<1>. QED
  BY <1>1, <1>2, <1>3, <1>4, <1>5

\* Advancing the clock expires the key no earlier than its stamps.
LEMMA AdvanceKeeps ==
    ASSUME LimiterIInv, Advance
    PROVE  /\ clock' = clock + 1 /\ clock' \in Nat
           /\ hits' \subseteq hits
           /\ IsFiniteSet(hits')
           /\ deadline' \in {0, deadline}
           /\ \A s \in hits : s + Window > clock' => s \in hits'
<1> USE LimiterAssumption DEF LimiterIInv, LimiterTypeOK, Advance
<1>1. clock' = clock + 1 /\ clock' \in Nat
  OBVIOUS
<1>2. IsFiniteSet(hits') /\ hits' \subseteq hits /\ deadline' \in {0, deadline}
  BY FS_EmptySet
<1>3. ASSUME NEW s \in hits, s + Window > clock'
      PROVE  s \in hits'
  <2>1. s \in Nat /\ Window \in Nat /\ deadline \in Nat
    OBVIOUS
  <2>2. CASE deadline # 0 /\ deadline <= clock'
    <3>1. s + Window <= deadline
      BY <2>2 DEF ExpiresLate
    <3>. QED
      BY <1>1, <1>3, <2>1, <2>2, <3>1
  <2>3. CASE ~(deadline # 0 /\ deadline <= clock')
    BY <2>3
  <2>. QED
    BY <2>2, <2>3
<1>. QED
  BY <1>1, <1>2, <1>3

\* A step that only ends a request and forgets its stamp.
LEMMA LeaveKeeps ==
    ASSUME LimiterIInv, NEW c \in Callers, caller[c].pc = "count", Leave(c),
           Sweep(c) \/ UNCHANGED <<hits, deadline>>, UNCHANGED <<clock, counted>>
    PROVE  LimiterIInv'
<1> USE LimiterAssumption DEF LimiterIInv
<1>1. /\ caller' \in [Callers -> CallerStates]
      /\ \A d \in Callers : caller'[d].stamp = caller[d].stamp
      /\ \A d \in Callers \ {c} : caller'[d] = caller[d]
      /\ caller'[c].pc = "idle"
      /\ Adding' = Adding
  BY LeaveAdding
<1>2. /\ hits' \subseteq hits
      /\ IsFiniteSet(hits')
      /\ deadline' \in Nat
      /\ \A s \in hits : s + Window > clock => s \in hits'
      /\ \/ deadline' = deadline
         \/ deadline' # 0 => \A s \in Nat : s < clock => s + Window <= deadline'
  <2>1. CASE Sweep(c)
    BY <2>1, SweepKeeps
  <2>2. CASE UNCHANGED <<hits, deadline>>
    BY <2>2 DEF LimiterTypeOK
  <2>. QED
    BY <2>1, <2>2
<1>3. LimiterTypeOK'
  BY <1>1, <1>2 DEF LimiterTypeOK, CallerStates
<1>4. OnlyPassedCount'
  BY <1>2 DEF OnlyPassedCount
<1>5. Stamps'
  BY <1>1, <1>2 DEF Stamps
<1>6. \A s \in counted : s \in Nat /\ s < clock
  BY DEF Stamps, LimiterTypeOK
<1>7. hits' \cup Adding' \subseteq counted
  BY <1>1, <1>2 DEF OnlyPassedCount, Adding, Stamps
<1>8. ExpiresLate'
  BY <1>1, <1>2, <1>6, <1>7 DEF ExpiresLate
<1>9. WindowRemembered'
  BY <1>1, <1>2 DEF WindowRemembered
<1>. QED
  BY <1>2, <1>3, <1>4, <1>5, <1>8, <1>9

\* A new request brings a stamp that nobody has.
LEMMA TakeStampKeeps ==
    ASSUME LimiterIInv, NEW c \in Callers, TakeStamp(c)
    PROVE  LimiterIInv'
<1> USE LimiterAssumption DEF LimiterIInv
<1>1. /\ clock' = clock + 1 /\ clock' \in Nat /\ clock \in Nat
      /\ hits' \subseteq hits
      /\ IsFiniteSet(hits')
      /\ deadline' \in {0, deadline}
      /\ \A s \in hits : s + Window > clock' => s \in hits'
  BY AdvanceKeeps DEF TakeStamp, LimiterTypeOK
<1>2. /\ caller' \in [Callers -> CallerStates]
      /\ \A d \in Callers \ {c} : caller'[d] = caller[d]
      /\ caller'[c] = [pc |-> "count", stamp |-> clock]
      /\ caller[c].pc = "idle"
      /\ counted' = counted
  BY <1>1 DEF LimiterTypeOK, TakeStamp, CallerStates
<1>3. Adding' = Adding
  BY <1>2 DEF Adding
<1>4. LimiterTypeOK'
  BY <1>1, <1>2 DEF LimiterTypeOK, CallerStates
<1>5. OnlyPassedCount'
  BY <1>1, <1>2 DEF OnlyPassedCount
<1>6. Stamps'
  <2>1. clock \notin counted /\ clock \notin hits
    BY <1>1 DEF Stamps, OnlyPassedCount
  <2>2. \A s \in counted' : s < clock'
    BY <1>1, <1>2 DEF Stamps, LimiterTypeOK
  <2>3. ASSUME NEW d \in Callers, caller'[d].pc # "idle"
        PROVE  /\ caller'[d].stamp < clock' /\ caller'[d].stamp \notin hits'
               /\ caller'[d].pc = "count" => caller'[d].stamp \notin counted'
               /\ caller'[d].pc = "add" => caller'[d].stamp \in counted'
    <3>1. CASE d = c
      BY <1>1, <1>2, <2>1, <3>1
    <3>2. CASE d # c
      BY <1>1, <1>2, <2>3, <3>2 DEF Stamps, LimiterTypeOK
    <3>. QED
      BY <3>1, <3>2
  <2>4. ASSUME NEW d \in Callers, NEW e \in Callers, d # e,
               caller'[d].pc # "idle", caller'[e].pc # "idle"
        PROVE  caller'[d].stamp # caller'[e].stamp
    BY <1>1, <1>2, <2>4 DEF Stamps, LimiterTypeOK
  <2>. QED
    BY <2>2, <2>3, <2>4 DEF Stamps
<1>7. ExpiresLate'
  BY <1>1, <1>3 DEF ExpiresLate
<1>8. WindowRemembered'
  <2> SUFFICES ASSUME NEW s \in counted, s + Window > clock'
               PROVE  s \in hits' \cup Adding
    BY <1>2, <1>3 DEF WindowRemembered
  <2>1. s \in hits \cup Adding
    BY <1>1 DEF WindowRemembered, LimiterTypeOK
  <2>. QED
    BY <1>1, <2>1
<1>. QED
  BY <1>1, <1>4, <1>5, <1>6, <1>7, <1>8

\* Time passes.
LEMMA TickKeeps ==
    ASSUME LimiterIInv, Tick
    PROVE  LimiterIInv'
<1> USE LimiterAssumption DEF LimiterIInv
<1>1. /\ clock' = clock + 1 /\ clock' \in Nat /\ clock \in Nat
      /\ hits' \subseteq hits
      /\ IsFiniteSet(hits')
      /\ deadline' \in {0, deadline}
      /\ \A s \in hits : s + Window > clock' => s \in hits'
  BY AdvanceKeeps DEF Tick, LimiterTypeOK
<1>2. caller' = caller /\ counted' = counted
  BY DEF Tick
<1>3. Adding' = Adding
  BY <1>2 DEF Adding
<1>4. LimiterTypeOK' /\ OnlyPassedCount'
  BY <1>1, <1>2 DEF LimiterTypeOK, OnlyPassedCount
<1>5. Stamps'
  BY <1>1, <1>2 DEF Stamps, LimiterTypeOK
<1>6. ExpiresLate'
  BY <1>1, <1>3 DEF ExpiresLate
<1>7. WindowRemembered'
  <2> SUFFICES ASSUME NEW s \in counted, s + Window > clock'
               PROVE  s \in hits' \cup Adding
    BY <1>2, <1>3 DEF WindowRemembered
  <2>1. s \in hits \cup Adding
    BY <1>1 DEF WindowRemembered, LimiterTypeOK
  <2>. QED
    BY <1>1, <2>1
<1>. QED
  BY <1>1, <1>4, <1>5, <1>6, <1>7

\* The stamp of a request that passes is counted and about to be added.
LEMMA PassKeeps ==
    ASSUME LimiterIInv, NEW c \in Callers, Pass(c)
    PROVE  LimiterIInv'
<1> USE LimiterAssumption DEF LimiterIInv
<1>1. /\ caller[c].pc = "count" /\ clock' = clock
      /\ counted' = counted \cup {caller[c].stamp}
      /\ caller' \in [Callers -> CallerStates]
      /\ \A d \in Callers : caller'[d].stamp = caller[d].stamp
      /\ \A d \in Callers \ {c} : caller'[d] = caller[d]
      /\ caller'[c].pc = "add"
  BY DEF Pass, LimiterTypeOK, CallerStates
<1>2. /\ hits' \subseteq hits
      /\ IsFiniteSet(hits')
      /\ deadline' \in Nat
      /\ \A s \in hits : s + Window > clock => s \in hits'
      /\ deadline' # 0 => \A s \in Nat : s < clock => s + Window <= deadline'
  BY <1>1, SweepKeeps DEF Pass
<1>3. Adding' = Adding \cup {caller[c].stamp}
  BY <1>1 DEF Adding
<1>4. caller[c].stamp \in Nat /\ caller[c].stamp < clock
  BY <1>1 DEF LimiterTypeOK, Stamps
<1>5. LimiterTypeOK'
  BY <1>1, <1>2, <1>4 DEF LimiterTypeOK, CallerStates
<1>6. OnlyPassedCount'
  BY <1>1, <1>2 DEF OnlyPassedCount
<1>7. Stamps'
  BY <1>1, <1>2, <1>4 DEF Stamps
<1>8. ExpiresLate'
  <2>1. \A s \in hits' \cup Adding' : s \in Nat /\ s < clock
    <3>1. \A s \in hits : s \in Nat /\ s < clock
      BY DEF LimiterTypeOK, Stamps, OnlyPassedCount
    <3>2. \A s \in Adding : s \in Nat /\ s < clock
      BY DEF LimiterTypeOK, Stamps, Adding
    <3>. QED
      BY <1>2, <1>3, <1>4, <3>1, <3>2
  <2>. QED
    BY <1>2, <2>1 DEF ExpiresLate
<1>9. WindowRemembered'
  BY <1>1, <1>2, <1>3 DEF WindowRemembered
<1>. QED
  BY <1>2, <1>5, <1>6, <1>7, <1>8, <1>9

\* Adding the stamp moves it from the request to the key.
LEMMA AddStampKeeps ==
    ASSUME LimiterIInv, NEW c \in Callers, AddStamp(c)
    PROVE  LimiterIInv'
<1> USE LimiterAssumption DEF LimiterIInv
<1>1. /\ caller[c].pc = "add" /\ hits' = hits \cup {caller[c].stamp}
      /\ UNCHANGED <<clock, deadline, counted>>
      /\ caller' \in [Callers -> CallerStates]
      /\ \A d \in Callers : caller'[d].stamp = caller[d].stamp
      /\ \A d \in Callers \ {c} : caller'[d] = caller[d]
      /\ caller'[c].pc = "idle"
      /\ Adding' \subseteq Adding
      /\ Adding \subseteq Adding' \cup {caller[c].stamp}
  BY LeaveAdding DEF AddStamp
<1>2. caller[c].stamp \in Adding
  BY <1>1 DEF Adding
<1>3. IsFiniteSet(hits')
  BY <1>1, FS_AddElement
<1>4. LimiterTypeOK'
  BY <1>1 DEF LimiterTypeOK, CallerStates
<1>5. OnlyPassedCount' /\ Stamps'
  BY <1>1 DEF OnlyPassedCount, Stamps
<1>6. ExpiresLate'
  BY <1>1, <1>2 DEF ExpiresLate
<1>7. WindowRemembered'
  BY <1>1 DEF WindowRemembered
<1>. QED
  BY <1>3, <1>4, <1>5, <1>6, <1>7

\* A stamp that is not added is not counted either.
LEMMA AddFailsKeeps ==
    ASSUME LimiterIInv, NEW c \in Callers, AddFails(c)
    PROVE  LimiterIInv'
<1> USE LimiterAssumption DEF LimiterIInv
<1>1. /\ caller[c].pc = "add" /\ counted' = counted \ {caller[c].stamp}
      /\ UNCHANGED <<clock, hits, deadline>>
      /\ caller' \in [Callers -> CallerStates]
      /\ \A d \in Callers : caller'[d].stamp = caller[d].stamp
      /\ \A d \in Callers \ {c} : caller'[d] = caller[d]
      /\ caller'[c].pc = "idle"
      /\ Adding' \subseteq Adding
      /\ Adding \subseteq Adding' \cup {caller[c].stamp}
  BY LeaveAdding DEF AddFails
<1>2. LimiterTypeOK'
  BY <1>1 DEF LimiterTypeOK, CallerStates
<1>3. OnlyPassedCount' /\ Stamps'
  BY <1>1 DEF OnlyPassedCount, Stamps
<1>4. ExpiresLate'
  BY <1>1 DEF ExpiresLate
<1>5. WindowRemembered'
  BY <1>1 DEF WindowRemembered
<1>. QED
  BY <1>1, <1>2, <1>3, <1>4, <1>5

\* Every step keeps the invariant.
LEMMA LimiterInductive == LimiterIInv /\ [LimiterNext]_limiterVars => LimiterIInv'
<1> SUFFICES ASSUME LimiterIInv, [LimiterNext]_limiterVars PROVE LimiterIInv'
  OBVIOUS
<1>1. ASSUME NEW c \in Callers, Block(c) \/ SweepFails(c)
      PROVE  LimiterIInv'
  BY <1>1, LeaveKeeps DEF Block, SweepFails
<1>2. ASSUME NEW c \in Callers, TakeStamp(c) \/ Pass(c) \/ AddStamp(c) \/ AddFails(c)
      PROVE  LimiterIInv'
  BY <1>2, TakeStampKeeps, PassKeeps, AddStampKeeps, AddFailsKeeps
<1>3. CASE UNCHANGED limiterVars
  BY <1>3 DEF limiterVars, LimiterIInv, LimiterTypeOK, OnlyPassedCount, Stamps,
     ExpiresLate, Adding, WindowRemembered
<1>. QED
  BY <1>1, <1>2, <1>3, TickKeeps DEF LimiterNext

\* The invariant holds throughout.
LEMMA LimiterInvariant == LimiterSpec => []LimiterIInv
BY InitLimiterIInv, LimiterInductive, PTL DEF LimiterSpec

\* Stamps, deadline and requests under way are well formed throughout.
THEOREM LimiterTyped == LimiterSpec => []LimiterTypeOK
<1>1. LimiterIInv => LimiterTypeOK
  BY DEF LimiterIInv
<1>. QED
  BY <1>1, LimiterInvariant, PTL

\* TTL, expiry and sweeps never forget a request that passed less than a
\* window ago and whose stamp was, or is being, recorded.
THEOREM WindowIsRemembered == LimiterSpec => []WindowRemembered
<1>1. LimiterIInv => WindowRemembered
  BY DEF LimiterIInv
<1>. QED
  BY <1>1, LimiterInvariant, PTL

\* Blocked requests, and those whose recording failed, leave no stamp.
THEOREM PassedOnly == LimiterSpec => []OnlyPassedCount
<1>1. LimiterIInv => OnlyPassedCount
  BY DEF LimiterIInv
<1>. QED
  BY <1>1, LimiterInvariant, PTL

-----------------------------------------------------------------------------
(* How far overlapping requests may exceed the limit.                      *)

\* What the limiter does promise in place of StrictLimit: requests that overlap
\* may pass together, but never more of them than can be under way at once,
\* so that what passes in a window exceeds the limit by that number less one.
OvershootBounded ==
    Cardinality({s \in counted : s + Window > clock})
        <= Rpm - 1 + Cardinality(Callers)

InWindow == {s \in counted : s + Window > clock}

\* No more stamps are being added than requests can be under way.
LEMMA FewStamps ==
    ASSUME NEW g \in [Callers -> CallerStates]
    PROVE  LET S == {g[c].stamp : c \in {d \in Callers : g[d].pc = "add"}}
           IN  IsFiniteSet(S) /\ Cardinality(S) <= Cardinality(Callers)
<1> DEFINE A == {d \in Callers : g[d].pc = "add"}
           S == {g[c].stamp : c \in A}
           f == [d \in A |-> g[d].stamp]
<1>1. IsFiniteSet(A) /\ Cardinality(A) <= Cardinality(Callers)
  BY LimiterAssumption, FS_Subset
<1>2. f \in Surjection(A, S)
  BY DEF Surjection
<1>3. IsFiniteSet(S) /\ Cardinality(S) <= Cardinality(A)
  <2> HIDE DEF A, S, f
  <2>. QED
    BY <1>1, <1>2, FS_Surjection
<1>4. /\ Cardinality(S) \in Nat /\ Cardinality(A) \in Nat
      /\ Cardinality(Callers) \in Nat
  BY <1>1, <1>3, LimiterAssumption, FS_CardinalityType
<1>5. Cardinality(S) <= Cardinality(Callers)
  BY <1>1, <1>3, <1>4
<1>. QED
  BY <1>3, <1>5

\* A request that passes found at most Rpm - 1 stamps, and whatever else is
\* counted in the window is being added by a request under way.
LEMMA PassBounded ==
    ASSUME LimiterIInv, NEW c \in Callers, Pass(c)
    PROVE  OvershootBounded'
<1> USE LimiterAssumption DEF LimiterIInv
<1>1. LimiterIInv'
  BY PassKeeps
<1>2. IsFiniteSet(Adding') /\ Cardinality(Adding') <= Cardinality(Callers)
  BY <1>1, FewStamps DEF Adding, LimiterTypeOK, CallerStates
<1>3. hits' = Recent(c) /\ IsFiniteSet(hits') /\ Cardinality(hits') <= Rpm - 1
  <2>1. hits' = Recent(c) /\ Cardinality(Recent(c)) < Rpm
    BY DEF Pass, Sweep
  <2>2. IsFiniteSet(Recent(c))
    BY <1>1, <2>1
  <2>. QED
    BY <2>1, <2>2, FS_CardinalityType
<1>4. InWindow' \subseteq hits' \cup Adding'
  BY <1>1 DEF InWindow, WindowRemembered
<1>5. /\ IsFiniteSet(hits' \cup Adding')
      /\ Cardinality(hits' \cup Adding') <= Cardinality(hits') + Cardinality(Adding')
  <2>1. /\ IsFiniteSet(hits' \cup Adding')
        /\ Cardinality(hits' \cup Adding')
             = Cardinality(hits') + Cardinality(Adding') - Cardinality(hits' \cap Adding')
    BY <1>2, <1>3, FS_Union
  <2>2. IsFiniteSet(hits' \cap Adding')
    BY <1>3, FS_Subset
  <2>. QED
    BY <1>2, <1>3, <2>1, <2>2, FS_CardinalityType
<1>6. IsFiniteSet(InWindow') /\ Cardinality(InWindow') <= Cardinality(hits' \cup Adding')
  BY <1>4, <1>5, FS_Subset
<1>7. /\ Cardinality(InWindow') \in Nat /\ Cardinality(hits') \in Nat
      /\ Cardinality(Adding') \in Nat /\ Cardinality(Callers) \in Nat
      /\ Cardinality(hits' \cup Adding') \in Nat
  BY <1>2, <1>3, <1>5, <1>6, FS_CardinalityType
<1>8. Cardinality(InWindow') <= Rpm - 1 + Cardinality(Callers)
  BY <1>2, <1>3, <1>5, <1>6, <1>7
<1>. QED
  BY <1>8 DEF OvershootBounded, InWindow

\* Every other step leaves the window with stamps it had before.
LEMMA WindowShrinks ==
    ASSUME LimiterIInv, OvershootBounded, IsFiniteSet(InWindow),
           counted' \subseteq counted, clock' \in {clock, clock + 1}
    PROVE  OvershootBounded' /\ IsFiniteSet(InWindow')
<1> USE LimiterAssumption DEF LimiterIInv
<1>1. InWindow' \subseteq InWindow
  <2> SUFFICES ASSUME NEW s \in counted, s + Window > clock'
               PROVE  s + Window > clock
    BY DEF InWindow
  <2>1. s \in Nat /\ clock \in Nat /\ Window \in Nat
    BY DEF LimiterTypeOK
  <2>. QED
    BY <2>1
<1>2. IsFiniteSet(InWindow') /\ Cardinality(InWindow') <= Cardinality(InWindow)
  BY <1>1, FS_Subset
<1>3. /\ Cardinality(InWindow') \in Nat /\ Cardinality(InWindow) \in Nat
      /\ Cardinality(Callers) \in Nat
  BY <1>2, FS_CardinalityType
<1>. QED
  BY <1>2, <1>3 DEF OvershootBounded, InWindow

\* What is counted in the window is recorded or being added: a finite set.
LEMMA WindowFinite == ASSUME LimiterIInv PROVE IsFiniteSet(InWindow)
<1>1. IsFiniteSet(hits \cup Adding)
  BY FewStamps, FS_Union DEF LimiterIInv, Adding, LimiterTypeOK, CallerStates
<1>2. InWindow \subseteq hits \cup Adding
  BY DEF LimiterIInv, WindowRemembered, InWindow
<1>. QED
  BY <1>1, <1>2, FS_Subset

\* However many requests overlap, and in whatever order they count and add:
\* fewer than the limit plus the number of requests that can overlap pass in
\* any window in which Redis works.
THEOREM OvershootIsBounded == LimiterSpec => []OvershootBounded
<1>1. LimiterInit => OvershootBounded
  <2> SUFFICES ASSUME LimiterInit PROVE OvershootBounded
    OBVIOUS
  <2>1. {s \in counted : s + Window > clock} = {}
    BY DEF LimiterInit
  <2>2. Cardinality(Callers) \in Nat
    BY LimiterAssumption, FS_CardinalityType
  <2>. QED
    BY <2>1, <2>2, FS_EmptySet, LimiterAssumption DEF OvershootBounded
<1>2. LimiterIInv /\ OvershootBounded /\ [LimiterNext]_limiterVars => OvershootBounded'
  <2> SUFFICES ASSUME LimiterIInv, OvershootBounded, [LimiterNext]_limiterVars
               PROVE  OvershootBounded'
    OBVIOUS
  <2>1. ASSUME NEW c \in Callers, Pass(c) PROVE OvershootBounded'
    BY <2>1, PassBounded
  <2>2. ASSUME NEW c \in Callers, TakeStamp(c) \/ Block(c) \/ AddStamp(c)
                                    \/ SweepFails(c) \/ AddFails(c)
        PROVE  counted' \subseteq counted /\ clock' \in {clock, clock + 1}
    BY <2>2 DEF TakeStamp, Advance, Block, AddStamp, SweepFails, AddFails
  <2>3. CASE Tick \/ UNCHANGED limiterVars
    BY <2>3, WindowFinite, WindowShrinks DEF Tick, Advance, limiterVars
  <2>. QED
    BY <2>1, <2>2, <2>3, WindowFinite, WindowShrinks DEF LimiterNext
<1>. QED
  BY <1>1, <1>2, LimiterInvariant, PTL DEF LimiterSpec
=============================================================================
