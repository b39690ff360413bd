-------------------------- MODULE ConsensusProofs --------------------------
(* Theorems about the consensus engine, for any number of keys, wallets,   *)
(* signatures, quorums and timeouts.                                       *)
EXTENDS Consensus, FiniteSetTheorems, TLAPS

\* What makes NoMissedQuorum inductive: the votes of an entry are finitely
\* many, so that their number never grows when votes are taken away.
FiniteVotes ==
    \A k \in Keys : entries[k] # Absent => IsFiniteSet(entries[k].signals)

IInv == TypeOK /\ FiniteVotes /\ OneVotePerWallet /\ NoMissedQuorum

-----------------------------------------------------------------------------
(* Lemmas about votes.                                                     *)

\* Fewer signals never reach a quorum that more signals miss.
LEMMA FewerVotes ==
    ASSUME NEW S, IsFiniteSet(S), NEW R \in SUBSET S, NEW q \in Nat,
           ~should_trigger(S, q)
    PROVE  /\ IsFiniteSet(R)
           /\ ~should_trigger(R, q)
<1>1. IsFiniteSet(R)
    BY FS_Subset
<1>2. /\ Effective(R) \in SUBSET Effective(S)
      /\ Effective(S) \in SUBSET S
    BY DEF Effective
<1>3. IsFiniteSet(Effective(S))
    BY <1>2, FS_Subset
<1>4. /\ IsFiniteSet(Effective(R))
      /\ Cardinality(Effective(R)) <= Cardinality(Effective(S))
    BY <1>2, <1>3, FS_Subset
<1>5. Cardinality(Effective(R)) \in Nat /\ Cardinality(Effective(S)) \in Nat
    BY <1>3, <1>4, FS_CardinalityType
<1>6. QED
    BY <1>1, <1>4, <1>5 DEF should_trigger

\* Growing older changes neither the wallet nor the weight of a vote, so it
\* cannot create a quorum.
LEMMA OlderVotes ==
    ASSUME NEW S \in SUBSET Signal, IsFiniteSet(S), NEW q \in Nat,
           ~should_trigger(S, q)
    PROVE  LET O == {Older(s) : s \in S}
           IN  IsFiniteSet(O) /\ ~should_trigger(O, q)
<1> DEFINE O == {Older(s) : s \in S}
           f == [s \in S |-> Older(s)]
           E == Effective(S)
           g == [s \in E |-> Older(s)]
<1>1. f \in Surjection(S, O)
    BY DEF Surjection
<1>2. IsFiniteSet(O)
    BY <1>1, FS_Surjection
<1>3. E \in SUBSET S /\ IsFiniteSet(E)
    BY FS_Subset DEF Effective
<1>4. \A s \in S : Older(s).shape = s.shape
    BY DEF Older, Signal
<1>5. g \in Surjection(E, Effective(O))
  <2>1. \A s \in E : Older(s) \in Effective(O)
    BY <1>3, <1>4 DEF Effective, counts_for_candidate_consensus
  <2>2. \A t \in Effective(O) : \E s \in E : g[s] = t
    BY <1>4 DEF Effective, counts_for_candidate_consensus
  <2>3. QED
    BY <2>1, <2>2 DEF Surjection
<1>6. IsFiniteSet(Effective(O)) /\ Cardinality(Effective(O)) <= Cardinality(E)
    BY <1>3, <1>5, FS_Surjection
<1>7. Cardinality(Effective(O)) \in Nat /\ Cardinality(E) \in Nat
    BY <1>3, <1>6, FS_CardinalityType
<1>8. QED
    BY <1>2, <1>6, <1>7 DEF should_trigger

\* The votes after a submission are finitely many, well typed, and still one
\* per wallet.
LEMMA VotesAfterSubmission ==
    ASSUME NEW e \in TokenSignals, NEW s \in Signal,
           IsFiniteSet(e.signals),
           \A t, u \in e.signals : t.wallet = u.wallet => t = u
    PROVE  /\ SignalsAfter(e, s) \in SUBSET Signal
           /\ IsFiniteSet(SignalsAfter(e, s))
           /\ \A t, u \in SignalsAfter(e, s) : t.wallet = u.wallet => t = u
<1>1. Live(e.signals, e.timeout) \in SUBSET e.signals
    BY DEF Live
<1>2. IsFiniteSet(Live(e.signals, e.timeout))
    BY <1>1, FS_Subset
<1>3. IsFiniteSet(Live(e.signals, e.timeout) \ Prior(e, s))
    BY <1>2, FS_Difference
<1>4. IsFiniteSet((Live(e.signals, e.timeout) \ Prior(e, s)) \cup {s})
    BY <1>3, FS_AddElement
<1>5. e.signals \in SUBSET Signal
    BY DEF TokenSignals
<1>6. QED
    BY <1>1, <1>2, <1>4, <1>5 DEF SignalsAfter, Prior

\* A submission that does not reach the quorum leaves an untriggered entry
\* short of it: a refused vote only lets expired ones go.
LEMMA NoQuorumAfterSubmission ==
    ASSUME NEW e \in TokenSignals, NEW s \in Signal,
           IsFiniteSet(e.signals), e.min_wallets \in Nat,
           ~e.triggered, ~should_trigger(e.signals, e.min_wallets),
           ~Reaches(e, s)
    PROVE  ~should_trigger(SignalsAfter(e, s), e.min_wallets)
<1>1. CASE Admitted(e, s)
    BY <1>1 DEF Reaches
<1>2. CASE ~Admitted(e, s)
  <2>1. Live(e.signals, e.timeout) \in SUBSET e.signals
    BY DEF Live
  <2>2. ~should_trigger(Live(e.signals, e.timeout), e.min_wallets)
    BY <2>1, FewerVotes
  <2>3. QED
    BY <1>2, <2>2 DEF SignalsAfter
<1>3. QED
    BY <1>1, <1>2

\* No entry, or the one in the map, starts a submission in good order.
LEMMA EntryInOrder ==
    ASSUME IInv, NEW k \in Keys, NEW q \in Quorums, NEW m \in Timeouts
    PROVE  LET e == EntryOf(k, q, m)
           IN  /\ e \in TokenSignals
               /\ e.min_wallets \in Nat
               /\ IsFiniteSet(e.signals)
               /\ \A t, u \in e.signals : t.wallet = u.wallet => t = u
               /\ ~e.triggered => ~should_trigger(e.signals, e.min_wallets)
<1> USE ConsensusAssumption
<1>1. CASE entries[k] = Absent
  <2>1. IsFiniteSet({}) /\ Cardinality({}) = 0
    BY FS_EmptySet
  <2>2. Effective({}) = {}
    BY DEF Effective
  <2>3. ~should_trigger({}, q)
    BY <2>1, <2>2 DEF should_trigger
  <2>4. QED
    BY <1>1, <2>1, <2>3 DEF EntryOf, TokenSignals
<1>2. CASE entries[k] # Absent
    BY <1>2 DEF IInv, TypeOK, FiniteVotes, OneVotePerWallet, NoMissedQuorum,
                EntryOf, TokenSignals
<1>3. QED
    BY <1>1, <1>2

-----------------------------------------------------------------------------
(* The inductive invariant.                                                *)

\* There is no entry at the start.
LEMMA InitInv == Init => IInv
    BY DEF Init, IInv, TypeOK, FiniteVotes, OneVotePerWallet, NoMissedQuorum

\* A new vote, or a better one of the same wallet.
LEMMA SubmitInv == IInv /\ Submit => IInv'
<1> SUFFICES ASSUME IInv, Submit PROVE IInv'
    OBVIOUS
<1> USE ConsensusAssumption, AbsentAssumption
<1>1. PICK k \in Keys, w \in Wallets, g \in Signatures, shape \in Shapes,
           lag \in 0 .. MaxLag, quorum \in Quorums, timeout \in Timeouts :
        submit_signal(k, [wallet |-> w, sig |-> g, shape |-> shape, age |-> lag],
                      quorum, timeout)
    BY DEF Submit
<1> DEFINE s == [wallet |-> w, sig |-> g, shape |-> shape, age |-> lag]
           e == EntryOf(k, quorum, timeout)
           f == [e EXCEPT !.signals = SignalsAfter(e, s),
                          !.triggered = e.triggered \/ Reaches(e, s)]
<1>2. s \in Signal
    BY DEF Signal, Ages
<1>3. /\ e \in TokenSignals
      /\ e.min_wallets \in Nat
      /\ IsFiniteSet(e.signals)
      /\ \A t, u \in e.signals : t.wallet = u.wallet => t = u
      /\ ~e.triggered => ~should_trigger(e.signals, e.min_wallets)
    BY EntryInOrder
<1>4. /\ SignalsAfter(e, s) \in SUBSET Signal
      /\ IsFiniteSet(SignalsAfter(e, s))
      /\ \A t, u \in SignalsAfter(e, s) : t.wallet = u.wallet => t = u
    BY <1>2, <1>3, VotesAfterSubmission
<1>5. entries' = [entries EXCEPT ![k] = f]
    BY <1>1 DEF submit_signal
<1>6. /\ f \in TokenSignals
      /\ f.signals = SignalsAfter(e, s)
      /\ f.min_wallets = e.min_wallets
      /\ f.triggered = (e.triggered \/ Reaches(e, s))
  <2>1. (e.triggered \/ Reaches(e, s)) \in BOOLEAN
    OBVIOUS
  <2> HIDE DEF s, e
  <2>2. QED
    BY <1>3, <1>4, <2>1 DEF TokenSignals
<1>7. ~f.triggered => ~should_trigger(f.signals, f.min_wallets)
  <2>1. SUFFICES ASSUME ~e.triggered, ~Reaches(e, s)
                 PROVE  ~should_trigger(SignalsAfter(e, s), e.min_wallets)
    BY <1>6
  <2>2. QED
    BY <1>2, <1>3, <2>1, NoQuorumAfterSubmission
<1> HIDE DEF f, e, s
<1>8. entries' \in [Keys -> TokenSignals \cup {Absent}]
    BY <1>5, <1>6 DEF IInv, TypeOK
<1>9. triggers' \in Seq(ConsensusTrigger)
  <2>1. triggers \in Seq(ConsensusTrigger)
    BY DEF IInv, TypeOK
  <2>2. CASE UNCHANGED triggers
    BY <2>1, <2>2
  <2>3. CASE Send(k, SignalsAfter(e, s))
    <3>1. PICK canonical \in Canonical(SignalsAfter(e, s)),
               first \in First(SignalsAfter(e, s)) :
            triggers' = Append(triggers,
                          [key |-> k,
                           wallets |-> {t.wallet : t \in Effective(SignalsAfter(e, s))},
                           canonical |-> canonical,
                           first_signature |-> first.sig])
        BY <2>3 DEF Send
    <3>2. canonical \in Signal /\ first \in Signal
        BY <1>4 DEF Canonical, First, Effective
    <3>3. {t.wallet : t \in Effective(SignalsAfter(e, s))} \in SUBSET Wallets
        BY <1>4 DEF Effective, Signal
    <3>4. first.sig \in Signatures
        BY <3>2 DEF Signal
    <3>5. QED
        BY <2>1, <3>1, <3>2, <3>3, <3>4 DEF ConsensusTrigger
  <2>4. QED
    BY <1>1, <2>2, <2>3 DEF submit_signal, e, s
<1>10. \A j \in Keys : j # k => entries'[j] = entries[j]
    BY <1>5 DEF IInv, TypeOK
<1>11. entries'[k] = f
    BY <1>5 DEF IInv, TypeOK
<1>12. FiniteVotes' /\ OneVotePerWallet'
    BY <1>4, <1>6, <1>10, <1>11 DEF IInv, FiniteVotes, OneVotePerWallet
<1>13. NoMissedQuorum'
    BY <1>7, <1>10, <1>11 DEF IInv, NoMissedQuorum
<1>14. QED
    BY <1>8, <1>9, <1>12, <1>13 DEF IInv, TypeOK

\* Reject, Revoke and Cleanup replace the votes of an entry by fewer of them.
\* Fewer(e, f) is what they have in common.
Fewer(e, f) ==
    /\ f \in TokenSignals
    /\ f.signals \in SUBSET e.signals
    /\ f.min_wallets = e.min_wallets
    /\ f.triggered = e.triggered
         \/ f.triggered = should_trigger(f.signals, f.min_wallets)

\* An entry with fewer signals, whose flag is right, is as good.
LEMMA FewerInv ==
    ASSUME IInv, UNCHANGED triggers,
           entries' \in [Keys -> TokenSignals \cup {Absent}],
           \A k \in Keys : \/ entries'[k] = Absent
                           \/ entries'[k] = entries[k]
                           \/ entries[k] # Absent /\ Fewer(entries[k], entries'[k])
    PROVE  IInv'
<1> USE ConsensusAssumption, AbsentAssumption
<1>1. TypeOK'
    BY DEF IInv, TypeOK
<1>2. ASSUME NEW k \in Keys, entries'[k] # Absent
      PROVE  /\ IsFiniteSet(entries'[k].signals)
             /\ \A s, t \in entries'[k].signals : s.wallet = t.wallet => s = t
             /\ ~entries'[k].triggered =>
                  ~should_trigger(entries'[k].signals, entries'[k].min_wallets)
  <2>1. CASE entries'[k] = entries[k]
    BY <1>2, <2>1 DEF IInv, FiniteVotes, OneVotePerWallet, NoMissedQuorum
  <2>2. CASE entries[k] # Absent /\ Fewer(entries[k], entries'[k])
    <3>1. entries[k] \in TokenSignals
        BY <2>2 DEF IInv, TypeOK
    <3>2. /\ IsFiniteSet(entries[k].signals)
          /\ entries'[k].signals \in SUBSET entries[k].signals
          /\ entries[k].min_wallets \in Nat
          /\ entries'[k].min_wallets = entries[k].min_wallets
        BY <2>2, <3>1 DEF IInv, FiniteVotes, Fewer, TokenSignals
    <3>3. IsFiniteSet(entries'[k].signals)
        BY <3>2, FS_Subset
    <3>4. ASSUME ~entries'[k].triggered, entries'[k].triggered = entries[k].triggered
          PROVE  ~should_trigger(entries'[k].signals, entries'[k].min_wallets)
      <4>1. ~should_trigger(entries[k].signals, entries[k].min_wallets)
        BY <2>2, <3>4 DEF IInv, NoMissedQuorum
      <4>2. QED
        BY <3>2, <4>1, FewerVotes
    <3>5. QED
        BY <2>2, <3>2, <3>3, <3>4 DEF Fewer, IInv, OneVotePerWallet
  <2>3. QED
    BY <1>2, <2>1, <2>2
<1>3. QED
    BY <1>1, <1>2 DEF IInv, FiniteVotes, OneVotePerWallet, NoMissedQuorum

\* A vote taken back, with the flag recomputed.
LEMMA RejectInv == IInv /\ Reject => IInv'
<1> SUFFICES ASSUME IInv, NEW k \in Keys, NEW w \in Wallets, NEW g \in Signatures,
                    reject_signal(k, w, g)
             PROVE  IInv'
    BY DEF Reject
<1> DEFINE e == entries[k]
           left == {s \in e.signals : ~(s.wallet = w /\ s.sig = g)}
           f == [e EXCEPT !.signals = left,
                          !.triggered = should_trigger(left, e.min_wallets)]
<1>1. e \in TokenSignals /\ e # Absent
    BY DEF reject_signal, IInv, TypeOK
<1>2. entries' = [entries EXCEPT ![k] = f]
    BY <1>1 DEF reject_signal, IInv, TypeOK, TokenSignals
<1>3. Fewer(e, f)
  <2>1. should_trigger(left, e.min_wallets) \in BOOLEAN
    BY DEF should_trigger
  <2>2. QED
    BY <1>1, <2>1 DEF Fewer, TokenSignals
<1>4. UNCHANGED triggers
    BY DEF reject_signal
<1> HIDE DEF f
<1>5. entries' \in [Keys -> TokenSignals \cup {Absent}]
    BY <1>2, <1>3 DEF IInv, TypeOK, Fewer
<1>6. \A j \in Keys : entries'[j] = IF j = k THEN f ELSE entries[j]
    BY <1>2 DEF IInv, TypeOK
<1>7. QED
    BY <1>1, <1>3, <1>4, <1>5, <1>6, FewerInv

\* A vote withdrawn before the trigger.
LEMMA RevokeInv == IInv /\ Revoke => IInv'
<1> SUFFICES ASSUME IInv, NEW k \in Keys, NEW w \in Wallets, revoke_signal(k, w)
             PROVE  IInv'
    BY DEF Revoke
<1> DEFINE e == entries[k]
           f == [e EXCEPT !.signals = {s \in e.signals : s.wallet # w}]
<1>1. e \in TokenSignals /\ e # Absent
    BY DEF revoke_signal, IInv, TypeOK
<1>2. entries' = [entries EXCEPT ![k] = f]
    BY <1>1 DEF revoke_signal, IInv, TypeOK, TokenSignals
<1>3. Fewer(e, f)
    BY <1>1 DEF Fewer, TokenSignals
<1>4. UNCHANGED triggers
    BY DEF revoke_signal
<1> HIDE DEF f
<1>5. entries' \in [Keys -> TokenSignals \cup {Absent}]
    BY <1>2, <1>3 DEF IInv, TypeOK, Fewer
<1>6. \A j \in Keys : entries'[j] = IF j = k THEN f ELSE entries[j]
    BY <1>2 DEF IInv, TypeOK
<1>7. QED
    BY <1>1, <1>3, <1>4, <1>5, <1>6, FewerInv

\* Expired votes dropped, and empty entries with them.
LEMMA CleanupInv == IInv /\ Cleanup => IInv'
<1> SUFFICES ASSUME IInv, Cleanup PROVE IInv'
    OBVIOUS
<1>1. ASSUME NEW k \in Keys
      PROVE  \/ Swept(entries[k]) = Absent
             \/ entries[k] # Absent /\ Fewer(entries[k], Swept(entries[k]))
  <2>1. entries[k] \in TokenSignals \cup {Absent}
    BY DEF IInv, TypeOK
  <2>2. QED
    BY <2>1 DEF Swept, Fewer, Live, TokenSignals
<1>2. \A k \in Keys : entries'[k] = Swept(entries[k])
    BY DEF Cleanup
<1>3. entries' \in [Keys -> TokenSignals \cup {Absent}]
    BY <1>1, <1>2 DEF Cleanup, Fewer
<1>4. UNCHANGED triggers
    BY DEF Cleanup
<1>5. QED
    BY <1>1, <1>2, <1>3, <1>4, FewerInv

\* Older votes are the same votes.
LEMMA TickInv == IInv /\ Tick => IInv'
<1> SUFFICES ASSUME IInv, Tick PROVE IInv'
    OBVIOUS
<1> USE ConsensusAssumption, AbsentAssumption
<1>1. \A k \in Keys : entries'[k] = Aged(entries[k])
    BY DEF Tick
<1>2. ASSUME NEW k \in Keys, entries[k] # Absent
      PROVE  LET e == entries[k]
                 f == entries'[k]
             IN  /\ f \in TokenSignals
                 /\ IsFiniteSet(f.signals)
                 /\ \A s, t \in f.signals : s.wallet = t.wallet => s = t
                 /\ ~f.triggered => ~should_trigger(f.signals, f.min_wallets)
  <2> DEFINE e == entries[k]
             O == {Older(s) : s \in e.signals}
  <2>1. e \in TokenSignals
    BY <1>2 DEF IInv, TypeOK
  <2>2. /\ e.signals \in SUBSET Signal
        /\ IsFiniteSet(e.signals)
        /\ e.min_wallets \in Nat
    BY <1>2, <2>1 DEF TokenSignals, IInv, FiniteVotes
  <2>3. \A s \in Signal : Older(s) \in Signal /\ Older(s).wallet = s.wallet
    BY DEF Older, Signal, Ages
  <2>4. O \in SUBSET Signal
    BY <2>2, <2>3
  <2>5. entries'[k] = [e EXCEPT !.signals = O]
    BY <1>1, <1>2, <2>1 DEF Aged, TokenSignals
  <2>6. IsFiniteSet(O)
    <3>1. [s \in e.signals |-> Older(s)] \in Surjection(e.signals, O)
        BY DEF Surjection
    <3>2. QED
        BY <2>2, <3>1, FS_Surjection
  <2>7. ~e.triggered => ~should_trigger(O, e.min_wallets)
    BY <1>2, <2>2, OlderVotes DEF IInv, NoMissedQuorum
  <2>8. \A s, t \in O : s.wallet = t.wallet => s = t
    BY <1>2, <2>2, <2>3 DEF IInv, OneVotePerWallet
  <2> HIDE DEF O
  <2>9. QED
    BY <2>1, <2>4, <2>5, <2>6, <2>7, <2>8 DEF TokenSignals
<1>3. \A k \in Keys : entries[k] = Absent => entries'[k] = Absent
    BY <1>1 DEF Aged
<1>4. TypeOK'
    BY <1>2, <1>3 DEF Tick, IInv, TypeOK
<1>5. QED
    BY <1>2, <1>3, <1>4 DEF IInv, FiniteVotes, OneVotePerWallet, NoMissedQuorum

\* The trigger loop does not touch the entries.
LEMMA ReceiveInv == IInv /\ Receive => IInv'
    BY DEF Receive, IInv, TypeOK, FiniteVotes, OneVotePerWallet, NoMissedQuorum

\* Every reachable state of the engine is well typed, gives a wallet one vote
\* per key, and has triggered wherever it holds a quorum.
THEOREM ConsensusInvariant == Spec => []IInv
<1>1. IInv /\ [Next]_vars => IInv'
  <2> SUFFICES ASSUME IInv, [Next]_vars PROVE IInv'
    OBVIOUS
  <2>1. CASE Submit
    BY <2>1, SubmitInv
  <2>2. CASE Reject
    BY <2>2, RejectInv
  <2>3. CASE Revoke
    BY <2>3, RevokeInv
  <2>4. CASE Cleanup
    BY <2>4, CleanupInv
  <2>5. CASE Receive
    BY <2>5, ReceiveInv
  <2>6. CASE Tick
    BY <2>6, TickInv
  <2>7. CASE UNCHANGED vars
    BY <2>7 DEF vars, IInv, TypeOK, FiniteVotes, OneVotePerWallet, NoMissedQuorum
  <2>8. QED
    BY <2>1, <2>2, <2>3, <2>4, <2>5, <2>6, <2>7 DEF Next
<1>2. QED
    BY InitInv, <1>1, PTL DEF Spec

\* The values of the engine's map and of its trigger channel have their types.
THEOREM ConsensusTypeOK == Spec => []TypeOK
<1>1. IInv => TypeOK
    BY DEF IInv
<1>2. QED
    BY ConsensusInvariant, <1>1, PTL

\* A wallet has one vote per key, whatever it sends.
THEOREM ConsensusOneVote == Spec => []OneVotePerWallet
<1>1. IInv => OneVotePerWallet
    BY DEF IInv
<1>2. QED
    BY ConsensusInvariant, <1>1, PTL

\* An entry that has not triggered is short of its quorum.
THEOREM ConsensusNoMissedQuorum == Spec => []NoMissedQuorum
<1>1. IInv => NoMissedQuorum
    BY DEF IInv
<1>2. QED
    BY ConsensusInvariant, <1>1, PTL

-----------------------------------------------------------------------------
(* What a trigger owes to the buyer.                                       *)

\* The wallets of effective votes, one vote each, are as many as the votes.
LEMMA WalletsOfVotes ==
    ASSUME NEW S \in SUBSET Signal, IsFiniteSet(S),
           \A s, t \in S : s.wallet = t.wallet => s = t
    PROVE  /\ Cardinality({s.wallet : s \in Effective(S)}) = Cardinality(Effective(S))
           /\ Cardinality(Effective(S)) \in Nat
<1> DEFINE E == Effective(S)
           W == {s.wallet : s \in E}
           g == [s \in E |-> s.wallet]
<1>1. IsFiniteSet(E) /\ E \in SUBSET S
    BY FS_Subset DEF Effective
<1>2. g \in Surjection(E, W)
    BY DEF Surjection
<1>3. g \in Injection(E, W)
    BY <1>1 DEF Injection, IsInjective
<1>4. Cardinality(W) = Cardinality(E)
    BY <1>1, <1>2, <1>3, FS_Surjection
<1>5. QED
    BY <1>1, <1>4, FS_CardinalityType

\* Whatever is submitted, at most that one vote can be expired.
LEMMA AtMostOneExpired ==
    ASSUME NEW e \in TokenSignals, NEW s \in Signal
    PROVE  Cardinality({t \in Effective(SignalsAfter(e, s)) : t.age >= e.timeout}) <= 1
<1> DEFINE X == {t \in Effective(SignalsAfter(e, s)) : t.age >= e.timeout}
<1>1. e.signals \in SUBSET Signal /\ e.timeout \in Timeouts
    BY DEF TokenSignals
<1>2. /\ \A n \in Ages : n \in Int
      /\ e.timeout \in Int
  <2>1. MaxAge \in Nat /\ Timeouts \subseteq 1 .. MaxAge
    BY ConsensusAssumption
  <2>2. \A m \in 1 .. MaxAge : m \in Int
    BY <2>1
  <2>3. \A n \in Ages : n \in Int
    BY <2>1 DEF Ages
  <2>4. QED
    BY <1>1, <2>1, <2>2, <2>3
<1>3. \A t \in e.signals : t.age \in Ages
    BY <1>1 DEF Signal
<1>4. \A t \in Live(e.signals, e.timeout) : ~(t.age >= e.timeout)
    BY <1>2, <1>3 DEF Live
<1>5. X \in SUBSET {s}
    BY <1>4 DEF Effective, SignalsAfter
<1>6. IsFiniteSet({s}) /\ Cardinality({s}) = 1
    BY FS_Singleton
<1>7. Cardinality(X) <= Cardinality({s})
    BY <1>5, <1>6, FS_Subset
<1>8. QED
    BY <1>6, <1>7

\* A step that sends a trigger has the quorum behind it.
LEMMA SubmitBacked ==
    ASSUME IInv, Submit, Fired
    PROVE  LET t == triggers'[Len(triggers')]
           IN  entries'[t.key] # Absent /\ Backed(t, entries'[t.key])
<1> USE ConsensusAssumption, AbsentAssumption
<1>1. PICK k \in Keys, w \in Wallets, g \in Signatures, shape \in Shapes,
           lag \in 0 .. MaxLag, quorum \in Quorums, timeout \in Timeouts :
        submit_signal(k, [wallet |-> w, sig |-> g, shape |-> shape, age |-> lag],
                      quorum, timeout)
    BY DEF Submit
<1> DEFINE s == [wallet |-> w, sig |-> g, shape |-> shape, age |-> lag]
           e == EntryOf(k, quorum, timeout)
           S == SignalsAfter(e, s)
           t == triggers'[Len(triggers')]
<1>2. s \in Signal
    BY DEF Signal, Ages
<1>3. /\ e \in TokenSignals
      /\ e.min_wallets \in Nat
      /\ IsFiniteSet(e.signals)
      /\ \A u, v \in e.signals : u.wallet = v.wallet => u = v
    BY EntryInOrder
<1>4. /\ S \in SUBSET Signal
      /\ IsFiniteSet(S)
      /\ \A u, v \in S : u.wallet = v.wallet => u = v
    BY <1>2, <1>3, VotesAfterSubmission
<1>5. /\ entries' = [entries EXCEPT ![k] =
                        [e EXCEPT !.signals = S,
                                  !.triggered = e.triggered \/ Reaches(e, s)]]
      /\ IF Reaches(e, s) THEN Send(k, S) ELSE UNCHANGED triggers
    BY <1>1 DEF submit_signal
<1> HIDE DEF s, e, S
<1>6. Reaches(e, s) /\ Send(k, S)
    BY <1>5 DEF Fired, IInv, TypeOK
<1>7. PICK canonical \in Canonical(S), first \in First(S) :
        triggers' = Append(triggers,
                      [key |-> k, wallets |-> {u.wallet : u \in Effective(S)},
                       canonical |-> canonical, first_signature |-> first.sig])
    BY <1>6 DEF Send
<1>8. t = [key |-> k, wallets |-> {u.wallet : u \in Effective(S)},
           canonical |-> canonical, first_signature |-> first.sig]
    BY <1>7 DEF IInv, TypeOK
<1>9. /\ entries'[k] \in TokenSignals
      /\ entries'[k].triggered
      /\ entries'[k].signals = S
      /\ entries'[k].min_wallets = e.min_wallets
      /\ entries'[k].timeout = e.timeout
    BY <1>3, <1>4, <1>5, <1>6 DEF IInv, TypeOK, TokenSignals
<1>10. Cardinality(t.wallets) >= e.min_wallets
  <2>1. Cardinality(Effective(S)) >= e.min_wallets
    BY <1>6 DEF Reaches, should_trigger, S
  <2>2. QED
    BY <1>3, <1>4, <1>8, <2>1, WalletsOfVotes
<1>11. Cardinality({u \in Effective(S) : u.age >= e.timeout}) <= 1
    BY <1>2, <1>3, AtMostOneExpired DEF S
<1>12. /\ t.canonical \in S
       /\ \A u \in Effective(S) :
            canonical_score(u) <= canonical_score(t.canonical)
       /\ t.first_signature \in {u.sig : u \in Effective(S)}
    BY <1>8 DEF Canonical, First, Effective
<1>13. t.key = k /\ t.wallets = {u.wallet : u \in Effective(S)}
    BY <1>8
<1> HIDE DEF t
<1>14. Backed(t, entries'[k])
    BY <1>9, <1>10, <1>11, <1>12, <1>13 DEF Backed
<1>15. entries'[t.key] # Absent /\ Backed(t, entries'[t.key])
    BY <1>9, <1>13, <1>14
<1>16. QED
    BY <1>15 DEF t

\* Every trigger is backed: its wallets are distinct and as many as the
\* quorum asks, at most one vote is expired, and it names the best of them.
THEOREM ConsensusTriggerBacked == Spec => TriggerBackedByQuorum
<1> DEFINE Good == Fired => LET t == triggers'[Len(triggers')]
                            IN  entries'[t.key] # Absent /\ Backed(t, entries'[t.key])
<1>1. IInv /\ [Next]_vars => [Good]_vars
  <2> SUFFICES ASSUME IInv, Next, Fired, ~UNCHANGED vars
               PROVE  LET t == triggers'[Len(triggers')]
                      IN  entries'[t.key] # Absent /\ Backed(t, entries'[t.key])
    BY DEF vars
  <2>1. triggers \in Seq(ConsensusTrigger)
    BY DEF IInv, TypeOK
  <2>2. CASE Submit
    BY <2>2, SubmitBacked
  <2>3. CASE Reject \/ Revoke \/ Cleanup \/ Tick
    <3>1. UNCHANGED triggers
        BY <2>3 DEF Reject, reject_signal, Revoke, revoke_signal, Cleanup, Tick
    <3>2. QED
        BY <2>1, <3>1 DEF Fired
  <2>4. CASE Receive
    BY <2>1, <2>4 DEF Fired, Receive
  <2>5. QED
    BY <2>2, <2>3, <2>4 DEF Next
<1>2. QED
    BY ConsensusInvariant, <1>1, PTL DEF Spec, TriggerBackedByQuorum

=============================================================================
