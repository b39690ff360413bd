----------------------------- MODULE Consensus -----------------------------
(***************************************************************************)
(* The consensus engine (consensus/engine.rs): one entry per (group, mint) *)
(* key collects the buy signals of the group's smart wallets; the signal   *)
(* that completes the quorum sends one ConsensusTrigger into an unbounded  *)
(* channel read by the trigger loop of main.rs.                            *)
(*                                                                         *)
(* An Instant is modelled by the age of the signal, which Tick advances    *)
(* and which saturates at MaxAge: every test of the code compares an age   *)
(* with the timeout of the entry, and no timeout exceeds MaxAge.  The Vec  *)
(* of an entry is a set; the ties that max_by_key and min_by_key break by  *)
(* position are broken nondeterministically.                               *)
(*                                                                         *)
(* A definition with a suffix (LiveUnpruned, PriorBySignature, ...) is a   *)
(* plausible wrong version of the one that follows it, used only to see    *)
(* that the properties tell the two apart.                                 *)
(***************************************************************************)
EXTENDS Integers, Sequences, FiniteSets

CONSTANTS
    Keys,         \* ConsensusKey: pairs of a group and a mint
    Wallets,      \* smart wallets
    Signatures,   \* transaction signatures
    Shapes,       \* what a parsed trade can carry (records of ShapeType)
    Quorums,      \* values of consensus_min_wallets the groups use
    Timeouts,     \* values of consensus_timeout_secs, in ticks
    MaxAge,       \* ages saturate here
    MaxLag,       \* how old a signal can be when the main loop submits it
    MaxQueued,    \* bound on the unread triggers in the channel
    Absent        \* no entry under a key

ShapeType == [instr : BOOLEAN, accounts : BOOLEAN, sol : BOOLEAN,
              pre : BOOLEAN, wrapper : BOOLEAN]

\* main.rs calls the engine only for groups with consensus_min_wallets > 1,
\* and the engine raises a timeout of 0 to 1.
ASSUME ConsensusAssumption ==
    /\ Shapes \subseteq ShapeType
    /\ Quorums \subseteq Nat \ {0, 1}
    /\ MaxAge \in Nat
    /\ MaxLag \in 0 .. MaxAge
    /\ Timeouts \subseteq 1 .. MaxAge
    /\ MaxQueued \in Nat

Ages == 0 .. MaxAge

Signal == [wallet : Wallets, sig : Signatures, shape : Shapes, age : Ages]

TokenSignals == [signals : SUBSET Signal, triggered : BOOLEAN,
                 min_wallets : Quorums, timeout : Timeouts]

ConsensusTrigger == [key : Keys, wallets : SUBSET Wallets,
                     canonical : Signal, first_signature : Signatures]

ASSUME AbsentAssumption == Absent \notin TokenSignals

VARIABLES
    entries,    \* the DashMap: key -> TokenSignals or Absent
    triggers    \* the unbounded trigger channel, oldest first

vars == <<entries, triggers>>

-----------------------------------------------------------------------------
(* BuySignal.                                                              *)

Weight(b, n) == IF b THEN n ELSE 0

\* canonical_score: a decodable instruction outweighs its accounts, these
\* outweigh a known amount, and a landed observation breaks the ties.
canonical_score(s) ==
    Weight(s.shape.instr, 8) + Weight(s.shape.accounts, 4)
      + Weight(s.shape.sol, 2) + Weight(~s.shape.pre, 1)

counts_for_candidate_consensus(s) ==
    s.shape.instr \/ s.shape.sol \/ s.shape.wrapper

should_replace_signal(existing, incoming) ==
    \/ canonical_score(incoming) > canonical_score(existing)
    \/ /\ canonical_score(incoming) = canonical_score(existing)
       /\ ~incoming.shape.pre
       /\ existing.shape.pre

(* TokenSignals and the tally of its votes.                                *)

LiveUnpruned(signals, timeout) == signals

Live(signals, timeout) == {s \in signals : s.age < timeout}

Effective(signals) == {s \in signals : counts_for_candidate_consensus(s)}

\* should_trigger counts the effective signals, not their distinct wallets.
should_trigger(signals, min_wallets) ==
    Cardinality(Effective(signals)) >= min_wallets

Canonical(signals) ==
    {s \in Effective(signals) :
        \A t \in Effective(signals) : canonical_score(t) <= canonical_score(s)}

First(signals) ==
    {s \in Effective(signals) : \A t \in Effective(signals) : t.age <= s.age}

EntryOfOneShort(k, quorum, timeout) ==
    IF entries[k] = Absent
      THEN [signals |-> {}, triggered |-> FALSE,
            min_wallets |-> quorum - 1, timeout |-> timeout]
      ELSE entries[k]

\* The entry under k, created with the quorum and the timeout of the
\* signal that arrives first: later changes of the group do not reach it.
EntryOf(k, quorum, timeout) ==
    IF entries[k] = Absent
      THEN [signals |-> {}, triggered |-> FALSE,
            min_wallets |-> quorum, timeout |-> timeout]
      ELSE entries[k]

PriorBySignature(e, s) ==
    {t \in Live(e.signals, e.timeout) : t.wallet = s.wallet /\ t.sig = s.sig}

\* The signals of the wallet of s that are still live in entry e.
Prior(e, s) == {t \in Live(e.signals, e.timeout) : t.wallet = s.wallet}

\* s takes part in entry e: it upgrades the wallet's own vote, or is the
\* wallet's first one and the entry has not triggered.
Admitted(e, s) ==
    IF Prior(e, s) = {} THEN ~e.triggered
                        ELSE \E t \in Prior(e, s) : should_replace_signal(t, s)

SignalsAfter(e, s) ==
    IF Admitted(e, s)
      THEN (Live(e.signals, e.timeout) \ Prior(e, s)) \cup {s}
      ELSE Live(e.signals, e.timeout)

ReachesOnNewVoteOnly(e, s) ==
    /\ Prior(e, s) = {}
    /\ ~e.triggered
    /\ should_trigger(SignalsAfter(e, s), e.min_wallets)

Reaches(e, s) ==
    /\ Admitted(e, s)
    /\ ~e.triggered
    /\ should_trigger(SignalsAfter(e, s), e.min_wallets)

-----------------------------------------------------------------------------
(* Operations of ConsensusEngine.                                          *)

Init ==
    /\ entries = [k \in Keys |-> Absent]
    /\ triggers = <<>>

Send(k, signals) ==
  /\ Len(triggers) < MaxQueued
  /\ \E canonical \in Canonical(signals), first \in First(signals) :
        triggers' = Append(triggers,
                        [key |-> k,
                         wallets |-> {s.wallet : s \in Effective(signals)},
                         canonical |-> canonical,
                         first_signature |-> first.sig])

submit_signal(k, s, quorum, timeout) ==
    LET e == EntryOf(k, quorum, timeout)
    IN  /\ entries' = [entries EXCEPT ![k] =
                         [e EXCEPT !.signals = SignalsAfter(e, s),
                                   !.triggered = e.triggered \/ Reaches(e, s)]]
        /\ IF Reaches(e, s) THEN Send(k, SignalsAfter(e, s))
                            ELSE UNCHANGED triggers

Submit ==
    \E k \in Keys, w \in Wallets, g \in Signatures, shape \in Shapes,
       lag \in 0 .. MaxLag, quorum \in Quorums, timeout \in Timeouts :
        submit_signal(k, [wallet |-> w, sig |-> g, shape |-> shape, age |-> lag],
                      quorum, timeout)

\* A landed failure takes the vote back.  The flag is recomputed from the
\* votes that are left, whether or not one was removed.
reject_signal(k, w, g) ==
    /\ entries[k] # Absent
    /\ LET left == {s \in entries[k].signals : ~(s.wallet = w /\ s.sig = g)}
       IN  entries' = [entries EXCEPT
                         ![k].signals = left,
                         ![k].triggered =
                             should_trigger(left, entries[k].min_wallets)]
    /\ UNCHANGED triggers

\* revoke_signal: public, but no caller in the program.
revoke_signal(k, w) ==
    /\ entries[k] # Absent
    /\ ~entries[k].triggered
    /\ entries' = [entries EXCEPT
                     ![k].signals = {s \in @ : s.wallet # w}]
    /\ UNCHANGED triggers

SweptKeepingEmpty(e) ==
    IF e = Absent THEN Absent
                  ELSE [e EXCEPT !.signals = Live(e.signals, e.timeout)]

\* The cleanup task.  Its second test, for triggered entries twice as old
\* as the timeout, follows the removal of everything older than one timeout
\* and never holds.
Swept(e) ==
    IF e = Absent \/ Live(e.signals, e.timeout) = {}
      THEN Absent
      ELSE [e EXCEPT !.signals = Live(e.signals, e.timeout)]

Cleanup ==
    /\ entries' = [k \in Keys |-> Swept(entries[k])]
    /\ UNCHANGED triggers

-----------------------------------------------------------------------------
(* The environment of the engine.                                          *)

\* The trigger loop takes the oldest trigger.
Receive ==
    /\ triggers # <<>>
    /\ triggers' = Tail(triggers)
    /\ UNCHANGED entries

Older(s) == [s EXCEPT !.age = IF @ < MaxAge THEN @ + 1 ELSE MaxAge]

Aged(e) ==
    IF e = Absent THEN Absent
                  ELSE [e EXCEPT !.signals = {Older(s) : s \in @}]

Tick ==
    /\ entries' = [k \in Keys |-> Aged(entries[k])]
    /\ UNCHANGED triggers

Reject == \E k \in Keys, w \in Wallets, g \in Signatures : reject_signal(k, w, g)

Revoke == \E k \in Keys, w \in Wallets : revoke_signal(k, w)

Next == Submit \/ Reject \/ Revoke \/ Cleanup \/ Receive \/ Tick

Spec == Init /\ [][Next]_vars

\* The cleanup task is a loop around a sleep, the trigger loop awaits its
\* channel, and time passes: each is scheduled for ever.  Nothing forces a
\* wallet to trade.
FairSpec == Spec /\ WF_vars(Cleanup) /\ WF_vars(Receive) /\ WF_vars(Tick)

-----------------------------------------------------------------------------
(* Properties.                                                             *)

TypeOK ==
    /\ entries \in [Keys -> TokenSignals \cup {Absent}]
    /\ triggers \in Seq(ConsensusTrigger)

\* submit_signal looks a wallet up before it pushes, so a wallet has one
\* vote however many transactions, copies or upgrades it sends.  The quorum
\* counts signals, and is one of wallets only because of this.
OneVotePerWallet ==
    \A k \in Keys : entries[k] # Absent =>
        \A s, t \in entries[k].signals : s.wallet = t.wallet => s = t

\* No quorum is missed: whatever mixture of votes, upgrades, expiries and
\* rejections led here, an entry that has not triggered is short of votes.
NoMissedQuorum ==
    \A k \in Keys : entries[k] # Absent /\ ~entries[k].triggered =>
        ~should_trigger(entries[k].signals, entries[k].min_wallets)

\* What a step that sends a trigger owes to the trigger loop: the wallets it
\* names are as many as the quorum of the entry, each backed by an effective
\* vote, no vote is expired but the one just submitted when the main loop
\* lags, and the transaction put forward is the best of them.
Fired == Len(triggers') > Len(triggers)

Backed(t, e) ==
    /\ e.triggered
    /\ Cardinality(t.wallets) >= e.min_wallets
    /\ t.wallets = {s.wallet : s \in Effective(e.signals)}
    /\ Cardinality({s \in Effective(e.signals) : s.age >= e.timeout}) <= 1
    /\ t.canonical \in e.signals
    /\ \A s \in Effective(e.signals) :
            canonical_score(s) <= canonical_score(t.canonical)
    /\ t.first_signature \in {s.sig : s \in Effective(e.signals)}

TriggerBackedByQuorum ==
    [][Fired => LET t == triggers'[Len(triggers')]
                IN  entries'[t.key] # Absent /\ Backed(t, entries'[t.key])]_vars

\* A key is never lost to its first trigger: the flag that turns new wallets
\* away is eventually released, because upgrades only raise the score of a
\* vote, expired votes are not renewed, and the cleanup drops the empty entry.
TriggeredIsReleased ==
    \A k \in Keys :
        (entries[k] # Absent /\ entries[k].triggered)
            ~> (entries[k] = Absent \/ ~entries[k].triggered)

=============================================================================
