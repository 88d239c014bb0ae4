-------------------------- MODULE StatusWord_proofs --------------------------
(***************************************************************************)
(* Facts about the word tests of StatusWord, for every 16-bit word.        *)
(***************************************************************************)
EXTENDS StatusWord, TLAPS

\* The if / else-if chain of ycoe_checkstatus takes the branch that belongs to
\* its target, for the four targets the control logic asks for: no earlier test
\* of the chain catches one of them (ycoe_controlstatus.c:43-62).
LEMMA BranchOfSoD ==
    \A k \in 1..8 : IsFirstBranch(SW_SWITCHON_DISABLED, k) <=> k = 2
<1> SUFFICES ASSUME NEW k \in 1..8
             PROVE  IsFirstBranch(SW_SWITCHON_DISABLED, k) <=> k = 2
  OBVIOUS
<1>1. ~Passes(SW_SWITCHON_DISABLED, StateTests[1])
  BY DEF Passes, Masked, StateTests, SW_SWITCHON_DISABLED, SW_MASK_NRTSO, SW_NRTSO
<1>2. Passes(SW_SWITCHON_DISABLED, StateTests[2])
  BY DEF Passes, Masked, StateTests, SW_SWITCHON_DISABLED, SW_MASK_SWON_DISABLED
<1>3. k = 1 \/ k = 2 \/ 2 \in 1..(k - 1)
  OBVIOUS
<1> QED
  BY <1>1, <1>2, <1>3 DEF IsFirstBranch

LEMMA BranchOfRTSO ==
    \A k \in 1..8 : IsFirstBranch(SW_RTSO, k) <=> k = 3
<1> SUFFICES ASSUME NEW k \in 1..8
             PROVE  IsFirstBranch(SW_RTSO, k) <=> k = 3
  OBVIOUS
<1>1. ~Passes(SW_RTSO, StateTests[1])
  BY DEF Passes, Masked, StateTests, SW_RTSO, SW_MASK_NRTSO, SW_NRTSO
<1>2. ~Passes(SW_RTSO, StateTests[2])
  BY DEF Passes, Masked, StateTests, SW_RTSO, SW_MASK_SWON_DISABLED,
         SW_SWITCHON_DISABLED
<1>3. Passes(SW_RTSO, StateTests[3])
  BY DEF Passes, Masked, StateTests, SW_RTSO, SW_MASK_RSOQ
<1>4. k \in 1..3 \/ 3 \in 1..(k - 1)
  OBVIOUS
<1> QED
  BY <1>1, <1>2, <1>3, <1>4 DEF IsFirstBranch

LEMMA BranchOfSwitchedOn ==
    \A k \in 1..8 : IsFirstBranch(SW_SWITCHED_ON, k) <=> k = 4
<1> SUFFICES ASSUME NEW k \in 1..8
             PROVE  IsFirstBranch(SW_SWITCHED_ON, k) <=> k = 4
  OBVIOUS
<1>1. ~Passes(SW_SWITCHED_ON, StateTests[1])
  BY DEF Passes, Masked, StateTests, SW_SWITCHED_ON, SW_MASK_NRTSO, SW_NRTSO
<1>2. ~Passes(SW_SWITCHED_ON, StateTests[2])
  BY DEF Passes, Masked, StateTests, SW_SWITCHED_ON, SW_MASK_SWON_DISABLED,
         SW_SWITCHON_DISABLED
<1>3. ~Passes(SW_SWITCHED_ON, StateTests[3])
  <2>1. 1 \in SW_SWITCHED_ON \cap SW_MASK_RSOQ /\ 1 \notin SW_RTSO
    BY DEF SW_SWITCHED_ON, SW_MASK_RSOQ, SW_RTSO
  <2> QED
    BY <2>1 DEF Passes, Masked, StateTests
<1>4. Passes(SW_SWITCHED_ON, StateTests[4])
  BY DEF Passes, Masked, StateTests, SW_SWITCHED_ON, SW_MASK_RSOQ
<1>5. k \in 1..4 \/ 4 \in 1..(k - 1)
  OBVIOUS
<1> QED
  BY <1>1, <1>2, <1>3, <1>4, <1>5 DEF IsFirstBranch

LEMMA BranchOfOpEnabled ==
    \A k \in 1..8 : IsFirstBranch(SW_OP_ENABLED, k) <=> k = 5
<1> SUFFICES ASSUME NEW k \in 1..8
             PROVE  IsFirstBranch(SW_OP_ENABLED, k) <=> k = 5
  OBVIOUS
<1>1. ~Passes(SW_OP_ENABLED, StateTests[1])
  BY DEF Passes, Masked, StateTests, SW_OP_ENABLED, SW_MASK_NRTSO, SW_NRTSO
<1>2. ~Passes(SW_OP_ENABLED, StateTests[2])
  BY DEF Passes, Masked, StateTests, SW_OP_ENABLED, SW_MASK_SWON_DISABLED,
         SW_SWITCHON_DISABLED
<1>3. ~Passes(SW_OP_ENABLED, StateTests[3])
  <2>1. 1 \in SW_OP_ENABLED \cap SW_MASK_RSOQ /\ 1 \notin SW_RTSO
    BY DEF SW_OP_ENABLED, SW_MASK_RSOQ, SW_RTSO
  <2> QED
    BY <2>1 DEF Passes, Masked, StateTests
<1>4. ~Passes(SW_OP_ENABLED, StateTests[4])
  <2>1. 2 \in SW_OP_ENABLED \cap SW_MASK_RSOQ /\ 2 \notin SW_SWITCHED_ON
    BY DEF SW_OP_ENABLED, SW_MASK_RSOQ, SW_SWITCHED_ON
  <2> QED
    BY <2>1 DEF Passes, Masked, StateTests
<1>5. Passes(SW_OP_ENABLED, StateTests[5])
  BY DEF Passes, Masked, StateTests, SW_OP_ENABLED, SW_MASK_RSOQ
<1>6. k \in 1..5 \/ 5 \in 1..(k - 1)
  OBVIOUS
<1> QED
  BY <1>1, <1>2, <1>3, <1>4, <1>5, <1>6 DEF IsFirstBranch

\* None of the four targets has one of the three flag bits, so ycoe_checkstatus
\* counts its state test only.
LEMMA NoFlags ==
    ASSUME NEW status,
           NEW t \in {SW_SWITCHON_DISABLED, SW_RTSO, SW_SWITCHED_ON, SW_OP_ENABLED}
    PROVE  HasStatus(status, t) <=> StateHit(status, t)
<1>1. /\ ~FlagHit(status, t, SW_MAIN_POWERON)
      /\ ~FlagHit(status, t, SW_WARNING)
      /\ ~FlagHit(status, t, SW_INTERNAL_LIMIT)
  <2>1. 4 \notin t /\ 7 \notin t /\ 11 \notin t
    BY DEF SW_SWITCHON_DISABLED, SW_RTSO, SW_SWITCHED_ON, SW_OP_ENABLED
  <2> QED
    BY <2>1 DEF FlagHit, SW_MAIN_POWERON, SW_WARNING, SW_INTERNAL_LIMIT
<1> QED
  BY <1>1 DEF HasStatus, ycoe_checkstatus, One

\* What the control logic reads from any statusword, legal or not: each of its
\* four tests is the masked comparison its constant is documented with
\* (ycoe_controlstatus.h:19-39).
THEOREM StatusTestsExact ==
    ASSUME NEW status
    PROVE  /\ HasStatus(status, SW_SWITCHON_DISABLED)
                 <=> Masked(status, SW_MASK_SWON_DISABLED, SW_SWITCHON_DISABLED)
           /\ HasStatus(status, SW_RTSO)
                 <=> Masked(status, SW_MASK_RSOQ, SW_RTSO)
           /\ HasStatus(status, SW_SWITCHED_ON)
                 <=> Masked(status, SW_MASK_RSOQ, SW_SWITCHED_ON)
           /\ HasStatus(status, SW_OP_ENABLED)
                 <=> Masked(status, SW_MASK_RSOQ, SW_OP_ENABLED)
<1>1. /\ Passes(status, StateTests[2])
            <=> Masked(status, SW_MASK_SWON_DISABLED, SW_SWITCHON_DISABLED)
      /\ Passes(status, StateTests[3]) <=> Masked(status, SW_MASK_RSOQ, SW_RTSO)
      /\ Passes(status, StateTests[4])
            <=> Masked(status, SW_MASK_RSOQ, SW_SWITCHED_ON)
      /\ Passes(status, StateTests[5])
            <=> Masked(status, SW_MASK_RSOQ, SW_OP_ENABLED)
  BY DEF Passes, StateTests
<1>2. /\ StateHit(status, SW_SWITCHON_DISABLED) <=> Passes(status, StateTests[2])
      /\ StateHit(status, SW_RTSO)        <=> Passes(status, StateTests[3])
      /\ StateHit(status, SW_SWITCHED_ON) <=> Passes(status, StateTests[4])
      /\ StateHit(status, SW_OP_ENABLED)  <=> Passes(status, StateTests[5])
  BY BranchOfSoD, BranchOfRTSO, BranchOfSwitchedOn, BranchOfOpEnabled DEF StateHit
<1> QED
  BY <1>1, <1>2, NoFlags
=============================================================================
