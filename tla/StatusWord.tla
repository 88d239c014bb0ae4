----------------------------- MODULE StatusWord -----------------------------
(***************************************************************************)
(* The 16-bit controlword and statusword of a CiA 402 drive and the tests  *)
(* the master makes on them: ycoe/ycoe_controlstatus.[ch] and the word     *)
(* tests of ycoe/ycoe_profile_position.[ch].                               *)
(*                                                                         *)
(* A word is the set of the positions of its 1 bits, so the C expressions  *)
(* a & b, a | b and (a & m) == t are a \cap b, a \cup b and                *)
(* Masked(a, m, t).  0x2F, for instance, is {0, 1, 2, 3, 5}.               *)
(***************************************************************************)
EXTENDS Naturals

Bits == 0..15
Word == SUBSET Bits

Masked(word, mask, value) == word \cap mask = value

-----------------------------------------------------------------------------
\* Controlword values: bits 0 to 3 and 8.
CW_SHUTDOWN == {1, 2}
CW_SWITCHON == {0, 1, 2}
CW_ENABLEOP == {0, 1, 2, 3}
CW_HALT     == {8}

\* Controlword values of the profile position mode: bits 4 and 5.
CW_PPM_SNPI1     == {5}
CW_PPM_SNPI2     == {4, 5}
CW_PPM_MASK_SNPI == {4, 5}

\* Statusword values and the masks they are compared under.
SW_NRTSO             == {}
SW_SWITCHON_DISABLED == {6}
SW_RTSO              == {0, 5}
SW_SWITCHED_ON       == {0, 1, 5}
SW_OP_ENABLED        == {0, 1, 2, 5}
SW_QUICK_STOP        == {0, 1, 2}
SW_FAULT_ACTIVE      == {0, 1, 2, 3}
SW_FAULT             == {3}
SW_MAIN_POWERON      == {4}
SW_WARNING           == {7}
SW_INTERNAL_LIMIT    == {11}

SW_MASK_NRTSO         == {0, 1, 2, 3, 6}
SW_MASK_SWON_DISABLED == {6}
SW_MASK_RSOQ          == {0, 1, 2, 3, 5}
SW_MASK_FAULT         == {0, 1, 2, 3}

\* Statusword bit of the profile position mode.
SW_PPM_SETPOINT_ACK == {12}

-----------------------------------------------------------------------------
\* The (mask, value) pairs of the if / else-if chain of ycoe_checkstatus, in
\* the order the code tries them.
StateTests == << <<SW_MASK_NRTSO,         SW_NRTSO>>,
                 <<SW_MASK_SWON_DISABLED, SW_SWITCHON_DISABLED>>,
                 <<SW_MASK_RSOQ,          SW_RTSO>>,
                 <<SW_MASK_RSOQ,          SW_SWITCHED_ON>>,
                 <<SW_MASK_RSOQ,          SW_OP_ENABLED>>,
                 <<SW_MASK_RSOQ,          SW_QUICK_STOP>>,
                 <<SW_MASK_FAULT,         SW_FAULT_ACTIVE>>,
                 <<SW_MASK_FAULT,         SW_FAULT>> >>

Passes(word, test) == Masked(word, test[1], test[2])

\* The chain takes the first branch whose test the TARGET passes; that branch
\* counts 1 when the statusword passes the same test.
IsFirstBranch(target, k) ==
    /\ Passes(target, StateTests[k])
    /\ \A j \in 1..(k - 1) : ~Passes(target, StateTests[j])

StateHit(status, target) ==
    \E k \in 1..8 : /\ Passes(status, StateTests[k])
                    /\ IsFirstBranch(target, k)

\* Three more bits are tested after the chain, each on its own.
FlagHit(status, target, flag) ==
    flag \subseteq target /\ flag \subseteq status

One(b) == IF b THEN 1 ELSE 0

\* ycoe_checkstatus: the number of hits; its callers only test it for non-zero.
ycoe_checkstatus(status, target) ==
      One(StateHit(status, target))
    + One(FlagHit(status, target, SW_MAIN_POWERON))
    + One(FlagHit(status, target, SW_WARNING))
    + One(FlagHit(status, target, SW_INTERNAL_LIMIT))

\* The form the control logic uses: if (ycoe_checkstatus(slave, target)).
HasStatus(status, target) == ycoe_checkstatus(status, target) # 0

\* ycoe_ppm_checkcontrol: the SNPI field equals the target, for the two
\* targets the function knows; any other target is never matched.
ycoe_ppm_checkcontrol(control, target) ==
    /\ target \in {CW_PPM_SNPI1, CW_PPM_SNPI2}
    /\ Masked(control, CW_PPM_MASK_SNPI, target)

\* ycoe_ppm_checkstatus: some bit of the target is set in the statusword.
ycoe_ppm_checkstatus(status, target) == status \cap target # {}
=============================================================================
