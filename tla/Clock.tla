------------------------------- MODULE Clock -------------------------------
(***************************************************************************)
(* firmware/clock.rs: the Clocks handle of a finished Board, with ddi.rs   *)
(* and the ROM function of ti_rom.c. Its owner calls the three methods as  *)
(* often and in whatever order it likes, masked or not, and take() again   *)
(* in between, while the crystal starts at its own pace - or never.        *)
(***************************************************************************)
EXTENDS Board

VARIABLES
    ctl0,       \* the bits of DDI CTL0 that are set
    onCrystal,  \* STAT0.SCLK_HF_SRC
    pending,    \* STAT0.PENDINGSCLKHFSWITCHING
    turn,       \* the next statement of try_switch_to_hf_crystal, or "idle"
    saved,      \* its primask
    switched,   \* its last answer
    ready,      \* history: hf_crystal_ready has answered true
    wanted      \* history: the mask the owner set

osc == <<ctl0, onCrystal, pending>>
call == <<turn, saved, switched, ready>>
board == <<prcm, devices, pads, fg>>
clockVars == <<vars, osc, call, wanted>>

SclkHfSrcSel == "SCLK_HF_SRC_SEL"
ClkDcdcSrcSel == "CLK_DCDC_SRC_SEL"

\* Startup leaves HF and DC/DC on RCOSC.
ClockInit ==
    /\ Init
    /\ ctl0 = {ClkDcdcSrcSel}
    /\ onCrystal = FALSE
    /\ pending = FALSE
    /\ turn = "idle"
    /\ saved = FALSE
    /\ switched = FALSE
    /\ ready = FALSE
    /\ wanted = FALSE

\* The DDI's SET and CLR windows
SetBits(bits) == ctl0' = ctl0 \cup bits
ClearBits(bits) == ctl0' = ctl0 \ bits

\* The crystal has started.
CrystalStarts ==
    /\ SclkHfSrcSel \in ctl0 /\ ~onCrystal /\ ~pending
    /\ pending' = TRUE
    /\ UNCHANGED <<board, primask, ctl0, onCrystal, call, wanted>>

-----------------------------------------------------------------------------
(* The owner of the handle *)

HasHandle == outcome \in {"board", "none"} /\ turn = "idle"

\* A masked section of its own
Mask(on) ==
    /\ HasHandle
    /\ primask' = on
    /\ wanted' = on
    /\ UNCHANGED <<board, osc, call>>

RequestHfCrystal ==
    /\ HasHandle
    /\ SetBits({SclkHfSrcSel})
    /\ UNCHANGED <<board, primask, onCrystal, pending, call, wanted>>

HfCrystalReady ==
    /\ HasHandle
    /\ ready' = (ready \/ onCrystal \/ pending)
    /\ UNCHANGED <<board, primask, osc, turn, saved, switched, wanted>>

\* try_switch_to_hf_crystal: one reading of STAT0 decides.
TrySwitch ==
    /\ HasHandle
    /\ switched' = onCrystal
    /\ turn' = IF ~onCrystal /\ pending THEN "mask" ELSE "idle"
    /\ UNCHANGED <<board, primask, osc, saved, ready, wanted>>

SaveAndDisable ==
    /\ turn = "mask"
    /\ saved' = primask
    /\ primask' = TRUE
    /\ turn' = "rom"
    /\ UNCHANGED <<board, osc, switched, ready, wanted>>

\* HapiHFSourceSafeSwitch returns when the switch is done.
HfSourceSafeSwitch ==
    /\ turn = "rom" /\ pending
    /\ onCrystal' = TRUE
    /\ pending' = FALSE
    /\ turn' = "dcdc"
    /\ UNCHANGED <<board, primask, ctl0, saved, switched, ready, wanted>>

ReturnDcdc ==
    /\ turn = "dcdc"
    /\ ClearBits({ClkDcdcSrcSel})
    /\ turn' = "restore"
    /\ UNCHANGED <<board, primask, onCrystal, pending, saved, switched, ready, wanted>>

\* Mutation: interrupts are enabled instead.
EnableMask ==
    /\ turn = "restore"
    /\ primask' = FALSE
    /\ switched' = TRUE
    /\ turn' = "idle"
    /\ UNCHANGED <<board, osc, saved, ready, wanted>>

RestoreMask ==
    /\ turn = "restore"
    /\ primask' = saved
    /\ switched' = TRUE
    /\ turn' = "idle"
    /\ UNCHANGED <<board, osc, saved, ready, wanted>>

-----------------------------------------------------------------------------
BoardStep ==
    /\ Power \/ Load \/ Proceed \/ (turn = "idle" /\ Take)
    /\ UNCHANGED <<osc, call, wanted>>

ClockNext ==
    \/ BoardStep \/ CrystalStarts
    \/ \E on \in BOOLEAN : Mask(on)
    \/ RequestHfCrystal \/ HfCrystalReady \/ TrySwitch
    \/ SaveAndDisable \/ HfSourceSafeSwitch \/ ReturnDcdc \/ RestoreMask

\* As FairSpec: the CPU runs, the crystal need not start.
ClockSpec ==
    /\ ClockInit /\ [][ClockNext]_clockVars
    /\ WF_clockVars(Proceed /\ UNCHANGED <<osc, call, wanted>>)

-----------------------------------------------------------------------------
(* Properties *)

\* The source changes only under a mask, of a crystal that has started, and the
\* regulator follows it, never leads. Between calls regulator and source
\* agree, interrupts are as the owner wants them, an answer of
\* try_switch_to_hf_crystal is true for good and one of hf_crystal_ready
\* promises that the next attempt succeeds.
SwitchSound ==
    /\ turn \in {"mask", "rom"} => pending
    /\ turn \in {"rom", "dcdc", "restore"} => primask
    /\ ClkDcdcSrcSel \notin ctl0 => onCrystal
    /\ ready => onCrystal \/ pending
    /\ HasHandle =>
           /\ onCrystal <=> ClkDcdcSrcSel \notin ctl0
           /\ primask = wanted
           /\ switched => onCrystal
=============================================================================
