------------------------------ MODULE ModemStart ------------------------------
(***************************************************************************)
(* Switching the 4G modem on at the boot (modem_power_on, modem_already_on *)
(* and wait_at_raw of main/cellular_link.c) and its recovery later         *)
(* (reset_modem_inner).  On the LilyGO module a pulse on PWRKEY inverts    *)
(* the state of the modem, which has a supply of its own and may have been *)
(* on, in a data call or half way through its own start when the board     *)
(* restarted.                                                              *)
(***************************************************************************)
EXTENDS Integers

CONSTANTS
    MaxLost,   \* bound: checks whose answers the noise on the line eats
    MaxHangs   \* bound: times the modem stops answering or loses its supply

VARIABLES
    kind,   \* cellular_is_sim868, cellular_simcom_std
    reset,  \* esp_reset_reason() is ESP_RST_POWERON
    modem,  \* off, stopping, starting, at (takes commands), cmux, busy (cmux with data),
            \* data (a call without cmux), hung
    pc,     \* where modem_power_on is
    alone,  \* wait_at_raw and modem_already_on can open the UART
    lost, hangs

moVars == <<kind, reset, modem, pc, alone, lost, hangs>>
fixed == <<kind, reset, alone, hangs>>

Kinds == {"lilygo", "simcom", "sim868"}
On == {"at", "cmux", "busy", "data"}

(* A power cut switches the modem off; the original SIMCom module starts   *)
(* by itself.                                                              *)
AtReset(k, cold) ==
    IF cold THEN IF k = "simcom" THEN {"starting"} ELSE {"off"}
            ELSE On \cup {"starting"} \cup (IF k = "simcom" THEN {} ELSE {"off"})

MoInit ==
    /\ kind \in Kinds /\ reset \in BOOLEAN /\ alone \in BOOLEAN
    /\ modem \in AtReset(kind, reset)
    /\ pc = (IF kind = "simcom" THEN "settle" ELSE IF alone THEN "probe" ELSE "pulse")
    /\ lost = 0 /\ hangs = 0

---------------------------------------------------------------------------
Eaten == lost < MaxLost /\ lost' = lost + 1

(* A check of the line: the modem is there and heard, or the noise eats    *)
(* its answer.                                                             *)
Check(there, yes, no) ==
    \/ pc' = (IF there THEN yes ELSE no) /\ UNCHANGED lost
    \/ there /\ Eaten /\ pc' = no

(* probe_at: "OK" to an AT, twice.                                         *)
ProbesAt ==
    /\ pc = "probe" /\ Check(modem = "at", "done", "mux")
    /\ UNCHANGED <<fixed, modem>>

(* The SABM of channel 0: cmux_reply, or a frame of data (cmux_uih_seen)   *)
(* that comes before the answer.                                           *)
OpensMux ==
    /\ pc = "mux" /\ Check(modem \in {"cmux", "busy"}, "close", "escape")
    /\ UNCHANGED <<fixed, modem>>

(* The CLD: back to commands.                                              *)
ClosesMux ==
    /\ pc = "close" /\ modem' = "at" /\ pc' = "done"
    /\ UNCHANGED <<fixed, lost>>

(* "+++", then AT: out of a data call without a multiplexer.  What the     *)
(* modem does with it does not depend on its answer being heard.           *)
Escapes ==
    /\ pc = "escape"
    /\ modem' = (IF modem = "data" THEN "at" ELSE modem)
    /\ Check(modem' = "at", "done", IF reset THEN "pulse" ELSE "patience")
    /\ UNCHANGED fixed

(* A restart without a power cut: the modem may be starting, 15 to 20 s.   *)
Waits ==
    /\ pc = "patience"
    /\ modem' = (IF modem = "starting" THEN "at" ELSE modem)
    /\ Check(modem' = "at", "done", "pulse")
    /\ UNCHANGED fixed

Off(m) == m \in {"off", "stopping"}

(* The pulse on PWRKEY.                                                    *)
Toggled == IF Off(modem) THEN "starting" ELSE "stopping"
Pulses ==
    /\ pc = "pulse" /\ modem' = Toggled
    /\ pc' = (IF kind = "sim868" THEN "settle" ELSE "verify")
    /\ UNCHANGED <<fixed, lost>>

(* A modem that is left alone for the time of its start.                   *)
Settled(m) == CASE m = "starting" -> "at" [] m = "stopping" -> "off" [] OTHER -> m

(* wait_at_raw after the first pulse: signs of life of the text of a modem *)
(* (modem_alive_text); the frames of one that is going off are none.       *)
Alive(m) == m = "at"
Verifies ==
    /\ pc = "verify" /\ modem' = Settled(modem)
    /\ pc' = (IF ~alone \/ Alive(modem') THEN "done" ELSE "again")
    /\ UNCHANGED <<fixed, lost>>

PulsesAgain ==
    /\ pc = "again" /\ modem' = Toggled /\ pc' = "settle"
    /\ UNCHANGED <<fixed, lost>>

(* The last wait, whose answer changes nothing.                            *)
Settles ==
    /\ pc = "settle" /\ modem' = Settled(modem) /\ pc' = "done"
    /\ UNCHANGED <<fixed, lost>>

(* The modem ends its start by itself.                                     *)
Starts ==
    /\ modem = "starting" /\ modem' = "at"
    /\ UNCHANGED <<fixed, pc, lost>>

---------------------------------------------------------------------------
(* The recovery of a modem through which the 4G does not come up.          *)

Recovers ==
    /\ pc = "done" /\ modem \in {"off", "stopping", "hung"} /\ pc' = "cfun"
    /\ UNCHANGED <<fixed, modem, lost>>

(* AT+CFUN=1,1 is not answered: the long pulse, which the original SIMCom  *)
(* module does not have.                                                   *)
LongPulse ==
    /\ pc = "cfun"
    /\ IF kind = "simcom" THEN pc' = "done" /\ UNCHANGED modem
       ELSE pc' = "look" /\ modem' = (IF Off(modem) THEN "starting" ELSE "off")
    /\ UNCHANGED <<fixed, lost>>

(* Mutant: what the long pulse did is not looked at.                       *)
LooksAtNothing ==
    /\ pc = "look" /\ modem' = Settled(modem) /\ pc' = "blind"
    /\ UNCHANGED <<fixed, lost>>

(* Twenty AT: the long pulse has switched on a modem that was off.         *)
Looks ==
    /\ pc = "look" /\ modem' = Settled(modem)
    /\ Check(modem' = "at", "done", "blind")
    /\ UNCHANGED fixed

(* modem_power_on with probe = false.                                      *)
PulsesBlind ==
    /\ pc = "blind" /\ modem' = Toggled /\ pc' = "settle"
    /\ UNCHANGED <<fixed, lost>>

(* The modem itself.                                                       *)
Fails ==
    /\ hangs < MaxHangs /\ pc = "done" /\ hangs' = hangs + 1
    /\ modem' \in {"off", "hung"} /\ (kind = "simcom" => modem' = "hung")
    /\ UNCHANGED <<kind, reset, alone, pc, lost>>

MoCode ==
    \/ ProbesAt \/ OpensMux \/ ClosesMux \/ Escapes \/ Waits \/ Pulses \/ Verifies
    \/ PulsesAgain \/ Settles \/ Recovers \/ LongPulse \/ Looks \/ PulsesBlind
MoNext == MoCode \/ Starts \/ Fails
MoSpec == MoInit /\ [][MoNext]_moVars /\ WF_moVars(MoCode) /\ WF_moVars(Starts)

---------------------------------------------------------------------------
(* The boot leaves the modem on, whatever it was doing and whichever       *)
(* answers were lost before the pulse: a pulse that switched it off is     *)
(* followed by another (cellular_link.c:397-401).  Not so when the UART    *)
(* cannot be opened, and on the SIM868, whose pulse nothing verifies.      *)
LeftOn ==
    (pc = "done" /\ hangs = 0) =>
        \/ modem \in On
        \/ ~alone \/ (kind = "sim868" /\ lost > 0)

(* In the end the modem is on: the recovery does not switch off, every ten *)
(* minutes and for ever, what its long pulse has just switched on          *)
(* (cellular_link.c:889-891).  A SIMCom module that hangs stays so.        *)
ComesOn == <>[](modem \in On \/ (kind = "simcom" /\ modem = "hung"))
==============================================================================
