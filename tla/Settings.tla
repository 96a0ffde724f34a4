------------------------------ MODULE Settings ------------------------------
(***************************************************************************)
(* The settings (main/settings.c) and those who change them: the form of   *)
(* the panel and its WiFi test (web_ui.c), updates on the spot (renewal of *)
(* the SIM, end of the measure of the base), an import, the reset button.  *)
(* Changes are made on a copy under the edit lock, or on the spot; memory  *)
(* first, NVS after, under the save lock.                                  *)
(***************************************************************************)
EXTENDS Integers, Sequences, SequencesExt, FiniteSets

CONSTANTS
    Ssids, Serials, Pins,
    FormFields,     \* fields of the form that requests give
    GivenFields,    \* most fields in one request
    KnownMax,       \* WIFI_KNOWN_NETWORKS_MAX
    MaxChanges      \* forms, tests, updates, imports, resets, power cuts, faults

VARIABLES
    cfg,        \* s_settings
    stored,     \* the blob in NVS
    boot,       \* what the base started with; the licence uses its serial
    editor,     \* s_edit_mutex
    saver,      \* s_save_mutex
    task,       \* what each writer does
    cable,      \* eth_link_is_connected
    licence,    \* the serial of the stored licence
    restarting, \* after an import or a reset
    changes,
    wanted,     \* history: the changes one after the other
    failed      \* history: the last write to NVS failed

setVars == <<cfg, stored, boot, editor, saver, task, cable, licence, restarting,
             changes, wanted, failed>>

Writers == {"form", "test", "plan"}
Idle == [at |-> "idle"]
None == [at |-> "none"]

(* apply_defaults.                                                         *)
Defaults ==
    [ssid |-> "none", known |-> <<>>, plan |-> 0, mode |-> "auto", place |-> "zero",
     tx |-> "1", sda |-> "2", link |-> "uart", net |-> "both",
     serial |-> CHOOSE s \in Serials : TRUE]

(* settings_init, with what it repairs: a blob that cannot be read leaves  *)
(* the defaults.                                                           *)
Load(blob) == IF blob = None THEN Defaults ELSE blob.cfg
Blob(c) == [at |-> "nvs", cfg |-> c]

SeInit ==
    /\ cfg = Defaults /\ stored = None /\ boot = Defaults /\ wanted = Defaults
    /\ editor = "none" /\ saver = "none" /\ task = [w \in Writers |-> Idle]
    /\ cable \in BOOLEAN /\ licence = "none" /\ restarting = FALSE
    /\ changes = 0 /\ failed = FALSE

May(n) == changes + n <= MaxChanges /\ changes' = changes + n

---------------------------------------------------------------------------
(* The form: settings_post_handler.  A request gives some fields; an empty *)
(* text or a number it ignores is "", a value it refuses is "bad".         *)

GivenPins    == Pins \cup {"bad"}       \* "bad": one of the board itself
TextValues   == Ssids \cup {""}
NumberValues == {"zero", "set", "bad"}
ChoiceValues == [mode |-> {"auto", "manual"}, net |-> {"both", "ethernet"}]
PinValues    == [tx |-> GivenPins, sda |-> Pins, link |-> {"uart", "i2c"}]
Values ==
    [ssid |-> TextValues, place |-> NumberValues, serial |-> Serials,
     mode |-> ChoiceValues.mode, net |-> ChoiceValues.net,
     tx |-> PinValues.tx, sda |-> PinValues.sda, link |-> PinValues.link]
Requests ==
    UNION {[fs -> UNION {Values[f] : f \in fs}] :
              fs \in {s \in SUBSET FormFields : Cardinality(s) \in 1..GivenFields}}
Fitting == {r \in Requests : \A f \in DOMAIN r : r[f] \in Values[f]}

(* copy_field and its kin.                                                 *)
Applied(c, r) ==
    [f \in DOMAIN c |-> IF f \in DOMAIN r /\ r[f] \notin {"", "bad"} THEN r[f] ELSE c[f]]

(* pins_conflict: only when the request touches a pin or the link.         *)
PinsClash(c) == (c.link = "uart" /\ c.tx = c.sda)
BadPins(c, r) == DOMAIN r \cap {"tx", "sda", "link"} # {} /\ PinsClash(Applied(c, r))
BadField(r) == \E f \in DOMAIN r : r[f] = "bad"
NoPlace(c) == c.mode = "manual" /\ c.place = "zero"
BadPlace(c, r) == DOMAIN r \cap {"mode", "place"} # {} /\ NoPlace(Applied(c, r))
BadNet(c, r) == Applied(c, r).net = "ethernet" /\ "net" \in DOMAIN r /\ c.net # "ethernet" /\ ~cable
BadSerial(c, r) == Applied(c, r).serial # c.serial /\ licence # "none"
Refused(c, r) == BadField(r) \/ BadPins(c, r) \/ BadPlace(c, r) \/ BadNet(c, r) \/ BadSerial(c, r)

FormPosts ==
    /\ task["form"] = Idle /\ May(1)
    /\ \E r \in Fitting : task' = [task EXCEPT !["form"] = [at |-> "wait", new |-> r]]
    /\ UNCHANGED <<cfg, stored, boot, editor, saver, cable, licence, restarting, wanted, failed>>
(* Mutant: the form does not wait for the edit lock.                       *)
FormBeginsUnlocked ==
    /\ task["form"].at = "wait" /\ editor' = "form"
    /\ task' = [task EXCEPT !["form"] = [at |-> "copied", new |-> @.new, copy |-> cfg]]
    /\ UNCHANGED <<cfg, stored, boot, saver, cable, licence, restarting, changes, wanted, failed>>
FormBegins ==
    /\ task["form"].at = "wait" /\ editor = "none" /\ editor' = "form"
    /\ task' = [task EXCEPT !["form"] = [at |-> "copied", new |-> @.new, copy |-> cfg]]
    /\ UNCHANGED <<cfg, stored, boot, saver, cable, licence, restarting, changes, wanted, failed>>
FormChecks ==
    /\ task["form"].at = "copied"
    /\ LET t == task["form"]
       IN IF Refused(t.copy, t.new)
          THEN task' = [task EXCEPT !["form"] = Idle] /\ editor' = "none"
          ELSE /\ task' = [task EXCEPT !["form"] = [t EXCEPT !.at = "save", !.copy = Applied(@, t.new)]]
               /\ UNCHANGED editor
    /\ UNCHANGED <<cfg, stored, boot, saver, cable, licence, restarting, changes, wanted, failed>>

---------------------------------------------------------------------------
(* The WiFi test: one at a time, in a task of its own.                     *)

(* app_settings_remember_wifi: x becomes the main network, the old main    *)
(* one the first of the known ones; the last one drops out.                *)
Without(known, x) == RemoveFirst(known, x)
Remember(c, x) ==
    IF c.ssid = x THEN c
    ELSE LET rest == Without(c.known, x)
             all == IF c.ssid = "none" THEN rest ELSE <<c.ssid>> \o rest
         IN [c EXCEPT !.ssid = x, !.known = SubSeq(all, 1, IF Len(all) < KnownMax THEN Len(all) ELSE KnownMax)]

TestStarts ==
    /\ task["test"] = Idle /\ May(1)
    /\ \E x \in Ssids : task' = [task EXCEPT !["test"] = [at |-> "try", new |-> x]]
    /\ UNCHANGED <<cfg, stored, boot, editor, saver, cable, licence, restarting, wanted, failed>>
TestFails ==
    /\ task["test"].at = "try" /\ task' = [task EXCEPT !["test"] = Idle]
    /\ UNCHANGED <<cfg, stored, boot, editor, saver, cable, licence, restarting, changes, wanted, failed>>
TestConnects ==
    /\ task["test"].at = "try" /\ editor = "none" /\ editor' = "test"
    /\ task' = [task EXCEPT !["test"] = [at |-> "save", new |-> @.new, copy |-> Remember(cfg, @.new)]]
    /\ UNCHANGED <<cfg, stored, boot, saver, cable, licence, restarting, changes, wanted, failed>>

---------------------------------------------------------------------------
(* Saving: settings_save by form and test, settings_update for the rest.   *)

UpdateBegins ==
    /\ task["plan"] = Idle /\ editor = "none" /\ editor' = "plan" /\ May(1)
    /\ \E what \in {"renewed", "measured"} :
         task' = [task EXCEPT !["plan"] = [at |-> "save", new |-> what]]
    /\ UNCHANGED <<cfg, stored, boot, saver, cable, licence, restarting, wanted, failed>>
Updated(c, what) ==
    IF what = "renewed" THEN [c EXCEPT !.plan = @ + 1]
    ELSE [c EXCEPT !.mode = "manual", !.place = "set"]

(* What each writer is to add to a configuration, for the history.         *)
After(w, c) == CASE w = "form" -> Applied(c, task[w].new)
                 [] w = "test" -> Remember(c, task[w].new)
                 [] w = "plan" -> Updated(c, task[w].new)
Memory(w) == IF w = "plan" THEN Updated(cfg, task[w].new) ELSE task[w].copy

Saves(w) ==
    /\ task[w].at = "save" /\ saver = "none" /\ saver' = w
    /\ cfg' = Memory(w) /\ wanted' = After(w, wanted)
    /\ task' = [task EXCEPT ![w] = [at |-> "store", blob |-> Memory(w)]]
    /\ UNCHANGED <<stored, boot, editor, cable, licence, restarting, changes, failed>>
Releases(w) ==
    /\ task' = [task EXCEPT ![w] = Idle] /\ saver' = "none" /\ editor' = "none"
    /\ UNCHANGED <<cfg, boot, cable, licence, restarting, wanted>>
Stores(w) ==
    /\ task[w].at = "store" /\ Releases(w)
    /\ \/ stored' = Blob(task[w].blob) /\ failed' = FALSE /\ UNCHANGED changes
       \/ May(1) /\ failed' = TRUE /\ UNCHANGED stored

---------------------------------------------------------------------------
(* Import of an earlier export of this base, and the reset button: only    *)
(* the NVS, and a restart half a second later.                             *)
Import ==
    /\ saver = "none" /\ ~restarting /\ May(1)
    /\ stored' = Blob(boot) /\ restarting' = TRUE
    /\ UNCHANGED <<cfg, boot, editor, saver, task, cable, licence, wanted, failed>>
ResetButton ==
    /\ ~restarting /\ May(1)
    /\ stored' = None /\ restarting' = TRUE
    /\ UNCHANGED <<cfg, boot, editor, saver, task, cable, licence, wanted, failed>>

StartsAgain ==
    /\ cfg' = Load(stored) /\ boot' = Load(stored) /\ wanted' = Load(stored)
    /\ editor' = "none" /\ saver' = "none" /\ task' = [w \in Writers |-> Idle]
    /\ restarting' = FALSE /\ failed' = FALSE
    /\ UNCHANGED <<stored, cable, licence>>
Restarts == restarting /\ StartsAgain /\ UNCHANGED changes
PowerCut == May(1) /\ StartsAgain

(* The activation of the licence (License) and the Ethernet cable.         *)
Activated ==
    /\ licence = "none" /\ licence' = boot.serial
    /\ UNCHANGED <<cfg, stored, boot, editor, saver, task, cable, restarting, changes, wanted, failed>>
CableMoves ==
    /\ May(1) /\ cable' = ~cable
    /\ UNCHANGED <<cfg, stored, boot, editor, saver, task, licence, restarting, wanted, failed>>

---------------------------------------------------------------------------
Works(w) ==
    \/ w = "form" /\ (FormBegins \/ FormChecks)
    \/ w = "test" /\ (TestFails \/ TestConnects)
    \/ Saves(w) \/ Stores(w)
SeNext ==
    \/ FormPosts \/ TestStarts \/ UpdateBegins \/ (\E w \in Writers : Works(w))
    \/ Import \/ ResetButton \/ Restarts \/ PowerCut \/ Activated \/ CableMoves
SeFairness == WF_setVars(Restarts) /\ \A w \in Writers : WF_setVars(Works(w))
SeSpec == SeInit /\ [][SeNext]_setVars /\ SeFairness

---------------------------------------------------------------------------
(* The variables keep their types.                                         *)
SeTypeOK ==
    /\ cfg.ssid \in Ssids \cup {"none"} /\ cfg.known \in UNION {[1..n -> Ssids] : n \in 0..KnownMax}
    /\ cfg.serial \in Serials /\ {cfg.tx, cfg.sda} \subseteq Pins \cup {"1", "2"}
    /\ {editor, saver} \subseteq Writers \cup {"none"} /\ licence \in Serials \cup {"none"}
    /\ \A w \in Writers : task[w].at \in {"idle", "wait", "copied", "try", "save", "store"}

(* When nobody is changing them, the settings are what all the changes     *)
(* make one after the other, in memory and, unless the last write failed,  *)
(* in NVS: no form, test or update is lost under another (settings.h:      *)
(* 516-520, settings.c:76-77).                                             *)
NothingLost ==
    editor = "none" /\ saver = "none" /\ ~restarting =>
        cfg = wanted /\ (failed \/ stored = Blob(cfg) \/ (stored = None /\ cfg = Defaults))

(* No sequence of forms, measures, imports and resets leaves a pin with    *)
(* two uses or a fixed position that was never given (web_ui.c:1752-1777,  *)
(* 2222-2225).                                                             *)
SettingsSound == ~PinsClash(cfg) /\ ~NoPlace(cfg)

(* The edit lock is always given back, whatever the form is answered.      *)
EditEnds == []<>(editor = "none")

(* A stored licence is for the serial of the settings: it cannot be        *)
(* changed once the base is activated (web_ui.c:2054-2056).                *)
LicenceOfThisSerial == licence # "none" => licence = cfg.serial

(* A known network is listed once (settings.c:555-556).                    *)
KnownOnce == IsInjective(cfg.known)
=============================================================================
