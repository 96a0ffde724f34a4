# BaseESP32 ETH Elite: a verified model of the receiver's firmware

The repository is the firmware of a GNSS RTK receiver (ESP32-S3, ESP-IDF,
FreeRTOS) that works as a base, which streams its RTCM corrections to an NTRIP
caster, or as a rover, which receives them. It stands in the field without
anybody near it, behind a 4G modem, a WiFi or a cable, and updates itself. Its
hard behaviour is all in the same places: what survives a crash or a power cut,
which of several tasks holds the update lock, the microSD or the settings, when
a fallback gives way to the thing it replaced, and what retries forever. This
directory models those parts in TLA+, checks them with TLC and proves the most
important ones with TLAPS.

(Sources are cited as `main/x.c` for `src/main/x.c`.)

## The system's parts

| Part | Source | State | Operations | Interacts with |
|---|---|---|---|---|
| Firmware update and rollback | `ota_update.c` | update lock, trial flags, NVS `otaroll`, RTC flag, two slots and otadata | begin/end, apply, mark valid, confirm tick, rollback check, notes | every installer, `sys_stats`, bootloader |
| Installers | `web_ui.c`, `sd_update.c`, `online_update.c`, `auto_update.c` | progress of an installation, version from the card | upload, archive restore, card check, online apply, nightly check | `ota_update`, microSD |
| Firmware archive | `fw_archive.c` | files on the microSD, busy flag of the copy | save current, list, apply, prune | `sd_mutex`, `ota_update` |
| microSD sharing | `sd_mutex.c` | recursive mutex, owner of the mount | take, try, give, mount note | archive, logs, backup, raw log, update, GNSS on I2C |
| Configuration copy and crash guard | `config_backup.c` | request flag, due time, fault count in RTC, files on the card | request, service, restore, guard | `settings`, microSD, `sys_stats` |
| Settings | `settings.c` | RAM copy, NVS blob, three mutexes | get, set, save, import, export, migrate | everything |
| Boot guard | `boot_guard.c` | stage in RTC, timer | stage, progress, done, timeout | `app_main` |
| Supervision | `sys_stats.c`, `modem_health.c`, `pending_restart.c` | heartbeats, restart reason, daily counters | heartbeat, safety restarts, reasons | all tasks |
| Link selection | `net_manager.c`, `wifi_link.c`, `cellular_link.c`, `eth_link.c`, `vpn_link.c` | which link is up, holds, failure counters | tick, switch, modem reset, radio restart | caster clients, `sys_stats` |
| Base caster client and server | `ntrip_client.c`, `ntrip_caster_server.c` | connection, ring of frames, clients | connect, send, back off, serve | GNSS reader, link |
| Rover client and base choice | `ntrip_rover_client.c`, `base_auto.c` | base in use, bans, session | choose, session end, check | caster, GNSS fix |
| Base position | `base_measure.c`, `base_selfpos.c`, `base_check.c`, `base_monitor.c` | measure phase in NVS, averages | start, tick, finish, cancel | settings, rover client, restart |
| GNSS receiver | `gnss_*.c`, `rtcm3_*.c`, `nmea_*.c`, `base_stream_demux.c` | parser, command acknowledgement, fix | read, parse, configure | clients, screen |
| Alarms | `alerts.c`, `rtk_alarm.c` | queue, cooldowns | raise, send, retry | link, SIM |
| Logs on the card | `diag_log.c`, `ppp_log.c`, `raw_log.c`, `log_buffer.c` | open file, position, ring | append, rotate, read | microSD |
| SIM and data | `sim_tools.c`, `sim_plan.c`, `data_usage.c` | counters, plan, AT session | count, reset, query | modem |
| License | `license.c` | key, trial days | verify, refresh | online server |
| Panel | `web_ui.c`, `web/`, `remote_status.c`, `status.c` | session, snapshot | some 90 handlers | everything |
| WireGuard library | `components/esp_wireguard/` | three key pairs, handshake, replay window | timer, packets in and out | `vpn_link`, lwIP |
| Modem library | `components/esp_modem` (vendored) | PPP session | dial, command | `cellular_link` |
| Board | `oled_display.c`, `status_led.c`, `reset_button.c`, `i2c_shared_bus.c`, `time_sync.c`, `nmea_ble.c`, `nmea_udp_broadcast.c` | buses, buttons | draw, press, lock | everything |

Tasks share memory under FreeRTOS mutexes or as single volatile words; there
are callbacks from ESP-IDF events, timers and HTTP handlers; flash (NVS,
otadata, application slots), the microSD and RTC memory survive restarts, each
a different set of them.

## The modules

| Part | Modules | Run |
|---|---|---|
| Firmware update, installers | `OtaUpdate`, `FirmwareTrial` (abstract), `OtaHistory`, `OtaUpdateProofs` | `trial_and_lock`, `trial_outcome` |
| Configuration copies, crash guard, factory reset | `ConfigBackup`, `ConfigHistory`, `ConfigProofs` | `config_progress`, `config_copies`, `config_reset_undone` |
| Firmware archive, microSD lock | `SdMutex`, `FwArchive`, `ArchiveProofs` | `archive` |
| Link selection | `Links`, `NetManager`, `NetManagerMC`, `NetManagerProofs` | `links` |
| Rover client and base choice | `BaseAuto`, `RoverClient`, `RoverClientMC`, `RoverProofs` | `rover` |
| Boot guard, supervision | `Supervision`, `SupervisionMC`, `SupervisionProofs` | `supervision` |
| Base position | `BaseMeasure`, `BaseSelfpos`, `StationProofs` | `station` |
| u-blox receiver | `GnssUbx`, `StationProofs` | `station` |
| Corrections to the remote and the local caster | `CasterClient`, `CasterServer`, `StationProofs` | `station` |
| SIM, plan and traffic | `SimPlan`, `SimTools`, `StationProofs` | `station` |
| Settings and panel | `Settings`, `PanelJobs`, `RemoteProofs` | `remote` |
| License | `License`, `RemoteProofs` | `remote` |
| Alarms | `Alerts`, `RemoteProofs` | `remote` |
| Start of the modem | `ModemStart`, `RemoteProofs` | `remote` |
| VPN | `WireGuard`, `VpnLink`, `VpnLinkMC`, `RemoteProofs` | `remote`, `vpn_replay` |

What the runs check:

| Run | Bounds | Shows |
|---|---|---|
| `trial_and_lock` | 2 images (the older without a version), 3 tasks, network changing | `AlwaysBootable`: a reset at any instant finds a complete firmware; `OneUpdater` |
| `trial_outcome` | 2 images, card and online (automatic too), network changing | `ImplementsTrial`, the refinement; `TrialEnds`: an installed image boots and its trial ends; `ConfirmedOnline`: not by time alone without network; `RollbackRemembered`, `AutoSkipsAnnulled`: what was annulled is remembered and skipped |
| `config_progress` | 2 configurations, one bad, faults anywhere, card in and out | `ChainBroken`: a bad configuration gives way to the good one; `CopyFollows`: both copies end up equal to NVS |
| `config_copies` | 1 configuration, every failure of the card, another receiver's card, imports, factory reset | `CopySurvivesACut`: one interruption leaves a complete copy; `OnlyOwn`: no cut and no foreign configuration is ever in use |
| `config_reset_undone` | 1 configuration | the violation of `ButtonResetHolds`, below |
| `archive` | 3 versions, 2 segments, 5 tasks, every request, card out, in, exchanged, formatted | `CardShared`: lock, mount and copy flag balanced on every path; `ListedWhole`, `KeepsNewest`, `GnssHeard` |
| `links` | 2 known WiFis, every mode, any two changes out of nine kinds at any step | `LinksHeal`, `SimKept` |
| `rover` | 3 bases, each of three kinds, 2 exclusions, 2 places, any one change at any step | `Served`, `BaseKept`, `PanelObeyed` |
| `supervision` | base or rover, u-blox or not, any two of nine kinds of mishap at any step | `CutBootTold`, `RestartsEarned`, `HangEnds` |
| `station` | see each module | `MeasureKept`, `AlarmEarned`, `MovedIsTold`, `WholeFrames`, `CorrectionsFlow`, `BaseServes`, `SimAccounted` |
| `remote` | see each module | `NothingLost`, `PanelFrees`, `OutageIsTold`, `ModemStaysOn`, `DeliveredOnce`, `TunnelComesBack` |
| `vpn_replay` | 2 payloads, 2 messages in flight | the violation of `NoDuplicate`, below |

`Station` puts seven parts of a base side by side, `Remote` six parts that the
owner uses from afar. They are no compositions: no behaviour interleaves two
parts. In the code the tasks of these parts share no variable but the settings,
which `Settings` models, and the links, which `NetManager` does; so a product of
them would only multiply states. A variable `focus` names, from the first state
on, the part a behaviour is about. `Next` is that part's own `Next`, fairness is
asked of it only while it is in focus, and a liveness property says what follows
if `focus` is its part. Each part remains a module of its own with its own
specification, and can be checked alone.

### OtaUpdate, FirmwareTrial, OtaHistory: the firmware update

`OtaUpdate.tla` is `ota_update.c` together with what its callers do to install
an image. Flash (`img`, `whole`, `st`, `bootSlot`), NVS (`nvs`: the keys
`netb`, `seen`, `try`, `bad` of `otaroll` and `ver` of `sdupd`) and RTC memory
(`rtcNet`) are variables apart from RAM, so that `Crash`, `SoftRestart` and
`PowerLoss` forget exactly what they forget on the board. `stage` is the order
of `app_main`. NVS keeps each key as soon as it is written, so a function that
writes two is two actions: `CheckRollback` notes the rollback as seen, `RecordBad`
the version to skip; `NoteNet` and `NoteInstalled` are `ota_update_note_installed`.
Only `ota_update_mark_valid` stays one (otadata, then `try`): a cut in it leaves
a version noted under a confirmed image, as an automatic update that was refused
does. Each installing task (`httpd`, `sd`, `online`) has a `job` whose
`pc` names the last call of `ota_update_apply_locked` it completed; every call
is an action, so a reset falls between any two, and the tasks interleave at
each of them. The bootloader and otadata are external: `Bootloader` does what
ESP-IDF documents with rollback enabled and what the comments of
`ota_update.c` rely on.

Abstractions: an image is a number, its version; its content is `whole` or not.
`age` has the four values the code tells apart (5, 15, 60 minutes), of which only
15 matters without a trial; `netBefore` is forgotten once no trial reads it. Between
`web_ui_start` and `ota_update_start_confirm`, which follow one another in
`app_main`, no request comes in (an installation takes tens of seconds).

`FirmwareTrial.tla` is what an owner is promised: install, restart into the new
image on trial, confirm, or annul. `ImplementsTrial` is the refinement, by
`Device == INSTANCE FirmwareTrial WITH ...`.

`OtaHistory.tla` adds history that only observes (which images were really
annulled, which were torn, which rollback a reset kept from being recorded), to
say whether the notes in NVS are true. `RollbackRemembered` and
`AutoSkipsAnnulled` have two exceptions: a torn update, and the last rollback
where a reset fell between `CheckRollback` and `RecordBad`. Without the second
(`AutoSkipsAlways`) TLC finds a counterexample.

Two images are enough for "newer" and "older"; with an annulled image as the
newer one the automatic update has exactly the choice it must not make. There
are two slots on the board, so two slots in the model; there is no counter to
bound. `trial_and_lock` has an image from before 1.35.14, which says
no version, and one from after; `trial_outcome` has two that do.

Fairness (`Fairness`): the boot goes on, the monitor task ticks, time passes,
and an installation that has switched the boot slot gets to its restart. None
is assumed of users, of the network, or of downloads.

### ConfigBackup, ConfigHistory: the configuration and its copies

`ConfigBackup.tla` is `config_backup.c` with the saves that trigger it
(`settings.c`), the import of the panel and the factory reset of the button.
NVS (`nvs`, `skip`), RTC memory (`faults`, `ending`) and the card (`files`,
`card`) are apart from RAM, which `Reset` clears. `svc` is
`config_backup_service` in the log task: one action for each lock it waits for
and each file operation (`OpenTmp`, `WriteTmp`, `Unlink`, `Rename`), so that a
reset or the removal of the card falls between any two, and a save can overlap
each of them. `ReadCopy`, `IsMine` and `Import` are what a boot does with a copy.

Abstractions: a configuration is opaque, `Bad` ones make the receiver fault
within ten minutes of a boot; a copy is whole, cut or empty; a copy of another
receiver carries that receiver's trailer. Uptime has two values, below and
above ten minutes; the two hours are an action that may come any time later.

`ConfigHistory.tla` records whether a factory reset that got as far as its flag
was the user's last word. The trace of `config_reset_undone` is thus the one
no interruption explains: erase, flag, a boot that obeys the flag and clears it,
a boot that restores the copy.

One configuration is enough where the question is whether a copy is complete or
whose it is, two where it is which one it holds. There is no counter to bound.
The runs have a serial number the user has set (`FactorySerial = FALSE`).

Fairness: boot, log task, saves and announced restarts go on; a bad
configuration does fault; and (`SF`) faults do not keep the crash guard, four
calls into `app_main`, from being reached for ever. None is assumed of the
user, of the card, or of power.

### SdMutex, FwArchive: the archive on the microSD

`SdMutex.tla` is `sd_mutex.c`: the recursive lock with its owner and depth, the
note of who has mounted, and the mount itself. `FwArchive.tla` is
`fw_archive.c` with everything that calls it or contends for the card: the copy
of the running version at boot and before an update, the restore of a version,
the check of the card (`sd_update.c`) and the poll of the receiver on I2C
(`gnss_io.c`), which must keep off a mounted card. The copy stops between any
two calls (`SaveMount`, `SaveBegins`, `Segment`, `SaveResumes`, `SaveSwaps`,
`SaveRenames`, `SavePrunes`), gives the card up after each segment and takes it
again; resets, failures of every call and the user's hands on the card fall in
between. An update goes on as in `FirmwareTrial`, of which this module has an
instance: the theorem `TrialRefinement` is what allows it to use that instead
of `OtaUpdate`.

Abstractions: a file is the sequence of the segments written to it, a version
the number it is sorted by. Two segments have one pause between them, and every
pause is alike. The users of the card that take the lock, do one thing and give
it (logs, the copy of the configuration) leave no state behind and are left
out. A card put back while the device takes it for mounted does not answer until
the next mount.

Three versions because the archive keeps two: one has to go. Fairness: each
task goes on (`WF`); the receiver polls every few milliseconds and so hits one
of the moments at which the lock is free (`SF`). The system may stop: with
nothing requested and no polling there is nothing to do.

### Links, NetManager: the choice of the link

`Links.tla` is what `net_manager.c` sees and changes: the networks (each off,
dead, that is without Internet behind it, or working), the modem (working, mute,
gone), a WiFi driver that loses its packets, the three interfaces and the
default route between them, the caster client's session, and the "Connect" test
of the panel. The networks, the SIM, the modem and the driver are external; they
are modelled by what `net_manager.c` and its comments expect of them.

`NetManager.tla` is the task. A pass of its loop is cut at each call that blocks
(scan, association, call, probe), so that networks, client and panel move within
it. `m` holds its local variables; `due` what is left of each of its deadlines,
in minutes. A pass takes place every minute (`Tick`), once what takes seconds
is done (`Prompt`); the five values of `network_mode` are five ways through
`select`. `NetManagerMC.tla` scales the durations down and keeps their order:
a probe is more often than a check, the 4G is called more often than the WiFi
without Internet is given up, and the restarts of the modem and of the radio are
the longest waits. The counts keep their roles at 2 or 3.

Abstractions: the safety restarts of `sys_stats.c`, which are in
`Supervision`, do not come to the rescue (a rover has neither of the two that a
base has); nobody is on the setup network; a
restart of the modem revives a mute one. `ServingCellKept` is about what the
task does: a test of the panel, or the network itself, may do otherwise.

- `LinksHeal`: with one network that works, the caster is reached again
  (`ComesBack`); no flapping between two links once the networks are steady
  (`Settles`); the driver, the modem and the way in are recovered (`JamHeals`,
  `ModemRevived`, `PanelReachable`);
- `SimKept`: the SIM is let go once a WiFi works (`SimSpared`), the WiFi in
  reserve stays joined (`HomeKept`), and what carries the session is not closed
  for something that has not taken over yet (`ServingCellKept`).

Two changes reach every state of the timers: one to lead the task into a
recovery, one to change what it is recovering from, both at any step of a pass.
Three were tried with fewer kinds of change (no counterexample other than the
one in the list below, which `JamHeals` excludes). Two WiFis are needed for "the
principal one and another"; which is the principal one at the start makes no
difference, as they are alike. Fairness: the task, the minutes, and the events,
client and test beside it go on, since every call has a timeout. Nothing is
assumed of networks: the properties say what follows once they stay as they are.

### BaseAuto, RoverClient: the rover and its base

`BaseAuto.tla` is `base_auto.c` as operators without state: the list of
exclusions (`BanAdd`, `Forgive`, `Evictions`), the judgement of a session
without data (`SilentCount`, `SilentVerdict`) and `Choose`, the nearest base
that is not excluded, with hysteresis and never out of a fix.

`RoverClient.tla` is `ntrip_rover_client_task`. `Top`, `Read` and `Begin` copy
the settings, peek at them and read their generation, in this order and each
apart, as the code does; a save may fall between any two. `Table` fetches the
table and chooses, later than what was sampled in `Begin` or in the session;
`Connect` has the four results of `ntrip_rover_connect`; `Receive` is one round
of the session, with `Compare` after it when the generation has moved; `Lost`
and `End` are its end with the accounts of the base, `Wait` the pause, which a
save or a new link cuts short. Beside it bases, table, sky, vehicle, link and
panel change.

Abstractions: coordinates are a table of distances; an RTK fix comes from a base
that sends, under a sky that allows it, one tick later, and is held `Hold` ticks
without corrections (a float with old ones). A tick is one attempt, so the
growing pauses between attempts are all alike. An exclusion that ended
`BASE_AUTO_BAN_MAX_S` ago is a free slot, as it has no effect any more, and
three strikes stand for more. Memory for the table is always had.

`BaseKept` is two promises: a fix is not given up for a check (`RtkHeld`), and
once the world is steady no listed base is nearer than the one in use by more
than the hysteresis (`NearestUsed`).

A save between the readings counts as read: the history variable `missed` says
that the last one fell there, until the next `Top`. `PanelObeyed` and
`NearestUsed` except it; `SavesObeyed` does not, and is false.

Three bases: a near one, one that is farther by less than the hysteresis, one by
more; one exclusion fewer, so that the list overflows. Times keep their order:
attempts that exclude a base (2) < `Check` (4) < `BanTime` (5) < `BanMax` (10).
The order matters: with `Check` no longer than two attempts, a check falls due
before a fix has come, and `RtkHeld` fails. Initial worlds are all those with the
caster reachable, so that one change is one thing that happens to a receiver in
any situation. Fairness: the task goes on, since every call it makes has a
timeout. Liveness is stated for worlds that stay as they are.

### Supervision: boot guard, watchdogs and safety restarts

`Supervision.tla` is `boot_guard.c`, the order of `app_main` (`main.c`) and
`sys_stats.c`: the stage of the boot in RTC memory and, for some stages only, in
NVS; three watchdogs, each fed by another task; heartbeats; the four causes of a
safety restart with the clock of each; the notes of a restart and what the next
boot tells. Between two passes of `sys_monitor_task` anything of `Mishaps` may
happen: power cut, panic, a boot or a core that hangs, a task that stops, a
receiver that is mute or gets its power later than the board, network and caster
that go and come, a restart by the user.

Abstractions: time is a number of passes, the limits keep their order
(`SupervisionMC`). A caster that accepts and closes at once counts as one that
worked, as in the code, since the session is counted when it is opened. A task
that hangs before its first beat is not supervised, in the code either.
`modem_health.c` and `pending_restart.c` are left out.

- `CutBootTold`: a boot that was cut is told by the next one, at its exact step
  when RTC memory survived and at one it had reached when only NVS did;
- `RestartsEarned`: the base never restarts twice for one cause unless what it
  restarts for has worked in between. A receiver that was never heard is the
  exception the code makes: one restart, counted in RTC memory ("Un solo riavvio
  di fila"). A power cut turns the count into noise, so each return of the power
  may be followed by one more, and by one only;
- `HangEnds`: what hangs ends in a restart, and a mute u-blox of a base is
  restarted whatever else restarts the board before.

Two mishaps: one to lead into a recovery, one in the middle of it. Fairness:
tasks that do not hang run, and the watchdogs of the chip expire.

### Station: the parts of a base

**BaseMeasure** is `base_measure.c` with the panel's handlers: the base restarts
as a rover, averages RTK positions or Galileo HAS positions (with progress in
NVS every `SaveEvery`), saves the coordinates and restarts as a base. Every save
is an action; the panel starts, restarts and cancels between any two of them.
One tick of a task is a stretch of its loop in which the receiver gives samples
of one sort. Bounds: two requests of the panel and one power cut, durations that
keep their order. `MeasureKept`: a cut costs at most what was measured since the
last save, and a measure always ends with a base. Fairness: a started measure
and the panel's handler go on.

**BaseSelfpos** is the check of the antenna, from subframe to alarm
(`base_selfpos.c`, `base_monitor.c`, the drift part of `alerts.c`): parts of an
ephemeris that are lost or of another issue, the bounded queue between tasks,
windows, the reference the base transmits. Left out: orbits and least squares; a
solution is where the antenna is, wild, or absent, and one satellite stands for
all. Bounds: two issues of the ephemeris, two moves of the antenna, one change
of the sky. `AlarmEarned`: no alarm without the antenna having been away from
the very position transmitted; `MovedIsTold`: an antenna that stays elsewhere is
told, if the satellites are there.

**GnssUbx** is the configuration of a u-blox (`gnss_ubx.c`, `gnss_ubx_ack.c`):
what each role sends, groups not acknowledged and repeated from another task,
modules that do not know a key, a survey-in and its relaxed limit, restarts of
the board under a receiver that keeps its RAM. `BaseServes`: it ends up as what
the settings say, a base that sends its messages and has nothing left of its
life as a rover (but for the high precision key, see below), whatever one
command lost did to it. Bounds: one command without an answer, one restart of
the board. Two losses on a receiver that does not know all keys, and the late
answer of the list below, are excepted.

**CasterClient** (`ntrip_client.c` and the cutting of frames in `main.c`) and
**CasterServer** (`ntrip_caster_server.c`): a frame is two pieces, so that reads
of 512 bytes, a full buffer, a short send and a new session may fall inside it.
`WholeFrames`: nobody ever gets half a frame, and a rover that is told 200 has a
place. `CorrectionsFlow`: the base leaves a network that is no longer the active
one; no slow rover keeps the next one out. Bounds: 2 and 3 frames through a
buffer of 3 pieces, 2 places and 4 calls, one change of settings and of route,
one and two faults. The strong fairness of `Adds` is that of a FreeRTOS mutex
which the broadcast task gives up after each piece.

**SimPlan** (`sim_plan.c`, `data_usage.c`) and **SimTools** (`sim_tools.c`): a
calendar of two short months, renewals and notices, the five keys in which
traffic is saved one by one, requests of the panel carried out by the alarm
task, messages, other cards. AT dialogues are single steps. Bounds: three
months, one power cut, one change of plan; one request and two events of
`SimTools`. `SimAccounted`: traffic lost is at most what was not saved, today is
in the period it is counted in, no request is lost, no card is written down as
known before its arrival was told.

### Remote: what the owner reaches from afar

**Settings** is `settings.c` with the form of `web_ui.c`, the test of a WiFi, the
renewal of the SIM plan, the import and the factory reset: edit lock, save lock,
copy in RAM and blob in NVS; a form copies, checks for seconds, stores all of it.
A handful of representative fields stand for the many; the JSON that carries
them is left out. `NothingLost`: the configuration in RAM is that of the changes
one after the other, NVS follows but for a write that failed, and no two uses of
a pin are ever accepted (bounds: three changes, one field each).

**PanelJobs** is the long operations of the panel and their two flags.
`PanelFrees`: whatever allocation, socket or task fails on the way, every request
gets its answer and the flags and the edit lock come back; and (from
**License**) a start withholds no option that is deserved. `License` models
storage in two partitions, its migration entry by entry, key, grants, activation,
renewal, contact and forgetting, with power cuts and wrong clocks, in days;
signatures and HTTPS are single steps.

**Alerts** is the loop of `alerts.c`: latches in RAM, the note in RTC memory
that a power cut turns into noise, dates that flapping sessions move. `reach`
says whether a message can leave the base (a network, a server that takes it); it
changes at any step, and a message sent without it is lost: the code ignores
the result and sets the latch. `mail` is the last message of each subject and
whether it went out. `OutageIsTold`: an outage that lasts gets its message, in
spite of flapping and restarts; if the owner hears nothing, nothing could leave
the base at that moment, or a restart fell between the message of an earlier
recovery and its note. That the owner hears of it once a way out is back
(`OutageIsHeard`) is false. Bounds: two changes, one save, one
restart.

**ModemStart** is `modem_power_on` and the long recovery: a pulse on PWRKEY
inverts the state of a modem with a supply of its own. `ModemStaysOn`: the boot
leaves it on, whichever answers were lost before the pulse, and the recovery does
not switch off what it has switched on. When the UART cannot be opened the pulse
is blind, and that of a SIM868 is not verified; the recovery then handles it.
Bounds: five answers lost, one for each of the five checks, and two hangs.

**WireGuard** and **VpnLink** are the library's peer (key pairs, handshakes from
both sides, timer, replay window) with symbolic cryptography, and
`vpn_link_tick` over it. `DeliveredOnce`: a payload is delivered once, but for
the packet of the finding below; `TunnelComesBack`: as long as VPN, network and
server stay, the tunnel works again and again. Ages for a new handshake are in
minutes; cookie replies and allowed addresses are left out. Bounds: two payloads,
one message in flight, one fault. The safety property was also checked by hand
with two and two, and with three payloads and one message, without an error.

Fairness of `Remote`: every writer of the settings, every job of the panel, the
tasks of alarms, modem, VPN and lwIP go on; nothing is assumed of the user, the
network or the power.

## Proofs

`OtaUpdateProofs.tla` proves, for every set of images, every subset of the
three installing tasks and every behaviour of the network, from the named
assumptions of `OtaUpdate` alone:

- `TypeCorrect`: `Spec => []TypeOK`, one lemma for each group of variables;
- `UpdateInvariant`: `Spec => []UpdateInv`. `AlwaysBootable` is not inductive:
  a reset reaches a complete slot only because whoever switched the boot slot
  had verified it and still holds the lock (`JobInv`, `LockInv`), and during a
  trial nobody has passed `esp_ota_begin` (`TrialInv`), since `Confirm` comes
  before it. These are the conjuncts of `UpdateInv`; `ResetInv` is the lemma
  where they meet, `SwitchInv` and `ConfirmInv` the two steps that make the
  order of the calls matter;
- `AlwaysBootableHolds`, `OneUpdaterHolds`: consequences of the invariant;
- `TrialRefinement`: `Spec => ImplementsTrial`, one lemma for each kind of step
  that an observer sees.

Liveness (`TrialEnds`) is model-checked only.

`ConfigProofs.tla` proves, for every set of configurations and every subset of
the requests, resets and card faults:

- `ConfigTypes`: `Spec => []TypeOK`, which includes that the fault count in RTC
  memory never reaches its limit;
- `OnlyOwnHolds`: `~FactorySerial /\ Spec => []OnlyOwn`. What makes it
  inductive (`OwnInv`) is that the saving task, the log task and every whole
  file also hold only configurations of this receiver, or another's with its
  trailer. The hypothesis is needed: with `FactorySerial = TRUE` and a full
  card TLC finds a cut copy that is imported;
- `CopySurvivesACutHolds`: `Spec => CopySurvivesACut`, an action property, from
  `SwapInv`: from the end of its writing to its renaming the temporary file is
  whole, and once the old file is unlinked it is alone.

`ArchiveProofs.tla` proves, for every set of versions, every number of segments,
every set of the requests and every set of what happens to the card:

- `ArchiveInvariant`: `Spec => []ArchiveInv`. None of the properties is
  inductive: whether the lock is balanced depends on which call each of five
  tasks is in. `JobOk` says what a task may hold at each step; `LockInv` derives
  owner, depth, note and mount from it: nobody has the card, or the owner of the
  lock has it, and has it twice inside a borrowed mount; `CopyInv` the copy flag:
  exactly one copier while it is up, and who renames has put it down already;
  `FileInv` the temporary file: after `n` segments it is the first `n`, unless
  the card was touched, and the version being copied is not yet listed whole;
- `CardSharedHolds`, `ListedWholeHolds`: consequences;
- `KeepsNewestHolds`: `IsFiniteSet(Builds) /\ Spec => KeepsNewest`. The set is
  finite only for its cardinality to be one.

`GnssHeard` is model-checked only.

`OtaUpdateProofs` goes on with the history that `OtaHistory` adds to the update:

- `RollbackRememberedHolds`, `AutoSkipsAnnulledHolds`: an aborted slot holds what
  was annulled or torn (`AbortedInv`); what was noted as seen is recorded before
  the boot goes on, or a reset has made it `unrecorded` (`RecordInv`, `SeenInv`);
  so the last rollback, unless it is that one, is refused already or still there
  for the check of the boot to find (`LastInv`). Both have the exceptions of
  their properties, a torn update and that reset, and assume
  `Numbered = Builds`: every image says its version, as all have since 1.35.14.
  Without it they do not hold, since the note of a version that was never
  installed may still be there (see the list below);
- `ConfirmedOnlineHolds`: what the network was before the installation is noted
  in NVS until the trial has begun, and in RAM from then on (`NoteInv`).

`SupervisionProofs.tla` proves, for every limit of heartbeats and restarts and
every set and number of mishaps:

- `CutBootToldHolds`: RTC memory and the key in NVS agree with the step the boot
  has reached, or with what the last one left behind (`TraceInv`);
- `RestartsEarnedHolds`: what has worked since the last restart for a cause, and
  whether the power has come back since the last one for a receiver never heard,
  is a history variable; each clock of `safety_restart_check` runs only after what
  it starts from, and the flag in RTC memory stands for the cause without a
  clock (`EarnedInv`).

`RoverProofs.tla` proves, for every finite set of bases and every table of
distances:

- `ChangeWorth`: when the base in use is left, and for which one. The lemma
  `NearestListed` under it only says that among finitely many usable bases one is
  nearest, so that `Nearest`, which is defined by that, is one of them: the loop of
  `base_auto_choose_ex` is not modelled step by step, and nothing is proved of it;
- `RoverTypes`: `Spec => []TypeOK`, the bound on the exclusions among the types.
  It needs that the current and the initial base exist from the first reading
  of the settings on (`RoverInv`).

`StationProofs.tla` and `RemoteProofs.tla` have an inductive invariant for each
part and prove that no step of another part touches it. From the named
assumptions of `Station` and `Remote`, which say of which kind the constants are
and, for `IndexAssumption`, that the VPN always finds a free session index (the
code draws 32 bits at random):

- `WholeFramesHolds`: the pieces in a buffer are consecutive, and a receiver
  that stopped inside a frame gets the rest of it or is closed;
- `CutCostsLittleHolds`: the safety half of `MeasureKept`: the progress in the
  flash is behind that in RAM by less than `SaveEvery`;
- `AlarmEarnedHolds`: the samples of a window, and the windows counted, are of
  the reference in use; the parts of an ephemeris are of one issue;
- `SimAccountedHolds`: what each of the five keys may hold while the others are
  saved, for every length of the calendar. Dates are compared through the number
  of a day, so most of its lemmas are arithmetic of months of two and three days;
- `RoverCleanHolds`, the safety half of `BaseServes`: with no command lost, a
  receiver that was a base is a clean rover once configured, and the groups in wait
  are never more than their list has room for. `OnTheWay` is the argument: each
  key a rover needs is in the receiver or in a group not yet sent; `UbPlaces` says
  that only a base keeps groups, and that a list taken for a retry and the one it
  fills again are one list;
- `NothingLostHolds`: a writer that holds the edit lock has a copy of the
  settings as they are, one that holds the save lock a blob of them, and a
  form keeps what it asks for until it has been checked, so pins never meet; the
  licence in RAM is the stored one but between the two stores of a job;
- `DeliveredOnceHolds`: the sessions of the three key pairs, of the open
  handshake and of the server's initiations in flight are all different; what was
  delivered under `curr` and `prev` is in their windows, except the packet that
  confirmed the key, and nothing was delivered under `next`. An index is given
  to a new session only when nobody has it, which is why a count of the indexes in
  use is part of the proof (`FreeIs`).

- `LeftOnHolds`, the safety half of `ModemStaysOn`, for every number of lost
  answers and of hangs: `StartInv` says what the modem can be at each step of
  `modem_power_on`.

- `NothingWithheldHolds`, the safety part of `PanelFrees`: `TimesInv` says that the
  days in the flash and the issue of the licence a job carries are of the past,
  unless a wrong clock was believed, and that between reading the days and
  granting the extras a start has those of the flash; only `Grants` leads on.

`NetManagerProofs.tla`, for every set of networks, every number of changes and
all durations (`WaitAssumption` has their order, and that only a restart waits
for more than an hour, as the defines of `net_manager.c` do), proves `NetTypes`
and `ServingCellKeptHolds`, the safety part of `SimKept`. Neither is inductive.
`NetInv` adds that the steps of a pass belong to the mode (`InMode`: what waits
in `back_join` is in "WiFi + 4G", where only a WiFi that was joined closes the
call); that there is no PPP before the modem was initialised and none after a
call that failed, so those branches have nothing to close; and that a modem noted as
silent is not well or was restarted less than ten minutes ago. The last one
carries the argument: the minutes of silence (`sim_tools.c`) outlive the restart
that ends it, and only the pause between two restarts keeps `IdleReset` off a
modem that serves.

Model-checked only: everything about progress, since no installed prover handles
`ENABLED` and a theorem about liveness needs it. That leaves to TLC `TrialEnds`,
`ChainBroken`, `CopyFollows`, `GnssHeard`, `LinksHeal`, the other half of
`SimKept`, `Served`, `BaseKept`, `PanelObeyed`, `HangEnds`, `MovedIsTold`,
`CorrectionsFlow`, `OutageIsTold`, `TunnelComesBack` and the other halves of
`MeasureKept`, `BaseServes`, `PanelFrees` and `ModemStaysOn`.

## What the checks found

Disagreements between the code and what it says of itself, in the order of the
modules. Two have a run of their own, in which TLC shows them
(`config_reset_undone`, `vpn_replay`). Where another names a definition in
parentheses, that definition states what the code says of itself. TLC refutes it
on its module, and the runs check the weaker property that holds. Some take more
than the bounds of the runs: `TrialConfirmedByUse` the panel, `FallbackTried`
refusals and two changes, `KnownOnce` four changes and three known networks,
`RenewalDayKept` five months, `RestoredIsTold` three changes and two restarts,
`DeadTunnelRemade` two addresses, `LicenceOfThisSerial` two serial numbers in
the form, `DeadWifiLeft` four changes.

- The microSD check at boot confirms the image on trial within seconds, because
  an installation confirms its own runner (`TrialConfirmedByUse`,
  `main/ota_update.c:81`).
- A slot stays ABORTED after a rollback. If a later update to it is cut after
  the first block, the next boot takes the new version, which never ran, for the
  annulled one, and the automatic update skips it.
- The automatic update notes the version before the installation is accepted; a
  note left by one that was refused or failed is attributed to the next annulled
  image without a version.
- A reset between the two writes of `ota_update_check_rollback`, "seen" and then
  "bad", makes every later boot find the rollback seen: its version is never
  recorded, and the automatic update installs it again (`AutoSkipsAlways`,
  `main/ota_update.c:322`, `342`, against the comment at `355-357`). In the
  other order there would be no gap.
- The microSD check says "annulled by the automatic return" of any version it
  installed and that no longer runs, also after a restore by hand.
- A factory reset by the button is undone by the second boot
  (`config_reset_undone`), by a reset between the erase and the flag, and by a
  save that overlaps it.
- The copy of the configuration is retried after a failed mount only, not after
  a failed write; the good copy not even then.
- The file left by a copy cut after `unlink` is the only one, and the next copy
  truncates it first: two interruptions leave none.
- `read_copy` takes the temporary file to be complete; after a failed write it
  is not, and with the factory serial number it is imported.
- A save that overlaps the good copy is written as good at once.

- The copy made before an update (`main/online_update.c:391`) does not wait for
  the end of the trial, as the one at boot does (`main/main.c:141`): a version
  that is then annulled, because the server was not reached and nothing
  confirmed it, takes one of the two places.
- When the card is exchanged or formatted in a pause of a copy, the rest of the
  file is appended to a new one, and a truncated version is listed.
- The prune after a copy may remove the very file being restored, when the
  running version was not yet in the archive. The restore then fails.
- A running version older than the two kept is copied and pruned again at every
  boot, wear that the comment at `main/fw_archive.c:201-203` means to avoid.
- `main/fw_archive.h:12-17` says an update from the card archives nothing; the
  code borrows the mount and does.
- "4G with WiFi in reserve": a WiFi without Internet that the receiver fell back
  on is not joined anew as long as the SIM gives an address, even one that leads
  nowhere (`DeadWifiLeft`, `main/net_manager.c:545-549`). The principal network
  may be back all that time.
- "Solo cellulare" uses the WiFi that the panel's test has joined, and with one
  that leads nowhere it calls the 4G, which works, again and again
  (`wifi_test_connect_task`, `main/web_ui.c:2704`, joins in every mode but the
  cable's, and nothing leaves that WiFi; `main/settings.h:38` says "mai il WiFi
  station"). `mode = "cellular" => session # "wifi"` is not an invariant of
  `NetManager`.
- A session opened over the cable while the WiFi is being joined again stays on
  the cable; as long as it does, a WiFi driver that loses its packets is not
  found out. `JamHeals` is stated without a cable.
- Nor is one that starts to before its router has ever answered a ping: the
  radio is restarted only after that. With a SIM that leads nowhere besides,
  this is the first case again; `Settles` leaves it out.

- A rover on a base that is mute, excluded and excluded again never tries the
  initial base, which works and is no longer excluded, as long as the table
  cannot be read or does not give the initial base's coordinates
  (`FallbackTried`, `main/base_auto.c:141`). The manual calls it the reserve for
  these two cases.
- The table is fetched between the sample of the fix and the choice. A fix that
  comes in these seconds is given up all the same, for a nearer base ("non
  cambia mai base mentre è in RTK", the manual).
- A save between `settings_get_into` and the reading of the generation in
  `auto_read_settings` (`main/ntrip_rover_client.c:1034`, `849`) is lost on a
  session that is opened then, until it drops: the generation is read after the
  copy (`SavesObeyed`).
- A caster of NTRIP 1 that answers "ERROR - Bad Password" is none of the cases
  of `ntrip_reply_account_level`, and three such replies exclude a base, what
  its comment says a wrong password never does.
- More dead bases nearer than the one that works than `BASE_AUTO_BANS` evict one
  another from the list of exclusions. `Works` leaves it out.
- With every base refused, each refusal of the one in use has the table read
  again (`main/ntrip_rover_client.c:1085-1086`), more often than the ten minutes
  of `BASE_AUTO_CHECK_S`: a refusal, unlike silence, knows no renewal.

- A restart on purpose in the middle of a boot (`reset_button.c:24-25`) may
  leave a "boot that stood still": `boot_guard_stage` of the boot that still
  goes on writes its stage over the note (`OnPurposeNotTold`,
  `main/boot_guard.c:141-145`).
- The clock of the caster's safety restart goes on while there is no network:
  after an outage of more than half an hour the base restarts seconds after the
  network is back (`main/sys_stats.c:632-637`).
- A power cut after a measure of hours was concluded and before the outcome is
  saved starts the measure from nothing (`HoursKept`,
  `main/base_measure.c:71-72`: "una misura di ore non deve ripartire da zero per
  una mancanza di corrente"). A cancel while a measure finishes may be answered
  and have no effect, a start of HAS over a running HAS measure may have the old
  one's progress saved as the new one's.
- A change of caster saved during the handshake is not followed until the
  session drops: the generation is read after it (`CasterFollowed`,
  `main/ntrip_client.c:292` and `224-227`).
- The answer of a command that had timed out is taken for the next one's
  (`main/gnss_ubx_ack.c:67-76`); the survey's status may be that of an earlier
  survey (`main/gnss_ubx.c:246-253`); a relaxed limit is lost when the mode is
  sent again (574-590, 303-309); keys sent one by one after a refusal are not
  repeated when unanswered (524-543), nor are a rover's groups; the high
  precision of NMEA stays on in a base after a measure.
- Traffic of a period that is over may be counted again: a save cut between the
  keys "m" and "cm" leaves the new period with the old count (`CountedOnce`,
  `main/data_usage.h:8-10`).
- A renewal on the 31st, after February, is on the 28th for ever
  (`RenewalDayKept`, `main/sim_plan.c:89-90`).
- The panel's number may be written on another SIM after a restart, which
  forgets that it was replaced (`NumberOfItsSim`, `main/sim_tools.c:451-453`);
  the credit may be read from an older message (`CreditFromItsReply`,
  `main/sim_tools.c:614-624`). Both take three events, one more than the run
  has. An alert about a replaced SIM that could not be sent is not sent again.
- The serial number can be changed while an activation is under way
  (`LicenceOfThisSerial`, `main/license.c:764`, `999`,
  `main/web_ui.c:2056-2057`).
- A known WiFi may be listed twice (`KnownOnce`, `main/settings.c:553-555`). An
  import within half a second of `settings_update` is lost; a save after the
  factory erase brings the configuration back (`main/settings.c:721`); after a
  failed write the form answers "salvataggio fallito" and RAM keeps the change;
  the generation does not grow on an import, as `settings.h` says it does.
- A speed test that began before an update goes on during it (`SpeedTestApart`,
  `main/web_ui.c:3003-3004`).
- A power cut while the key is copied to its partition makes a new key, to which
  the licence is not bound (`KeyKept`, `main/license.c:92-95` against `297-300`,
  `306-309`). `forget` gives `s_busy` back before its last two assignments
  (1304-1307), and "tornano dal prossimo riavvio" (1113-1117) can be untrue.
- A restart between a message and its note leaves a message that
  says the caster is down as the last one (`RestoredIsTold`,
  `main/alerts.c:393-397`).
- An alarm that no channel takes is never sent again: the result of sending is
  ignored and the latch set, for the caster as for all others
  (`main/alerts.c:513-515`). An outage of the base's own
  network is so never told, even once another network is up and the caster is
  still out of reach (`OutageIsHeard`).
- A dead tunnel is not made again from the server's name: the library keeps the
  previous key pair for ever and so never reports the peer as down
  (`DeadTunnelRemade`, `main/vpn_link.c:27`, `236-238`; `wireguardif.c:836-853`,
  `879-882`, `709-726`). The limit on the rate of handshakes of a peer has no
  effect (an unsigned subtraction).
- The packet that confirms a key pair of the responder is delivered again when
  it is repeated: `keypair_update` moves the pair before the replay window is
  updated through the old pointer (`vpn_replay`, `wireguardif.c:311`,
  `326-327`).

## Not modelled

- The logs on the card (`diag_log.c`, `ppp_log.c`, `raw_log.c`): they take the
  lock of the card briefly and leave it as they found it, which `FwArchive` takes
  for granted. Display, LED, BLE and UDP output: state no other part depends on.
- The drivers of receivers other than u-blox, the byte parsers and coordinate
  transformations, the position from raw observations, the pages of the panel
  and the status they show: computation without interleavings, where tests do
  better than a model.
- HTTP, JSON, TLS, SMTP and AT dialogues: single steps that may fail.
- The modem library and the primitives of WireGuard: vendored; what the program
  sees of them is external.

## Plan

Done, in the order of what is lost when they fail: the receiver (`OtaUpdate`),
its configuration (`ConfigBackup`), its way back (`FwArchive`), its connection
(`NetManager`), its corrections (`RoverClient`, the caster modules), what
restarts it (`Supervision`), its position, its receiver, its settings, its
licence, alarms, SIM and tunnel.

What is left, most useful first:

1. Compositions over a variable both sides use: `NetManager` with `Supervision`
   (what the safety restarts save a base from), `OtaUpdate` with the boot guard
   (whether a watchdog during the trial annuls it), `BaseMeasure` with
   `Settings` (one abstract register for both).
2. Theorems: what the compositions add; `RtkHeld`, whose reason is an order of
   times.
3. `modem_health.c`, `pending_restart.c`, `base_check.c`, `rtk_alarm.c` and the
   configuration of the other makes of receiver.
4. Larger instances of `station`: the third event of `SimTools`, two lost
   commands of `GnssUbx`.
