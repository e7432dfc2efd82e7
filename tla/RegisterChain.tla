---------------------------- MODULE RegisterChain -----------------------------
(***************************************************************************)
(* The camera's registers from the calibration console to NVS: the host's  *)
(* register bank with its undo log (calibration/registers.py and cli.py),  *)
(* the register commands of the control link (control_link.c), the set of  *)
(* overrides in NVS (camera_overrides.c), and the state-machine task that  *)
(* brings the camera up and applies them again.                            *)
(*                                                                         *)
(* s_regs, the buffer of camera_overrides.c, is shared by the control link *)
(* and the state machine without a lock; count is local to each of them.   *)
(* The host waits for each call; a call may fail, and its reply may be     *)
(* lost although the device has done what it was asked.  Reading the blob  *)
(* in NVS may fail (no handle, no memory, a malformed blob): it then       *)
(* counts as an empty set.                                                 *)
(***************************************************************************)
EXTENDS Integers, Sequences, FiniteSets

CONSTANTS
  N,        \* registers, by address 1..N; 1 is the one of the orientation
  Values,   \* register contents; 0 is the driver's default
  Limit,    \* CAMERA_OVERRIDES_MAX_REGS
  MaxCalls  \* bound: calls of the console and mode changes

ASSUME RegisterAssumption ==
  /\ N \in Nat \ {0} /\ 0 \in Values /\ Limit \in Nat /\ MaxCalls \in Nat

Addr == 1..N
Orientation == 1

VARIABLES
  sensor,    \* the sensor's registers
  nvs,       \* the stored blob, a sequence of entries
  sregs,     \* s_regs
  writes,    \* the save request the control link works on: address to value
  count,     \* camera_overrides_save()'s count
  link,      \* where the control link's save is
  loaded,    \* camera_overrides_apply()'s count
  machine,   \* where the state machine's camera_init() is
  mode,      \* s_state: "calib" or "idle"
  undo,      \* RegisterBank.undo_log
  mirror,    \* RegisterBank.mirror and .flip
  calls,     \* calls and mode changes so far
  base,      \* history: the sensor when the undo log was last begun
  strays,    \* history: changed since then, with nobody telling the host
  kept,      \* history: the save could read the set that was stored
  overlap    \* history: an apply has loaded s_regs while a save was using it

hostVars == <<undo, mirror, base, strays>>
saveVars == <<writes, count, link, kept>>
machineVars == <<loaded, machine, mode>>
chainVars == <<sensor, nvs, sregs, saveVars, machineVars, hostVars, calls, overlap>>

Default == [a \in Addr |-> 0]
Blank == [a |-> Orientation, v |-> 0]

ChainInit ==
  /\ sensor = Default /\ nvs = <<>> /\ sregs = [i \in 1..Limit |-> Blank]
  /\ writes = <<>> /\ count = 0 /\ link = "ready"
  /\ loaded = 0 /\ machine = "ready" /\ mode = "calib"
  /\ undo = <<>> /\ mirror = 0 /\ calls = 0
  /\ base = Default /\ strays = {} /\ kept = TRUE /\ overlap = FALSE

(***************************************************************************)
(* Calls of the console.                                                   *)
(***************************************************************************)
Call ==
  link = "ready" /\ mode = "calib" /\ calls < MaxCalls /\ calls' = calls + 1
deviceFrame == UNCHANGED <<nvs, sregs, saveVars, machineVars, overlap>>

Written(s, w, failed) ==
  [a \in Addr |-> IF a \in DOMAIN w /\ a \notin failed THEN w[a] ELSE s[a]]

\* The addresses in S, from the lowest to the highest.
InOrder(S) ==
  [i \in 1..Cardinality(S) |->
     CHOOSE a \in S : Cardinality({b \in S : b <= a}) = i]

\* Undo records of the writes w to the addresses in as, in order of address.
Records(w, as) ==
  LET changed == InOrder({a \in as : w[a] # sensor[a]})
  IN  [i \in 1..Len(changed) |->
         [a |-> changed[i], old |-> sensor[changed[i]], new |-> w[changed[i]]]]

AddressesOf(log) == {log[i].a : i \in 1..Len(log)}
Logged == AddressesOf(undo)

\* History: what the sensor now has differs, the log does not name it, and no
\* answer told the host of it.
Strayed(s, told) ==
  strays \cup {a \in Addr \ (Logged \cup told) : s[a] # sensor[a]}

\* RegisterBank.write(): the device tries every write of the list; the host
\* stops at the first result that tells of a failure.  The restore of a backup
\* writes without recording.
Regw(w, failed, record, seen) ==
  LET heard == IF record /\ seen THEN {a \in DOMAIN w : \A f \in failed : a < f}
               ELSE {} IN
  /\ Call
  /\ sensor' = Written(sensor, w, failed)
  /\ undo' = undo \o Records(w, heard)
  /\ strays' = Strayed(sensor', heard)
  /\ UNCHANGED <<mirror, base>> /\ deviceFrame

\* A write of v to the orientation's register, if there is one.
OrientationIf(written, v) ==
  [a \in (IF written THEN {Orientation} ELSE {}) |-> v]

\* set_orientation: what the driver returns is not looked at.
Orient(v, done, seen) ==
  LET w == OrientationIf(done, v) IN
  /\ Call
  /\ sensor' = Written(sensor, w, {})
  /\ undo' = IF seen THEN undo \o Records(w, DOMAIN w) ELSE undo
  /\ mirror' = IF seen THEN v ELSE mirror
  /\ strays' = Strayed(sensor', IF seen THEN DOMAIN w ELSE {})
  /\ UNCHANGED base /\ deviceFrame

FirstOld(log, a) ==
  log[CHOOSE i \in 1..Len(log) : log[i].a = a
         /\ \A j \in 1..(i - 1) : log[j].a # a].old

\* Mutant of Revert: the log is cut back even if a write of it has failed.
RevertForgetting(mark, failed, seen) ==
  LET pending == SubSeq(undo, mark + 1, Len(undo)) IN
  /\ Call /\ pending # <<>> /\ failed \subseteq AddressesOf(pending)
  /\ sensor' = Written(sensor, [a \in AddressesOf(pending) |->
                                  FirstOld(pending, a)], failed)
  /\ undo' = IF seen THEN SubSeq(undo, 1, mark) ELSE undo
  /\ UNCHANGED <<mirror, base, strays>> /\ deviceFrame

\* revert_to(mark), with 0 for "undo" and the log's length before it for a
\* tuning step: one write for all addresses; the log stays if any fails.
Revert(mark, failed, seen) ==
  LET pending == SubSeq(undo, mark + 1, Len(undo)) IN
  /\ Call /\ pending # <<>> /\ failed \subseteq AddressesOf(pending)
  /\ sensor' = Written(sensor, [a \in AddressesOf(pending) |->
                                  FirstOld(pending, a)], failed)
  /\ undo' = IF seen /\ failed = {} THEN SubSeq(undo, 1, mark) ELSE undo
  /\ UNCHANGED <<mirror, base, strays>> /\ deviceFrame

\* App.set_mode(): the camera is set up anew, without the overrides, then the
\* orientation is set again, by a call of its own.
SetMode(seen, done, heard) ==
  LET again == seen /\ mirror # 0
      o == OrientationIf(again, mirror) IN
  /\ Call
  /\ sensor' = Written(Default, o, IF done THEN {} ELSE {Orientation})
  /\ undo' = IF ~seen THEN undo
             ELSE IF ~(again /\ done /\ heard) THEN <<>>
             ELSE <<[a |-> Orientation, old |-> 0, new |-> mirror]>>
  /\ base' = IF seen THEN Default ELSE base
  /\ strays' = IF ~seen THEN Strayed(sensor', {})
               ELSE IF again /\ done /\ ~heard THEN {Orientation} ELSE {}
  /\ UNCHANGED mirror /\ deviceFrame

LastNew(a) ==
  undo[CHOOSE i \in 1..Len(undo) : undo[i].a = a
         /\ \A j \in (i + 1)..Len(undo) : undo[j].a # a].new

(***************************************************************************)
(* camera_overrides_save(), on the control link's task.                    *)
(***************************************************************************)
\* load_locked(): s_regs and the number of its entries that count, after a
\* load that works or one that meets an error.
Loaded(ok) ==
  [i \in 1..Limit |-> IF ok /\ i <= Len(nvs) THEN nvs[i] ELSE sregs[i]]
Entered(ok) == IF ok THEN Len(nvs) ELSE 0

SaveLoad(ok) ==
  /\ Call /\ undo # <<>>
  /\ writes' = [a \in Logged |-> LastNew(a)]
  /\ sregs' = Loaded(ok) /\ count' = Entered(ok) /\ kept' = ok
  /\ link' = "merge" /\ overlap' = FALSE
  /\ UNCHANGED <<sensor, nvs, machineVars, hostVars>>

\* The addresses of w that the first n entries of s do not have, in order.
Fresh(s, n, w) ==
  LET new == InOrder({a \in DOMAIN w : \A j \in 1..n : s[j].a # a})
  IN  [i \in 1..Len(new) |-> [a |-> new[i], v |-> w[new[i]]]]

\* Of each address, the first entry is written over.
Updated(s, n, w) ==
  [i \in 1..n |->
     IF s[i].a \in DOMAIN w /\ \A j \in 1..(i - 1) : s[j].a # s[i].a
       THEN [s[i] EXCEPT !.v = w[s[i].a]] ELSE s[i]]

Merged(s, n, w) == Updated(s, n, w) \o Fresh(s, n, w)

\* Mutant of SaveMerge: what does not fit is left out.
SaveMergeCutting ==
  LET m == Merged(sregs, count, writes)
      n == IF Len(m) < Limit THEN Len(m) ELSE Limit IN
  /\ link = "merge"
  /\ sregs' = [i \in 1..Limit |-> IF i <= n THEN m[i] ELSE sregs[i]]
  /\ count' = n /\ link' = "store"
  /\ UNCHANGED <<sensor, nvs, writes, kept, machineVars, hostVars, calls, overlap>>

\* A set that does not fit is given up half way; s_regs keeps what is in it.
SaveMerge ==
  LET m == Merged(sregs, count, writes) IN
  /\ link = "merge"
  /\ sregs' = [i \in 1..Limit |-> IF i <= Len(m) THEN m[i] ELSE sregs[i]]
  /\ IF Len(m) > Limit THEN link' = "ready" /\ UNCHANGED count
                       ELSE link' = "store" /\ count' = Len(m)
  /\ UNCHANGED <<sensor, nvs, writes, kept, machineVars, hostVars, calls, overlap>>

SaveStore(ok) ==
  /\ link = "store"
  /\ nvs' = IF ok THEN SubSeq(sregs, 1, count) ELSE nvs
  /\ link' = IF ok THEN "apply" ELSE "ready"
  /\ UNCHANGED <<sensor, sregs, writes, count, kept, machineVars, hostVars, calls,
                 overlap>>

Applied(s, n) ==
  [a \in Addr |->
     LET at == {i \in 1..n : sregs[i].a = a}
     IN  IF at = {} THEN s[a]
         ELSE sregs[CHOOSE i \in at : \A j \in at : j <= i].v]

\* The whole set goes to the sensor and nothing of it to the undo log; the
\* reply's total is a load of its own.
SaveApply(ok) ==
  /\ link = "apply"
  /\ sensor' = Applied(sensor, count)
  /\ strays' = Strayed(sensor', {})
  /\ link' = "ready" /\ sregs' = Loaded(ok)
  /\ UNCHANGED <<nvs, writes, count, kept, machineVars, undo, mirror, base, calls,
                 overlap>>

Clear ==
  /\ Call /\ nvs' = <<>>
  /\ UNCHANGED <<sensor, sregs, saveVars, machineVars, hostVars, overlap>>

(***************************************************************************)
(* The state-machine task leaves calibration mode, or enters it: in both   *)
(* cases the camera is set up anew and the overrides are applied, before   *)
(* the mode changes.                                                       *)
(***************************************************************************)
CameraInit ==
  /\ machine = "ready" /\ calls < MaxCalls /\ calls' = calls + 1
  /\ sensor' = Default /\ strays' = Strayed(sensor', {})
  /\ machine' = "load"
  /\ UNCHANGED <<nvs, sregs, saveVars, loaded, mode, undo, mirror, base,
                 overlap>>

ApplyLoad(ok) ==
  /\ machine = "load"
  /\ sregs' = Loaded(ok) /\ loaded' = Entered(ok) /\ machine' = "apply"
  /\ overlap' = (overlap \/ (ok /\ link \in {"merge", "store"}))
  /\ UNCHANGED <<sensor, nvs, saveVars, mode, hostVars, calls>>

\* On entry the host opens a console, which reads the orientation if it can; a
\* console that the host has not noticed to be out of the mode stays.
ApplySet(stays) ==
  /\ machine = "apply"
  /\ machine' = "ready" /\ sensor' = Applied(sensor, loaded)
  /\ mode' = IF mode = "calib" THEN "idle" ELSE "calib"
  /\ IF mode' = "calib" /\ ~stays
       THEN /\ undo' = <<>> /\ mirror' \in {0, sensor'[Orientation]}
            /\ base' = sensor' /\ strays' = {}
       ELSE /\ strays' = Strayed(sensor', {})
            /\ UNCHANGED <<undo, mirror, base>>
  /\ UNCHANGED <<nvs, sregs, saveVars, loaded, calls, overlap>>

ConsoleStep ==
  \/ \E as \in SUBSET Addr \ {{}}, record, seen \in BOOLEAN :
       \E w \in [as -> Values], failed \in SUBSET as :
         Regw(w, failed, record, seen)
  \/ \E v \in Values, done, seen \in BOOLEAN : Orient(v, done, seen)
  \/ \E mark \in 0..Len(undo), failed \in SUBSET Addr, seen \in BOOLEAN :
       Revert(mark, failed, seen)
  \/ \E seen, done, heard \in BOOLEAN : SetMode(seen, done, heard)
  \/ \E ok \in BOOLEAN : SaveLoad(ok)
  \/ Clear

LinkStep ==
  SaveMerge \/ (\E ok \in BOOLEAN : SaveStore(ok) \/ SaveApply(ok))
MachineStep ==
  \/ CameraInit
  \/ \E ok \in BOOLEAN : ApplyLoad(ok)
  \/ \E stays \in BOOLEAN : ApplySet(stays)

ChainNext == ConsoleStep \/ LinkStep \/ MachineStep

ChainSpec == ChainInit /\ [][ChainNext]_chainVars

(***************************************************************************)
(* Properties.                                                             *)
(***************************************************************************)
Once(s) == \A i, j \in 1..Len(s) : s[i].a = s[j].a => i = j

\* "undo" brings back every register of the session, whatever was written how
\* often, undone in part by a tuning step, set again after a change of the
\* camera's mode, or saved: the oldest old value in the log is the one from
\* before, and what the log does not name is as it was.  A failed write of an
\* undo, a tuning step or a command costs no register this.  Register by
\* register, the exceptions (strays) are the ones changed behind the log's
\* back, and only they: by a call whose reply is lost, by a write behind the
\* first failed one of its command, by a restore, by a save's apply, or by the
\* state machine's set-up of the camera.
UndoCovers ==
  \A a \in Addr \ strays :
    IF a \in Logged THEN FirstOld(undo, a) = base[a] ELSE sensor[a] = base[a]

\* A save leaves NVS alone (a request that does not fit is rejected whole), or
\* stores the set that it could read with every register of the request laid
\* over it, within the limit and none of them twice, unless the set had one
\* twice.  If the state machine has loaded s_regs in the middle of it, the
\* values may be others; the addresses are right even then, provided the save
\* itself could read the stored set.
SaveIsWhole ==
  [][LET was == IF kept THEN nvs ELSE <<>>
     IN  nvs' \notin {nvs, <<>>} =>
           /\ Len(nvs') <= Limit
           /\ kept \/ ~overlap =>
                /\ Once(was) => Once(nvs')
                /\ AddressesOf(nvs') = AddressesOf(was) \cup DOMAIN writes
           /\ ~overlap => nvs' = Merged(was, Len(was), writes)]_chainVars
=============================================================================
