------------------------------- MODULE Pairing -------------------------------
(***************************************************************************)
(* Adding a contact on the web: the dialog of AddContactModal with the     *)
(* calls it starts on the bridge (createInvitation, acceptInvitation) and  *)
(* the camera scanner it shows (QRScanner over html5-qrcode).              *)
(*                                                                         *)
(* The dialog component stays mounted while it is closed, so a call, a     *)
(* timer or a camera that outlives an opening finds the state of another   *)
(* one.  The calls take their awaits as steps, any of which may fail; the  *)
(* user may close the dialog (Escape, the backdrop) and open it again at   *)
(* any time.  What html5-qrcode does is external: start is asynchronous,   *)
(* and stop throws on a scanner that has not started yet.                  *)
(*                                                                         *)
(* Abstractions.  An invitation is a number; the texts of names, errors    *)
(* and confirmations are left out.  React state set in one handler changes *)
(* in one step.                                                            *)
(***************************************************************************)
EXTENDS Naturals, Sequences

CONSTANTS Theirs,       \* invitations of others, positive numbers
          MaxCalls,     \* bound: calls of the bridge
          MaxOpenings,  \* bound: times the dialog is opened
          MaxMounts,    \* bound: times the scanner is mounted
          MaxFaults     \* bound: awaits that fail

ASSUME Bounds == /\ Theirs \subseteq Nat \ {0}
                 /\ {MaxCalls, MaxOpenings, MaxMounts, MaxFaults} \subseteq Nat

Call == 1..MaxCalls
None == 0
Unreadable == 0     \* a QR code that is no invitation

VARIABLES
  open,        \* showNewContact of the contact list
  ui,          \* the dialog's state: mode, invitation, pendingInvitation, isLoading, success
  calls,       \* the calls of the bridge
  timers,      \* auto-close timers running
  scanners,    \* the scanners mounted so far, the last one may be on the screen
  contacts,    \* the contact each call stored: the invitation accepted, 0 for none or its own
  subscribed,  \* invitations whose queue this device subscribed to
  confirmed,   \* ghost: invitations the user confirmed while their name was shown
  openings,    \* times the dialog was opened
  resets,      \* ghost: times handleClose ran
  faults       \* awaits that failed

vars == <<open, ui, calls, timers, scanners, contacts, subscribed, confirmed, openings, resets, faults>>

Fresh == [mode |-> "choose", invitation |-> None, pending |-> None, loading |-> FALSE, success |-> FALSE]
NotCalled == [kind |-> "create", of |-> None, stage |-> "none", resets |-> 0]
InFlight(c) == calls[c].stage \in {"key", "queues", "subscribe", "import"}

Init ==
  /\ open = FALSE /\ ui = Fresh /\ timers = 0
  /\ calls = [c \in Call |-> NotCalled]
  /\ scanners = <<>>
  /\ contacts = [c \in Call |-> None] /\ subscribed = {} /\ confirmed = {}
  /\ openings = 0 /\ resets = 0 /\ faults = 0

(***************************************************************************)
(* The scanner                                                             *)
(***************************************************************************)

\* The dialog shows the scanner.
ScannerShown == open /\ ui.mode = "scan" /\ ~ui.success

\* A mounted scanner starts at once, and holds its object from then on.
Mounted == [camera |-> "starting", held |-> TRUE, mounted |-> TRUE, leftEarly |-> FALSE,
            reading |-> FALSE]

\* stopScanner: only a running camera can be stopped; stopping another one throws,
\* and the error is ignored.
Stopped(s) == [s EXCEPT !.camera = IF s.held /\ @ = "running" THEN "stopping" ELSE @]

\* Mutant: the scanner on the screen is not told that it left.
UnmountedNever(s) == Stopped(s)

\* Mutant: the cleanup lets go of the object without stopping it.
UnmountedRunning(s) == [s EXCEPT !.held = FALSE, !.mounted = FALSE, !.leftEarly = (s.camera = "starting")]

\* The cleanup of the unmount: stop, and let go of the object either way.
Unmounted(s) == [Stopped(s) EXCEPT !.held = FALSE, !.mounted = FALSE, !.leftEarly = (s.camera = "starting")]

\* The scanners after the dialog was drawn again.
Redrawn(cams) ==
  CASE ScannerShown /\ ~ScannerShown' -> [cams EXCEPT ![Len(cams)] = Unmounted(@)]
    [] ~ScannerShown /\ ScannerShown' -> Append(cams, Mounted)
    [] OTHER -> cams

CanMount == Len(scanners) < MaxMounts

StartsUp(m) ==
  /\ scanners[m].camera = "starting"
  /\ scanners' = [scanners EXCEPT ![m].camera = "running"]
  /\ UNCHANGED <<open, ui, calls, timers, contacts, subscribed, confirmed, openings, resets, faults>>

\* No camera, or no permission.  The object is kept, so nothing starts it again.
StartFails(m) ==
  /\ scanners[m].camera = "starting" /\ faults < MaxFaults
  /\ faults' = faults + 1
  /\ scanners' = [scanners EXCEPT ![m].camera = "failed"]
  /\ UNCHANGED <<open, ui, calls, timers, contacts, subscribed, confirmed, openings, resets>>

StopsNow(m) ==
  /\ scanners[m].camera = "stopping"
  /\ scanners' = [scanners EXCEPT ![m].camera = "off", ![m].held = FALSE]
  /\ UNCHANGED <<open, ui, calls, timers, contacts, subscribed, confirmed, openings, resets, faults>>

\* The dialog is drawn again for any reason, with a new onScan: the effect runs
\* startScanner, which does nothing while an object is held.
Restarts(m) ==
  /\ scanners[m].mounted /\ ~scanners[m].held /\ scanners[m].camera = "off"
  /\ scanners' = [scanners EXCEPT ![m].camera = "starting", ![m].held = TRUE]
  /\ UNCHANGED <<open, ui, calls, timers, contacts, subscribed, confirmed, openings, resets, faults>>

Begin(c, kind, of, stage) ==
  /\ calls[c].stage = "none" /\ \A d \in 1..(c - 1) : calls[d].stage # "none"
  /\ calls' = [calls EXCEPT ![c] = [kind |-> kind, of |-> of, stage |-> stage, resets |-> resets]]

\* Mutant: a scanned invitation is accepted at once.
HandleScanAndConnect(qr) ==
  IF qr = Unreadable THEN UNCHANGED <<ui, calls>>
  ELSE /\ ui' = [ui EXCEPT !.pending = qr, !.mode = "confirm", !.loading = TRUE]
       /\ \E c \in Call : Begin(c, "accept", qr, "subscribe")

\* handleScan: an invitation is shown for confirmation, whatever the dialog was doing.
HandleScan(qr) ==
  /\ ui' = IF qr = Unreadable THEN ui ELSE [ui EXCEPT !.pending = qr, !.mode = "confirm"]
  /\ UNCHANGED calls

\* A camera reads a code: its own stopScanner, then onScan.  A camera whose scanner
\* let go of it is not stopped and goes on reading.
Decodes(m, qr) ==
  /\ scanners[m].camera = "running"
  /\ HandleScan(qr)
  /\ UNCHANGED <<open, timers, contacts, subscribed, confirmed, openings, resets, faults>>
  /\ scanners' = Redrawn([scanners EXCEPT ![m] = Stopped(@)])

\* An image is uploaded: it is read by a scanner object of its own.
Uploads(m) ==
  /\ scanners[m].mounted /\ ~scanners[m].reading
  /\ scanners' = [scanners EXCEPT ![m].reading = TRUE]
  /\ UNCHANGED <<open, ui, calls, timers, contacts, subscribed, confirmed, openings, resets, faults>>

\* scanFile ends, wherever the user has gone meanwhile; an image without a code is
\* like an unreadable one.
ImageRead(m, qr) ==
  /\ scanners[m].reading
  /\ HandleScan(qr)
  /\ UNCHANGED <<open, timers, contacts, subscribed, confirmed, openings, resets, faults>>
  /\ scanners' = Redrawn([scanners EXCEPT ![m].reading = FALSE])

\* A code is pasted into the scanner.
Pastes(qr) ==
  /\ ScannerShown
  /\ HandleScan(qr)
  /\ UNCHANGED <<open, timers, contacts, subscribed, confirmed, openings, resets, faults>>
  /\ scanners' = Redrawn(scanners)

(***************************************************************************)
(* The dialog                                                              *)
(***************************************************************************)

Open ==
  /\ ~open /\ openings < MaxOpenings
  /\ open' = TRUE /\ openings' = openings + 1
  /\ UNCHANGED <<ui, calls, timers, contacts, subscribed, confirmed, resets, faults>>
  /\ scanners' = Redrawn(scanners)

\* handleClose: everything is reset, and a call under way is not told.
HandleClose ==
  /\ open' = FALSE /\ ui' = Fresh /\ resets' = resets + 1
  /\ UNCHANGED <<calls, contacts, subscribed, confirmed, openings, faults>>
  /\ scanners' = Redrawn(scanners)

Close == open /\ HandleClose /\ UNCHANGED timers
AutoClose == timers > 0 /\ timers' = timers - 1 /\ HandleClose

ChooseShown == open /\ ui.mode = "choose" /\ ~ui.success
GenerateShown == open /\ ui.mode = "generate" /\ ui.invitation # None
ConfirmShown == open /\ ui.mode = "confirm" /\ ui.pending # None /\ ~ui.success

Shows(mode) ==
  /\ ui' = [ui EXCEPT !.mode = mode]
  /\ UNCHANGED <<open, calls, timers, contacts, subscribed, confirmed, openings, resets, faults>>
  /\ scanners' = Redrawn(scanners)

ChooseScan == ChooseShown /\ ~ui.loading /\ CanMount /\ Shows("scan")
Back == (GenerateShown \/ ScannerShown) /\ ~ui.loading /\ Shows("choose")

CancelConnect ==
  /\ ConfirmShown /\ ~ui.loading /\ CanMount
  /\ ui' = [ui EXCEPT !.pending = None, !.mode = "scan"]
  /\ UNCHANGED <<open, calls, timers, contacts, subscribed, confirmed, openings, resets, faults>>
  /\ scanners' = Redrawn(scanners)

\* Mutant: the buttons stay enabled during a call.
EnabledAlways == TRUE

\* The buttons are disabled, and covered, during a call.
Enabled == ~ui.loading

GenerateQR(c) ==
  /\ ChooseShown /\ Enabled
  /\ Begin(c, "create", None, "key")
  /\ ui' = [ui EXCEPT !.loading = TRUE]
  /\ UNCHANGED <<open, timers, scanners, contacts, subscribed, confirmed, openings, resets, faults>>

ConfirmConnect(c) ==
  /\ ConfirmShown /\ Enabled
  /\ Begin(c, "accept", ui.pending, "subscribe")
  /\ ui' = [ui EXCEPT !.loading = TRUE]
  /\ confirmed' = confirmed \cup {ui.pending}
  /\ UNCHANGED <<open, timers, scanners, contacts, subscribed, openings, resets, faults>>

(***************************************************************************)
(* The calls of the bridge                                                 *)
(***************************************************************************)

\* generateSharedKey is done: next the two queues on the relay.
KeyGenerated(c) ==
  /\ calls[c].stage = "key"
  /\ calls' = [calls EXCEPT ![c].stage = "queues"]
  /\ UNCHANGED <<open, ui, timers, scanners, contacts, subscribed, confirmed, openings, resets, faults>>

\* The subscription to the reply queue is answered: next importSharedKey.
Subscribed(c) ==
  /\ calls[c].stage = "subscribe"
  /\ calls' = [calls EXCEPT ![c].stage = "import"]
  /\ subscribed' = subscribed \cup {calls[c].of}
  /\ UNCHANGED <<open, ui, timers, scanners, contacts, confirmed, openings, resets, faults>>

\* The contact of the invitation is stored, and the code shown, whatever the dialog
\* shows by then.
InvitationCreated(c) ==
  /\ calls[c].stage = "queues"
  /\ calls' = [calls EXCEPT ![c].stage = "done"]
  /\ ui' = [ui EXCEPT !.invitation = c, !.mode = "generate", !.loading = FALSE]
  /\ UNCHANGED <<open, timers, contacts, subscribed, confirmed, openings, resets, faults>>
  /\ scanners' = Redrawn(scanners)

\* The contact is stored: the contact list hides the dialog, which keeps its state
\* until the auto-close timer resets it.
InvitationAccepted(c) ==
  /\ calls[c].stage = "import"
  /\ calls' = [calls EXCEPT ![c].stage = "done"]
  /\ contacts' = [contacts EXCEPT ![c] = calls[c].of]
  /\ ui' = [ui EXCEPT !.success = TRUE, !.loading = FALSE, !.pending = None]
  /\ open' = FALSE /\ timers' = timers + 1
  /\ UNCHANGED <<subscribed, confirmed, openings, resets, faults>>
  /\ scanners' = Redrawn(scanners)

\* Mutant: the pending invitation is dropped by any failure.
AfterAnyFailure(kind) == [ui EXCEPT !.loading = FALSE, !.pending = None]

\* The finally of the handlers.
AfterFailure(kind) ==
  [ui EXCEPT !.loading = FALSE, !.pending = IF kind = "accept" THEN None ELSE @]

\* A request is not answered, or the key store fails: the hook answers null.
CallFails(c) ==
  /\ InFlight(c) /\ faults < MaxFaults
  /\ faults' = faults + 1
  /\ calls' = [calls EXCEPT ![c].stage = "failed"]
  /\ ui' = AfterFailure(calls[c].kind)
  /\ UNCHANGED <<open, timers, contacts, subscribed, confirmed, openings, resets>>
  /\ scanners' = Redrawn(scanners)

Next ==
  \/ Open
  \/ Close
  \/ AutoClose
  \/ ChooseScan
  \/ Back
  \/ CancelConnect
  \/ \E c \in Call : GenerateQR(c)
  \/ \E c \in Call : ConfirmConnect(c)
  \/ \E qr \in Theirs \cup {Unreadable} : Pastes(qr)
  \/ \E m \in 1..Len(scanners) : StartsUp(m)
  \/ \E m \in 1..Len(scanners) : StartFails(m)
  \/ \E m \in 1..Len(scanners) : StopsNow(m)
  \/ \E m \in 1..Len(scanners) : Restarts(m)
  \/ \E m \in 1..Len(scanners), qr \in Theirs \cup {Unreadable} : Decodes(m, qr)
  \/ \E m \in 1..Len(scanners) : Uploads(m)
  \/ \E m \in 1..Len(scanners), qr \in Theirs \cup {Unreadable} : ImageRead(m, qr)
  \/ \E c \in Call : KeyGenerated(c)
  \/ \E c \in Call : Subscribed(c)
  \/ \E c \in Call : InvitationCreated(c)
  \/ \E c \in Call : InvitationAccepted(c)
  \/ \E c \in Call : CallFails(c)

Spec == Init /\ [][Next]_vars

(***************************************************************************)
(* Properties                                                              *)
(***************************************************************************)

TypeOK ==
  /\ open \in BOOLEAN /\ timers \in 0..MaxCalls
  /\ ui \in [mode : {"choose", "generate", "scan", "confirm"}, invitation : {None} \cup Call,
             pending : {None} \cup Theirs, loading : BOOLEAN, success : BOOLEAN]
  /\ calls \in [Call -> [kind : {"create", "accept"}, of : {None} \cup Theirs,
                         stage : {"none", "key", "queues", "subscribe", "import", "done", "failed"},
                         resets : Nat]]
  /\ Len(scanners) <= MaxMounts
  /\ \A m \in 1..Len(scanners) :
       scanners[m] \in [camera : {"starting", "running", "stopping", "off", "failed"}, held : BOOLEAN,
                        mounted : BOOLEAN, leftEarly : BOOLEAN, reading : BOOLEAN]
  /\ contacts \in [Call -> {None} \cup Theirs]
  /\ subscribed \subseteq Theirs /\ confirmed \subseteq Theirs
  /\ openings \in 0..MaxOpenings /\ resets \in Nat /\ faults \in 0..MaxFaults
  /\ (ScannerShown <=> \E m \in 1..Len(scanners) : scanners[m].mounted)

\* "The user must explicitly confirm before any key is imported or queue subscribed":
\* nothing is subscribed or stored for an invitation the user did not confirm while
\* its name was on the screen, whatever cameras and calls were left over.
ConfirmedBeforeConnected ==
  subscribed \cup {contacts[c] : c \in Call} \subseteq confirmed \cup {None}

\* A call begun before the last reset that d saw: it was left behind, and its end
\* clears the loading state of whatever the dialog does by then.
LeftBehindBefore(d) == \E e \in Call : calls[e].stage # "none" /\ calls[e].resets < calls[d].resets

\* Two calls of the bridge overlap only if the dialog was reset after some call began:
\* then the first two may overlap, and the end of one lets a third in.
OverlapNeedsReset ==
  \A c, d \in Call : c < d /\ InFlight(c) /\ InFlight(d) => LeftBehindBefore(d)

\* One invitation becomes two contacts, which share a queue and a key and of which
\* only the first is ever written to, only when it was confirmed again in a dialog
\* that was reset after some call began.
TwinsNeedReset ==
  \A c, d \in Call : c < d /\ contacts[c] # None /\ contacts[c] = contacts[d] => LeftBehindBefore(d)

\* A dialog that offers nothing but to close it follows an accept that failed.
DeadEndNeedsFailure ==
  open /\ ~(ChooseShown \/ GenerateShown \/ ScannerShown \/ ConfirmShown \/ ui.success \/ ui.loading)
    => \E c \in Call : calls[c].kind = "accept" /\ calls[c].stage = "failed"

\* A camera that runs without a scanner on the screen was left while it started: a
\* scanner left later is always stopped.
CameraNeedsEarlyLeave ==
  \A m \in 1..Len(scanners) :
    scanners[m].camera = "running" /\ ~scanners[m].mounted => scanners[m].leftEarly

\* Calls overlap and contacts come twice only behind a reset of the dialog, a dead end
\* only behind a failed accept, and a camera is left running only by leaving early.
PairingInv ==
    /\ TypeOK
    /\ OverlapNeedsReset
    /\ TwinsNeedReset
    /\ DeadEndNeedsFailure
    /\ CameraNeedsEarlyLeave
=============================================================================
