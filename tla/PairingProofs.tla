---------------------------- MODULE PairingProofs ----------------------------
(***************************************************************************)
(* Proofs about Pairing, for any number of invitations, calls, openings,   *)
(* scanners and faults: what is connected was confirmed, and what a reset  *)
(* of the dialog leaves behind is the only cause of what goes wrong later. *)
(*                                                                         *)
(* The argument: a call in flight keeps the dialog loading, or the dialog  *)
(* was reset since some call began; so a call that begins beside another   *)
(* one, or after a contact was stored, begins behind a reset.              *)
(*                                                                         *)
(* The second half is about Desktop, an instance of which is Shell.        *)
(***************************************************************************)
EXTENDS Pairing, FiniteSets, FiniteSetTheorems, TLAPS

-----------------------------------------------------------------------------
(* The inductive invariant                                                 *)

Begun(c) == calls[c].stage # "none"
LeftBehind == \E e \in Call : Begun(e) /\ calls[e].resets < resets

\* Calls begin one after the other; a call in flight keeps the dialog loading, a contact
\* stored keeps it in success, until a reset.
CallInv ==
  /\ \A c \in Call : calls[c].resets <= resets
  /\ \A c, d \in Call : c < d /\ Begun(d) => Begun(c)
  /\ \A c \in Call : InFlight(c) => ui.loading \/ LeftBehind
  /\ \A c \in Call : contacts[c] # None => calls[c].stage = "done" /\ (ui.success \/ LeftBehind)
  /\ \A c, d \in Call : c < d /\ Begun(d) /\ (InFlight(c) \/ contacts[c] # None) => LeftBehindBefore(d)

\* Whatever is accepted was confirmed.
ConfirmInv ==
  /\ \A c \in Call : calls[c].of \in confirmed \cup {None}
  /\ \A c \in Call : calls[c].stage \in {"subscribe", "import"} => calls[c].of # None
  /\ ConfirmedBeforeConnected

\* Each screen of the dialog has what it shows, or an accept failed.
AcceptFailed == \E c \in Call : calls[c].kind = "accept" /\ calls[c].stage = "failed"

DialogInv ==
  /\ ui.mode = "generate" => ui.invitation # None
  /\ ui.mode = "confirm" => ui.pending # None \/ ui.success \/ AcceptFailed
  /\ ~open /\ ui.mode = "scan" => ui.success

\* A camera that starts or runs is held by a scanner on the screen, or was left early.
Fit(s) ==
  s.camera \in {"starting", "running"} => IF s.mounted THEN s.held ELSE s.leftEarly

Scanner == [camera : {"starting", "running", "stopping", "off", "failed"}, held : BOOLEAN,
            mounted : BOOLEAN, leftEarly : BOOLEAN, reading : BOOLEAN]

\* Only the last scanner can be on the screen.
Cameras(cams) ==
  /\ cams \in Seq(Scanner) /\ Len(cams) <= MaxMounts
  /\ \A m \in 1..Len(cams) : Fit(cams[m]) /\ (cams[m].mounted => m = Len(cams))

OnScreen(cams) == \E m \in 1..Len(cams) : cams[m].mounted

\* Each auto-close timer was started by a call that is done.
Done == {c \in Call : calls[c].stage = "done"}
TimerInv == timers <= Cardinality(Done)

IInv == TypeOK /\ CallInv /\ ConfirmInv /\ DialogInv /\ Cameras(scanners) /\ TimerInv

-----------------------------------------------------------------------------
(* Types                                                                   *)

UiRec == [mode : {"choose", "generate", "scan", "confirm"}, invitation : {None} \cup Call,
          pending : {None} \cup Theirs, loading : BOOLEAN, success : BOOLEAN]

CallRec == [kind : {"create", "accept"}, of : {None} \cup Theirs,
            stage : {"none", "key", "queues", "subscribe", "import", "done", "failed"}, resets : Nat]

LEMMA ConstantTypes ==
  /\ None \notin Call /\ None \notin Theirs /\ Call \subseteq Nat /\ MaxCalls \in Nat
  /\ MaxOpenings \in Nat /\ MaxMounts \in Nat /\ MaxFaults \in Nat /\ Unreadable = None
BY Bounds DEF Call, None, Unreadable

\* The parts of TypeOK that a step disturbs or leaves alone together.
UiTyped == open \in BOOLEAN /\ ui \in UiRec
CallsTyped == calls \in [Call -> CallRec] /\ contacts \in [Call -> {None} \cup Theirs]
RestTyped ==
  /\ subscribed \subseteq Theirs /\ confirmed \subseteq Theirs
  /\ openings \in 0..MaxOpenings /\ resets \in Nat /\ faults \in 0..MaxFaults

LEMMA TypeParts ==
  TypeOK <=> /\ UiTyped /\ CallsTyped /\ RestTyped /\ timers \in 0..MaxCalls
             /\ Len(scanners) <= MaxMounts
             /\ \A m \in 1..Len(scanners) : scanners[m] \in Scanner
             /\ (ScannerShown <=> OnScreen(scanners))
BY DEF TypeOK, UiTyped, CallsTyped, RestTyped, UiRec, CallRec, Scanner, OnScreen

LEMMA DoneCounts == IsFiniteSet(Done) /\ Cardinality(Done) \in Nat /\ Cardinality(Done) <= MaxCalls
<1>1. IsFiniteSet(Call) /\ Cardinality(Call) = MaxCalls
  BY ConstantTypes, FS_Interval DEF Call
<1>2. QED
  BY <1>1, FS_Subset, FS_CardinalityType DEF Done

LEMMA DoneCountsNext == IsFiniteSet(Done') /\ Cardinality(Done') \in Nat /\ Cardinality(Done') <= MaxCalls
<1>1. IsFiniteSet(Call) /\ Cardinality(Call) = MaxCalls
  BY ConstantTypes, FS_Interval DEF Call
<1>2. QED
  BY <1>1, FS_Subset, FS_CardinalityType DEF Done

LEMMA TypesFromParts ==
  ASSUME UiTyped', CallsTyped', RestTyped', TimerInv', timers' \in Nat, Cameras(scanners'),
         ScannerShown' <=> OnScreen(scanners')
  PROVE  TypeOK'
<1>1. \A m \in 1..Len(scanners') : scanners'[m] \in Scanner
  BY DEF Cameras
<1>2. timers' \in 0..MaxCalls
  BY ConstantTypes, DoneCountsNext DEF TimerInv
<1>3. QED
  BY <1>1, <1>2 DEF Cameras, TypeOK, UiTyped, CallsTyped, RestTyped, UiRec, CallRec, Scanner, OnScreen

-----------------------------------------------------------------------------
(* The scanner on the screen                                               *)

LEMMA UnmountedFits ==
  ASSUME NEW s \in Scanner, Fit(s), s.mounted
  PROVE  Unmounted(s) \in Scanner /\ ~Unmounted(s).mounted /\ Fit(Unmounted(s))
<1>1. Stopped(s) \in Scanner /\ Stopped(s).mounted = s.mounted
      /\ Stopped(s).camera = (IF s.held /\ s.camera = "running" THEN "stopping" ELSE s.camera)
  BY DEF Stopped, Scanner
<1>2. Unmounted(s) = [Stopped(s) EXCEPT !.held = FALSE, !.mounted = FALSE, !.leftEarly = (s.camera = "starting")]
  BY DEF Unmounted
<1>3. /\ Unmounted(s) \in Scanner
      /\ Unmounted(s).camera = Stopped(s).camera
      /\ Unmounted(s).mounted = FALSE
      /\ Unmounted(s).leftEarly = (s.camera = "starting")
  BY <1>1, <1>2 DEF Scanner
<1>4. QED
  BY <1>1, <1>3 DEF Fit

LEMMA RedrawnFits ==
  ASSUME NEW cams, Cameras(cams), ScannerShown <=> OnScreen(cams),
         ScannerShown' /\ ~ScannerShown => Len(cams) < MaxMounts
  PROVE  Cameras(Redrawn(cams)) /\ (ScannerShown' <=> OnScreen(Redrawn(cams)))
<1>1. cams \in Seq(Scanner) /\ Len(cams) \in Nat /\ MaxMounts \in Nat
  BY ConstantTypes DEF Cameras
<1>2. CASE ScannerShown /\ ~ScannerShown'
  <2> DEFINE n == Len(cams)
  <2>1. n \in 1..Len(cams) /\ cams[n].mounted /\ cams[n] \in Scanner /\ Fit(cams[n])
    BY <1>1, <1>2 DEF OnScreen, Cameras
  <2>2. Redrawn(cams) = [cams EXCEPT ![n] = Unmounted(cams[n])]
    BY <1>2 DEF Redrawn
  <2>3. /\ Unmounted(cams[n]) \in Scanner /\ ~Unmounted(cams[n]).mounted
        /\ Fit(Unmounted(cams[n]))
    BY <2>1, UnmountedFits
  <2>4. /\ Redrawn(cams) \in Seq(Scanner) /\ Len(Redrawn(cams)) = Len(cams)
        /\ Redrawn(cams)[n] = Unmounted(cams[n])
        /\ \A m \in 1..Len(cams) : m # n => Redrawn(cams)[m] = cams[m]
    BY <1>1, <2>1, <2>2, <2>3
  <2>5. \A m \in 1..Len(cams) : ~Redrawn(cams)[m].mounted /\ Fit(Redrawn(cams)[m])
    BY <2>3, <2>4 DEF Cameras
  <2>6. QED
    BY <1>2, <2>4, <2>5 DEF Cameras, OnScreen
<1>3. CASE ~ScannerShown /\ ScannerShown'
  <2>1. Redrawn(cams) = Append(cams, Mounted)
    BY <1>3 DEF Redrawn
  <2>2. Mounted \in Scanner /\ Mounted.mounted /\ Fit(Mounted)
    BY DEF Mounted, Scanner, Fit
  <2>3. /\ Redrawn(cams) \in Seq(Scanner) /\ Len(Redrawn(cams)) = Len(cams) + 1
        /\ Redrawn(cams)[Len(cams) + 1] = Mounted
        /\ \A m \in 1..Len(cams) : Redrawn(cams)[m] = cams[m]
    BY <1>1, <2>1, <2>2
  <2>4. \A m \in 1..Len(cams) : ~cams[m].mounted
    BY <1>3 DEF OnScreen
  <2>5. \A m \in 1..Len(cams) + 1 : /\ Fit(Redrawn(cams)[m])
                                    /\ Redrawn(cams)[m].mounted => m = Len(cams) + 1
    <3>1. \A m \in 1..Len(cams) + 1 : m = Len(cams) + 1 \/ m \in 1..Len(cams)
      BY <1>1
    <3>2. QED
      BY <2>2, <2>3, <2>4, <3>1 DEF Cameras
  <2>6. Len(cams) + 1 <= MaxMounts
    BY <1>1, <1>3
  <2>7. QED
    BY <1>1, <1>3, <2>2, <2>3, <2>5, <2>6 DEF Cameras, OnScreen
<1>4. CASE ~(ScannerShown /\ ~ScannerShown') /\ ~(~ScannerShown /\ ScannerShown')
  <2>1. Redrawn(cams) = cams
    BY <1>4 DEF Redrawn
  <2>2. QED
    BY <1>4, <2>1
<1>5. QED
  BY <1>2, <1>3, <1>4

-----------------------------------------------------------------------------
(* Steps of the cameras                                                    *)

LEMMA CameraKeeps ==
  ASSUME IInv, NEW m \in 1..Len(scanners), NEW s \in Scanner, scanners' = [scanners EXCEPT ![m] = s],
         s.mounted = scanners[m].mounted, Fit(s),
         UNCHANGED <<open, ui, calls, timers, contacts, subscribed, confirmed, openings, resets>>,
         faults' \in 0..MaxFaults
  PROVE  IInv'
<1>1. /\ Cameras(scanners) /\ scanners \in Seq(Scanner) /\ (ScannerShown <=> OnScreen(scanners))
      /\ UiTyped /\ CallsTyped /\ RestTyped /\ timers \in 0..MaxCalls
  BY TypeParts DEF IInv, Cameras
<1>2. /\ scanners' \in Seq(Scanner) /\ Len(scanners') = Len(scanners)
      /\ scanners'[m] = s /\ \A o \in 1..Len(scanners) : o # m => scanners'[o] = scanners[o]
  BY <1>1
<1>3. Cameras(scanners') /\ (OnScreen(scanners') <=> OnScreen(scanners))
  BY <1>1, <1>2 DEF Cameras, OnScreen
<1>4. ScannerShown' <=> ScannerShown
  BY DEF ScannerShown
<1>5. TimerInv'
  BY DEF IInv, TimerInv, Done
<1>6. UiTyped' /\ CallsTyped' /\ RestTyped' /\ timers' \in Nat
  BY <1>1 DEF UiTyped, CallsTyped, RestTyped
<1>7. TypeOK'
  BY <1>1, <1>3, <1>4, <1>5, <1>6, TypesFromParts
<1>8. CallInv' /\ ConfirmInv' /\ DialogInv'
  BY DEF IInv, CallInv, Begun, InFlight, LeftBehind, LeftBehindBefore, ConfirmInv, ConfirmedBeforeConnected,
         DialogInv, AcceptFailed
<1>9. QED
  BY <1>3, <1>5, <1>7, <1>8 DEF IInv

LEMMA CamerasKeep ==
  ASSUME IInv, NEW m \in 1..Len(scanners), StartsUp(m) \/ StartFails(m) \/ StopsNow(m) \/ Restarts(m) \/ Uploads(m)
  PROVE  IInv'
<1>1. scanners[m] \in Scanner /\ Fit(scanners[m]) /\ scanners \in Seq(Scanner)
  BY DEF IInv, Cameras
<1>2. faults \in 0..MaxFaults /\ MaxFaults \in Nat
  BY ConstantTypes DEF IInv, TypeOK
<1>3. CASE StartsUp(m)
  <2> DEFINE s == [scanners[m] EXCEPT !.camera = "running"]
  <2>1. s \in Scanner /\ s.mounted = scanners[m].mounted /\ Fit(s)
    BY <1>1, <1>3 DEF StartsUp, Scanner, Fit
  <2>2. scanners' = [scanners EXCEPT ![m] = s]
    BY <1>1, <1>3 DEF StartsUp
  <2> HIDE DEF s
  <2>3. QED
    BY <1>2, <1>3, <2>1, <2>2, CameraKeeps DEF StartsUp
<1>4. CASE StartFails(m)
  <2> DEFINE s == [scanners[m] EXCEPT !.camera = "failed"]
  <2>1. s \in Scanner /\ s.mounted = scanners[m].mounted /\ Fit(s)
    BY <1>1, <1>4 DEF StartFails, Scanner, Fit
  <2>2. scanners' = [scanners EXCEPT ![m] = s] /\ faults' \in 0..MaxFaults
    BY <1>1, <1>2, <1>4 DEF StartFails
  <2> HIDE DEF s
  <2>3. QED
    BY <1>4, <2>1, <2>2, CameraKeeps DEF StartFails
<1>5. CASE StopsNow(m)
  <2> DEFINE s == [scanners[m] EXCEPT !.camera = "off", !.held = FALSE]
  <2>1. s \in Scanner /\ s.mounted = scanners[m].mounted /\ Fit(s)
    BY <1>1, <1>5 DEF StopsNow, Scanner, Fit
  <2>2. scanners' = [scanners EXCEPT ![m] = s]
    BY <1>1, <1>5 DEF StopsNow, Scanner
  <2> HIDE DEF s
  <2>3. QED
    BY <1>2, <1>5, <2>1, <2>2, CameraKeeps DEF StopsNow
<1>6. CASE Restarts(m)
  <2> DEFINE s == [scanners[m] EXCEPT !.camera = "starting", !.held = TRUE]
  <2>1. s \in Scanner /\ s.mounted = scanners[m].mounted /\ Fit(s)
    BY <1>1, <1>6 DEF Restarts, Scanner, Fit
  <2>2. scanners' = [scanners EXCEPT ![m] = s]
    BY <1>1, <1>6 DEF Restarts, Scanner
  <2> HIDE DEF s
  <2>3. QED
    BY <1>2, <1>6, <2>1, <2>2, CameraKeeps DEF Restarts
<1>7. CASE Uploads(m)
  <2> DEFINE s == [scanners[m] EXCEPT !.reading = TRUE]
  <2>1. s \in Scanner /\ s.mounted = scanners[m].mounted /\ Fit(s)
    BY <1>1 DEF Scanner, Fit
  <2>2. scanners' = [scanners EXCEPT ![m] = s]
    BY <1>1, <1>7 DEF Uploads
  <2> HIDE DEF s
  <2>3. QED
    BY <1>2, <1>7, <2>1, <2>2, CameraKeeps DEF Uploads
<1>8. QED
  BY <1>3, <1>4, <1>5, <1>6, <1>7

-----------------------------------------------------------------------------
(* Steps of the dialog                                                     *)

\* The dialog is drawn again behind the cameras cams.
Draws(cams) ==
  /\ scanners' = Redrawn(cams) /\ Cameras(cams) /\ (ScannerShown <=> OnScreen(cams))
  /\ ScannerShown' /\ ~ScannerShown => Len(cams) < MaxMounts

LEMMA DialogKeeps ==
  ASSUME IInv, NEW cams, Draws(cams), UiTyped', DialogInv',
         UNCHANGED <<calls, contacts, subscribed, confirmed, faults>>,
         openings' \in 0..MaxOpenings, timers' \in Nat, timers' <= timers,
         \/ resets' = resets /\ ui'.loading = ui.loading /\ ui'.success = ui.success
         \/ resets' = resets + 1
  PROVE  IInv'
<1>1. UiTyped /\ CallsTyped /\ RestTyped /\ timers \in 0..MaxCalls
  BY TypeParts DEF IInv
<1>2. Cameras(scanners') /\ (ScannerShown' <=> OnScreen(scanners'))
  BY RedrawnFits DEF Draws
<1>3. TimerInv'
  <2>1. Done' = Done
    BY DEF Done
  <2>2. QED
    BY <1>1, <2>1, DoneCounts DEF IInv, TimerInv
<1>4. CallsTyped' /\ RestTyped'
  BY <1>1 DEF CallsTyped, RestTyped
<1>5. TypeOK'
  BY <1>2, <1>3, <1>4, TypesFromParts
<1>6. ConfirmInv'
  BY DEF IInv, ConfirmInv, ConfirmedBeforeConnected
<1>7. CallInv'
  <2>1. \A c \in Call : calls[c].resets \in Nat /\ calls[c].resets <= resets
    BY <1>1 DEF IInv, CallInv, CallsTyped, CallRec
  <2>2. resets \in Nat
    BY <1>1 DEF RestTyped
  <2>3. CASE resets' = resets /\ ui'.loading = ui.loading /\ ui'.success = ui.success
    BY <2>3 DEF IInv, CallInv, Begun, InFlight, LeftBehind, LeftBehindBefore
  <2>4. CASE resets' = resets + 1
    <3>1. \A c \in Call : Begun(c) => LeftBehind'
      BY <2>1, <2>2, <2>4 DEF LeftBehind, Begun
    <3>2. \A c \in Call : /\ InFlight(c)' => Begun(c)
                          /\ contacts'[c] # None => Begun(c)
      BY DEF InFlight, Begun, IInv, CallInv
    <3>3. /\ \A c \in Call : calls'[c].resets <= resets'
          /\ \A c, d \in Call : c < d /\ Begun(d)' => Begun(c)'
      BY <2>1, <2>2, <2>4 DEF IInv, CallInv, Begun
    <3>4. \A c, d \in Call : c < d /\ Begun(d)' /\ (InFlight(c)' \/ contacts'[c] # None) => LeftBehindBefore(d)'
      BY DEF IInv, CallInv, Begun, InFlight, LeftBehindBefore
    <3>5. \A c \in Call : contacts'[c] # None => calls'[c].stage = "done"
      BY DEF IInv, CallInv
    <3>6. QED
      BY <3>1, <3>2, <3>3, <3>4, <3>5 DEF CallInv
  <2>5. QED
    BY <2>3, <2>4
<1>8. QED
  BY <1>2, <1>3, <1>5, <1>6, <1>7 DEF IInv

LEMMA FreshTyped == Fresh \in UiRec /\ Fresh.mode = "choose" /\ Fresh.loading = FALSE /\ Fresh.success = FALSE
BY DEF Fresh, UiRec, None

LEMMA UiFacts ==
  ASSUME IInv
  PROVE  /\ open \in BOOLEAN /\ ui \in UiRec /\ openings \in 0..MaxOpenings /\ timers \in Nat
         /\ Cameras(scanners) /\ (ScannerShown <=> OnScreen(scanners))
BY TypeParts DEF IInv, UiTyped, RestTyped

LEMMA ClosesKeep ==
  ASSUME IInv, HandleClose, timers' \in Nat, timers' <= timers
  PROVE  IInv'
<1>1. UiTyped' /\ DialogInv'
  BY FreshTyped DEF HandleClose, UiTyped, DialogInv
<1>2. ~ScannerShown'
  BY DEF HandleClose, ScannerShown
<1>3. Draws(scanners)
  BY <1>2, UiFacts DEF HandleClose, Draws
<1>4. QED
  BY <1>1, <1>3, UiFacts, DialogKeeps DEF HandleClose

LEMMA CloseKeeps ==
  ASSUME IInv, Close \/ AutoClose
  PROVE  IInv'
<1>1. timers \in Nat
  BY UiFacts
<1>2. CASE Close
  BY <1>1, <1>2, ClosesKeep DEF Close
<1>3. CASE AutoClose
  <2>1. timers' \in Nat /\ timers' <= timers /\ HandleClose
    BY <1>1, <1>3 DEF AutoClose
  <2>2. QED
    BY <2>1, ClosesKeep
<1>4. QED
  BY <1>2, <1>3

LEMMA OpenKeeps ==
  ASSUME IInv, Open
  PROVE  IInv'
<1>1. UiTyped'
  BY UiFacts DEF Open, UiTyped
<1>2. DialogInv'
  BY DEF Open, IInv, DialogInv, AcceptFailed
<1>3. ScannerShown' => ScannerShown
  BY DEF Open, IInv, DialogInv, ScannerShown
<1>4. Draws(scanners)
  BY <1>3, UiFacts DEF Open, Draws
<1>5. openings' \in 0..MaxOpenings
  BY UiFacts, ConstantTypes DEF Open
<1>6. QED
  BY <1>1, <1>2, <1>4, <1>5, UiFacts, DialogKeeps DEF Open

\* A screen is chosen, or a code was read.
LEMMA TurnsKeep ==
  ASSUME IInv, NEW cams, Draws(cams), NEW mode \in {"choose", "scan", "confirm"}, NEW pending \in {None} \cup Theirs,
         ui' = [ui EXCEPT !.mode = mode, !.pending = pending],
         mode = "confirm" => pending # None,
         mode = "scan" => open \/ ui.success,
         UNCHANGED <<open, calls, timers, contacts, subscribed, confirmed, openings, resets, faults>>
  PROVE  IInv'
<1>1. /\ ui' \in UiRec /\ ui'.mode = mode /\ ui'.pending = pending
      /\ ui'.loading = ui.loading /\ ui'.success = ui.success
  BY UiFacts DEF UiRec
<1>2. UiTyped' /\ DialogInv'
  BY <1>1, UiFacts DEF UiTyped, DialogInv
<1>3. QED
  BY <1>1, <1>2, UiFacts, DialogKeeps

LEMMA ShowsKeep ==
  ASSUME IInv, ChooseScan \/ Back \/ CancelConnect
  PROVE  IInv'
<1>1. ui \in UiRec
  BY UiFacts
<1>2. CASE ChooseScan
  <2>1. /\ ui' = [ui EXCEPT !.mode = "scan"] /\ open /\ CanMount /\ scanners' = Redrawn(scanners)
        /\ UNCHANGED <<open, calls, timers, contacts, subscribed, confirmed, openings, resets, faults>>
    BY <1>2 DEF ChooseScan, ChooseShown, Shows
  <2>2. ui' = [ui EXCEPT !.mode = "scan", !.pending = ui.pending] /\ ui.pending \in {None} \cup Theirs
    BY <1>1, <2>1 DEF UiRec
  <2>3. Draws(scanners)
    BY <2>1, UiFacts DEF Draws, CanMount
  <2>4. QED
    BY <2>1, <2>2, <2>3, TurnsKeep
<1>3. CASE Back
  <2>1. /\ ui' = [ui EXCEPT !.mode = "choose"] /\ scanners' = Redrawn(scanners)
        /\ UNCHANGED <<open, calls, timers, contacts, subscribed, confirmed, openings, resets, faults>>
    BY <1>3 DEF Back, Shows
  <2>2. ui' = [ui EXCEPT !.mode = "choose", !.pending = ui.pending] /\ ui.pending \in {None} \cup Theirs
    BY <1>1, <2>1 DEF UiRec
  <2>3. ~ScannerShown'
    BY <1>1, <2>1 DEF ScannerShown, UiRec
  <2>4. Draws(scanners)
    BY <2>1, <2>3, UiFacts DEF Draws
  <2>5. QED
    BY <2>1, <2>2, <2>4, TurnsKeep
<1>4. CASE CancelConnect
  <2>1. /\ ui' = [ui EXCEPT !.pending = None, !.mode = "scan"] /\ open /\ CanMount
        /\ scanners' = Redrawn(scanners)
        /\ UNCHANGED <<open, calls, timers, contacts, subscribed, confirmed, openings, resets, faults>>
    BY <1>4 DEF CancelConnect, ConfirmShown
  <2>2. ui' = [ui EXCEPT !.mode = "scan", !.pending = None]
    BY <1>1, <2>1 DEF UiRec
  <2>3. Draws(scanners)
    BY <2>1, UiFacts DEF Draws, CanMount
  <2>4. QED
    BY <2>1, <2>2, <2>3, TurnsKeep
<1>5. QED
  BY <1>2, <1>3, <1>4

\* A code was read by a camera on the screen, by one left behind, from an image, or pasted.
LEMMA ScansKeep ==
  ASSUME IInv, NEW qr \in Theirs \cup {Unreadable}, HandleScan(qr), NEW cams, Cameras(cams),
         ScannerShown <=> OnScreen(cams), scanners' = Redrawn(cams),
         UNCHANGED <<open, timers, contacts, subscribed, confirmed, openings, resets, faults>>
  PROVE  IInv'
<1>1. ui \in UiRec
  BY UiFacts
<1>2. CASE qr = Unreadable
  <2>1. ui' = ui /\ calls' = calls
    BY <1>2 DEF HandleScan
  <2>2. ScannerShown' => ScannerShown
    BY <2>1 DEF ScannerShown
  <2>3. Draws(cams)
    BY <2>2 DEF Draws
  <2>4. UiTyped' /\ DialogInv'
    BY <1>1, <2>1, UiFacts DEF UiTyped, IInv, DialogInv, AcceptFailed
  <2>5. QED
    BY <2>1, <2>3, <2>4, UiFacts, DialogKeeps
<1>3. CASE qr # Unreadable
  <2>1. ui' = [ui EXCEPT !.pending = qr, !.mode = "confirm"] /\ calls' = calls
    BY <1>3 DEF HandleScan
  <2>2. ui' = [ui EXCEPT !.mode = "confirm", !.pending = qr] /\ ui'.mode = "confirm"
    BY <1>1, <2>1 DEF UiRec
  <2>3. ~ScannerShown'
    BY <2>2 DEF ScannerShown
  <2>4. Draws(cams)
    BY <2>3 DEF Draws
  <2>5. qr \in {None} \cup Theirs /\ qr # None
    BY <1>3, ConstantTypes
  <2>6. QED
    BY <2>1, <2>2, <2>4, <2>5, TurnsKeep
<1>4. QED
  BY <1>2, <1>3

LEMMA PastesKeep ==
  ASSUME IInv, NEW qr \in Theirs \cup {Unreadable}, Pastes(qr)
  PROVE  IInv'
BY UiFacts, ScansKeep DEF Pastes

LEMMA DecodesKeep ==
  ASSUME IInv, NEW m \in 1..Len(scanners), NEW qr \in Theirs \cup {Unreadable}, Decodes(m, qr)
  PROVE  IInv'
<1> DEFINE s == Stopped(scanners[m])
           cams == [scanners EXCEPT ![m] = s]
<1>1. scanners \in Seq(Scanner) /\ scanners[m] \in Scanner /\ Fit(scanners[m])
  BY UiFacts DEF Cameras
<1>2. s \in Scanner /\ s.mounted = scanners[m].mounted /\ Fit(s)
  BY <1>1 DEF Stopped, Scanner, Fit
<1>3. scanners' = Redrawn(cams)
  BY <1>1 DEF Decodes
<1> HIDE DEF s
<1>4. /\ cams \in Seq(Scanner) /\ Len(cams) = Len(scanners)
      /\ cams[m] = s /\ \A o \in 1..Len(scanners) : o # m => cams[o] = scanners[o]
  BY <1>1, <1>2
<1> HIDE DEF cams
<1>5. Cameras(cams) /\ (OnScreen(cams) <=> OnScreen(scanners))
  BY <1>2, <1>4, UiFacts DEF Cameras, OnScreen
<1>6. QED
  BY <1>3, <1>5, UiFacts, ScansKeep DEF Decodes

\* Reading an image changes nothing of a camera.
LEMMA ReadingFits ==
  ASSUME IInv, NEW m \in 1..Len(scanners), NEW b \in BOOLEAN, NEW cams,
         cams = [scanners EXCEPT ![m].reading = b]
  PROVE  Cameras(cams) /\ (OnScreen(cams) <=> OnScreen(scanners))
<1> DEFINE s == [scanners[m] EXCEPT !.reading = b]
<1>1. scanners \in Seq(Scanner) /\ scanners[m] \in Scanner /\ Fit(scanners[m])
  BY UiFacts DEF Cameras
<1>2. s \in Scanner /\ s.mounted = scanners[m].mounted /\ Fit(s)
  BY <1>1 DEF Scanner, Fit
<1>3. cams = [scanners EXCEPT ![m] = s]
  BY <1>1
<1> HIDE DEF s
<1>4. /\ cams \in Seq(Scanner) /\ Len(cams) = Len(scanners)
      /\ cams[m] = s /\ \A o \in 1..Len(scanners) : o # m => cams[o] = scanners[o]
  BY <1>1, <1>2, <1>3
<1>5. QED
  BY <1>2, <1>4, UiFacts DEF Cameras, OnScreen

LEMMA ImageReadKeeps ==
  ASSUME IInv, NEW m \in 1..Len(scanners), NEW qr \in Theirs \cup {Unreadable}, ImageRead(m, qr)
  PROVE  IInv'
<1> DEFINE cams == [scanners EXCEPT ![m].reading = FALSE]
<1>1. scanners' = Redrawn(cams) /\ HandleScan(qr)
      /\ UNCHANGED <<open, timers, contacts, subscribed, confirmed, openings, resets, faults>>
  BY DEF ImageRead
<1>2. Cameras(cams) /\ (OnScreen(cams) <=> OnScreen(scanners))
  BY ReadingFits
<1> HIDE DEF cams
<1>3. QED
  BY <1>1, <1>2, UiFacts, ScansKeep

-----------------------------------------------------------------------------
(* Steps of the calls                                                      *)

LEMMA BeginKeeps ==
  ASSUME IInv, NEW c \in Call, NEW kind \in {"create", "accept"}, NEW of \in {None} \cup Theirs,
         NEW stage \in {"key", "subscribe"}, Begin(c, kind, of, stage),
         ui' = [ui EXCEPT !.loading = TRUE], ~ui.loading, ~ui.success,
         stage = "subscribe" => of # None, of \in confirmed' \cup {None},
         confirmed \subseteq confirmed', confirmed' \subseteq Theirs,
         UNCHANGED <<open, timers, scanners, contacts, subscribed, openings, resets, faults>>
  PROVE  IInv'
<1>1. UiTyped /\ CallsTyped /\ RestTyped /\ timers \in 0..MaxCalls /\ CallInv /\ ConfirmInv /\ DialogInv
  BY TypeParts DEF IInv
<1>2. /\ calls[c].stage = "none" /\ \A d \in 1..(c - 1) : Begun(d)
      /\ calls' = [calls EXCEPT ![c] = [kind |-> kind, of |-> of, stage |-> stage, resets |-> resets]]
  BY DEF Begin, Begun
<1>3. /\ calls' \in [Call -> CallRec]
      /\ calls'[c] = [kind |-> kind, of |-> of, stage |-> stage, resets |-> resets]
      /\ \A d \in Call : d # c => calls'[d] = calls[d]
  BY <1>1, <1>2 DEF CallsTyped, CallRec, RestTyped
<1>4. /\ calls'[c].stage = stage /\ calls'[c].of = of /\ calls'[c].resets = resets
  BY <1>3
<1>5. /\ ui' \in UiRec /\ ui'.mode = ui.mode /\ ui'.invitation = ui.invitation /\ ui'.pending = ui.pending
      /\ ui'.loading = TRUE /\ ui'.success = ui.success
  BY <1>1 DEF UiTyped, UiRec
<1>6. UiTyped' /\ CallsTyped' /\ RestTyped'
  BY <1>1, <1>3, <1>5 DEF UiTyped, CallsTyped, RestTyped
<1>7. ScannerShown' <=> ScannerShown
  BY <1>5 DEF ScannerShown
<1>8. Cameras(scanners') /\ (ScannerShown' <=> OnScreen(scanners'))
  BY <1>7, UiFacts
<1>9. TimerInv'
  <2>1. Done' = Done
    BY <1>2, <1>3, <1>4 DEF Done
  <2>2. QED
    BY <2>1 DEF IInv, TimerInv
<1>10. TypeOK'
  BY <1>1, <1>6, <1>8, <1>9, TypesFromParts
<1>11. LeftBehind => LeftBehind' /\ LeftBehindBefore(c)'
  BY <1>2, <1>3, <1>4 DEF LeftBehind, LeftBehindBefore, Begun
<1>12. \A d \in Call : (InFlight(d) \/ contacts[d] # None) => LeftBehind /\ d # c
  BY <1>1, <1>2 DEF CallInv, InFlight
<1>13. CallInv'
  <2>1. \A d \in Call : calls'[d].resets <= resets'
    BY <1>1, <1>3, <1>4 DEF CallInv, RestTyped
  <2>2. ASSUME NEW d \in Call, NEW e \in Call, d < e, Begun(e)'
        PROVE  Begun(d)'
    <3>1. CASE d = c
      BY <1>4, <3>1 DEF Begun
    <3>2. CASE d # c /\ e = c
      <4>1. d \in 1..(c - 1)
        BY <2>2, <3>2 DEF Call
      <4>2. QED
        BY <1>2, <1>3, <3>2, <4>1 DEF Begun
    <3>3. CASE d # c /\ e # c
      BY <1>1, <1>3, <2>2, <3>3 DEF CallInv, Begun
    <3>4. QED
      BY <3>1, <3>2, <3>3
  <2>3. \A d \in Call : InFlight(d)' => ui'.loading
    BY <1>5
  <2>4. \A d \in Call : contacts'[d] # None => calls'[d].stage = "done" /\ LeftBehind'
    BY <1>1, <1>3, <1>11, <1>12 DEF CallInv
  <2>5. ASSUME NEW d \in Call, NEW e \in Call, d < e, Begun(e)', InFlight(d)' \/ contacts'[d] # None
        PROVE  LeftBehindBefore(e)'
    <3>1. CASE e = c
      <4>1. InFlight(d) \/ contacts[d] # None
        BY <1>3, <2>5, <3>1 DEF InFlight, Call
      <4>2. QED
        BY <1>11, <1>12, <3>1, <4>1
    <3>2. CASE e # c
      <4>1. Begun(e) /\ Begun(d)
        BY <1>1, <1>3, <2>5, <3>2 DEF Begun, CallInv
      <4>2. d # c
        BY <1>2, <4>1 DEF Begun
      <4>3. LeftBehindBefore(e)
        BY <1>1, <1>3, <2>5, <4>1, <4>2 DEF CallInv, InFlight
      <4>4. QED
        BY <1>2, <1>3, <3>2, <4>3 DEF LeftBehindBefore
    <3>3. QED
      BY <3>1, <3>2
  <2>6. QED
    BY <2>1, <2>2, <2>3, <2>4, <2>5 DEF CallInv
<1>14. ConfirmInv'
  BY <1>1, <1>3, <1>4 DEF ConfirmInv, ConfirmedBeforeConnected
<1>15. DialogInv'
  <2>1. AcceptFailed => AcceptFailed'
    BY <1>2, <1>3 DEF AcceptFailed
  <2>2. QED
    BY <1>1, <1>5, <2>1 DEF DialogInv
<1>16. QED
  BY <1>8, <1>9, <1>10, <1>13, <1>14, <1>15 DEF IInv

LEMMA GenerateKeeps ==
  ASSUME IInv, NEW c \in Call, GenerateQR(c)
  PROVE  IInv'
BY BeginKeeps, TypeParts DEF GenerateQR, ChooseShown, Enabled, IInv, RestTyped

LEMMA ConfirmKeeps ==
  ASSUME IInv, NEW c \in Call, ConfirmConnect(c)
  PROVE  IInv'
<1>1. ui.pending \in Theirs /\ ui.pending # None /\ confirmed \subseteq Theirs
  BY UiFacts, TypeParts DEF ConfirmConnect, ConfirmShown, UiRec, IInv, RestTyped
<1>2. QED
  BY <1>1, BeginKeeps DEF ConfirmConnect, ConfirmShown, Enabled

\* A call in flight goes on or ends; when it ends, the dialog stops loading.
LEMMA CallKeeps ==
  ASSUME IInv, NEW c \in Call, InFlight(c),
         NEW stage \in {"queues", "import", "done", "failed"},
         calls' = [calls EXCEPT ![c].stage = stage],
         NEW x \in {None} \cup Theirs, contacts' = [contacts EXCEPT ![c] = x],
         x # None => stage = "done" /\ x = calls[c].of /\ ui'.success,
         stage = "import" => calls[c].of # None,
         confirmed' = confirmed, subscribed' \subseteq subscribed \cup ({calls[c].of} \ {None}),
         UiTyped', DialogInv', Cameras(scanners'), ScannerShown' <=> OnScreen(scanners'),
         UNCHANGED <<openings, resets>>, faults' \in 0..MaxFaults,
         timers' = timers \/ (stage = "done" /\ timers' = timers + 1),
         ui.success => ui'.success,
         stage \in {"queues", "import"} => ui'.loading = ui.loading
  PROVE  IInv'
<1>1. UiTyped /\ CallsTyped /\ RestTyped /\ timers \in 0..MaxCalls /\ CallInv /\ ConfirmInv
  BY TypeParts DEF IInv
<1>2. /\ calls' \in [Call -> CallRec] /\ calls'[c].stage = stage
      /\ calls'[c].of = calls[c].of /\ calls'[c].resets = calls[c].resets
      /\ \A d \in Call : d # c => calls'[d] = calls[d]
  BY <1>1 DEF CallsTyped, CallRec
<1>3. /\ contacts' \in [Call -> {None} \cup Theirs] /\ contacts'[c] = x
      /\ \A d \in Call : d # c => contacts'[d] = contacts[d]
  BY <1>1 DEF CallsTyped
<1>4. UiTyped' /\ CallsTyped' /\ RestTyped'
  BY <1>1, <1>2, <1>3 DEF UiTyped, CallsTyped, CallRec, RestTyped
<1>5. Begun(c) /\ calls[c].stage # "done" /\ contacts[c] = None
  BY <1>1 DEF InFlight, Begun, CallInv
<1>6. /\ \A d \in Call : (Begun(d)' <=> Begun(d)) /\ calls'[d].resets = calls[d].resets
      /\ \A d \in Call : InFlight(d)' => InFlight(d)
      /\ resets' = resets
  BY <1>2, <1>5 DEF Begun, InFlight
<1>7. (LeftBehind => LeftBehind') /\ \A d \in Call : LeftBehindBefore(d) => LeftBehindBefore(d)'
  BY <1>6 DEF LeftBehind, LeftBehindBefore, Begun
<1>8. \A d \in Call : LeftBehindBefore(d) => LeftBehind
  <2>1. \A d \in Call : calls[d].resets \in Nat /\ calls[d].resets <= resets
    BY <1>1 DEF CallInv, CallsTyped, CallRec
  <2>2. resets \in Nat
    BY <1>1 DEF RestTyped
  <2>3. QED
    BY <2>1, <2>2 DEF LeftBehind, LeftBehindBefore, Begun
<1>9. TimerInv' /\ timers' \in Nat
  <2>1. CASE stage = "done"
    <3>1. Done' = Done \cup {c} /\ c \notin Done
      BY <1>2, <1>5, <2>1 DEF Done
    <3>2. Cardinality(Done') = Cardinality(Done) + 1
      BY <3>1, DoneCounts, FS_AddElement
    <3>3. QED
      BY <1>1, <3>2, DoneCounts DEF IInv, TimerInv
  <2>2. CASE stage # "done"
    <3>1. Done' = Done /\ timers' = timers
      BY <1>2, <1>5, <2>2 DEF Done
    <3>2. QED
      BY <1>1, <3>1 DEF IInv, TimerInv
  <2>3. QED
    BY <2>1, <2>2
<1>10. TypeOK'
  BY <1>4, <1>9, TypesFromParts
<1>11. CallInv'
  <2>1. \A d \in Call : calls'[d].resets <= resets'
    BY <1>1, <1>6 DEF CallInv
  <2>2. \A d, e \in Call : d < e /\ Begun(e)' => Begun(d)'
    BY <1>1, <1>6 DEF CallInv
  <2>3. ASSUME NEW d \in Call, InFlight(d)'
        PROVE  ui'.loading \/ LeftBehind'
    <3>1. CASE stage \in {"queues", "import"}
      BY <1>1, <1>6, <1>7, <2>3, <3>1 DEF CallInv
    <3>2. CASE stage \in {"done", "failed"}
      <4>1. d # c /\ InFlight(d) /\ Begun(d)
        BY <1>2, <1>6, <2>3, <3>2 DEF InFlight, Begun
      <4>2. d < c \/ c < d
        BY <4>1 DEF Call
      <4>3. LeftBehindBefore(c) \/ LeftBehindBefore(d)
        BY <1>1, <1>5, <4>1, <4>2 DEF CallInv
      <4>4. QED
        BY <1>7, <1>8, <4>3
    <3>3. QED
      BY <3>1, <3>2
  <2>4. ASSUME NEW d \in Call, contacts'[d] # None
        PROVE  calls'[d].stage = "done" /\ (ui'.success \/ LeftBehind')
    <3>1. CASE d = c
      BY <1>2, <1>3, <2>4, <3>1
    <3>2. CASE d # c
      BY <1>1, <1>2, <1>3, <1>7, <2>4, <3>2 DEF CallInv
    <3>3. QED
      BY <3>1, <3>2
  <2>5. ASSUME NEW d \in Call, NEW e \in Call, d < e, Begun(e)', InFlight(d)' \/ contacts'[d] # None
        PROVE  LeftBehindBefore(e)'
    <3>1. InFlight(d) \/ contacts[d] # None
      BY <1>3, <1>6, <2>5
    <3>2. LeftBehindBefore(e)
      BY <1>1, <1>6, <2>5, <3>1 DEF CallInv
    <3>3. QED
      BY <1>7, <3>2
  <2>6. QED
    BY <2>1, <2>2, <2>3, <2>4, <2>5 DEF CallInv
<1>12. ConfirmInv'
  <2>1. \A d \in Call : calls'[d].of = calls[d].of
    BY <1>2
  <2>2. \A d \in Call : calls'[d].stage \in {"subscribe", "import"} => calls'[d].of # None
    BY <1>1, <1>2 DEF ConfirmInv
  <2>3. ConfirmedBeforeConnected'
    <3>1. \A d \in Call : contacts'[d] \in confirmed \cup {None}
      BY <1>1, <1>3 DEF ConfirmInv, ConfirmedBeforeConnected
    <3>2. subscribed' \subseteq confirmed \cup {None}
      BY <1>1 DEF ConfirmInv, ConfirmedBeforeConnected
    <3>3. QED
      BY <3>1, <3>2 DEF ConfirmedBeforeConnected
  <2>4. QED
    BY <1>1, <2>1, <2>2, <2>3 DEF ConfirmInv
<1>13. QED
  BY <1>9, <1>10, <1>11, <1>12 DEF IInv

\* An answer comes that the dialog is not told of.
LEMMA AnswersKeep ==
  ASSUME IInv, NEW c \in Call, KeyGenerated(c) \/ Subscribed(c)
  PROVE  IInv'
<1>1. /\ UiTyped /\ CallsTyped /\ RestTyped /\ timers \in 0..MaxCalls /\ ConfirmInv /\ DialogInv
  BY TypeParts DEF IInv
<1>2. UNCHANGED <<open, ui, scanners>> => /\ UiTyped' /\ Cameras(scanners') /\ (ScannerShown' <=> OnScreen(scanners'))
                                          /\ (AcceptFailed => AcceptFailed') => DialogInv'
  BY <1>1, UiFacts DEF UiTyped, ScannerShown, DialogInv
<1>3. contacts[c] \in {None} \cup Theirs /\ contacts = [contacts EXCEPT ![c] = contacts[c]]
  BY <1>1 DEF CallsTyped
<1>4. InFlight(c) => contacts[c] = None
  BY DEF IInv, CallInv, InFlight
<1>5. InFlight(c) /\ calls' = [calls EXCEPT ![c].stage = "queues"] => (AcceptFailed => AcceptFailed')
  BY <1>1 DEF AcceptFailed, CallsTyped, CallRec, InFlight
<1>6. InFlight(c) /\ calls' = [calls EXCEPT ![c].stage = "import"] => (AcceptFailed => AcceptFailed')
  BY <1>1 DEF AcceptFailed, CallsTyped, CallRec, InFlight
<1>7. CASE KeyGenerated(c)
  <2>1. /\ InFlight(c) /\ calls' = [calls EXCEPT ![c].stage = "queues"]
        /\ UNCHANGED <<open, ui, timers, scanners, contacts, subscribed, confirmed, openings, resets, faults>>
    BY <1>7 DEF KeyGenerated, InFlight
  <2>2. UiTyped' /\ Cameras(scanners') /\ (ScannerShown' <=> OnScreen(scanners')) /\ DialogInv'
    BY <1>2, <1>5, <2>1
  <2>3. contacts' = [contacts EXCEPT ![c] = None]
    BY <1>3, <1>4, <2>1
  <2>4. faults' \in 0..MaxFaults
    BY <1>1, <2>1 DEF RestTyped
  <2>5. QED
    BY <2>1, <2>2, <2>3, <2>4, CallKeeps
<1>8. CASE Subscribed(c)
  <2>1. /\ InFlight(c) /\ calls' = [calls EXCEPT ![c].stage = "import"] /\ calls[c].stage = "subscribe"
        /\ subscribed' = subscribed \cup {calls[c].of}
        /\ UNCHANGED <<open, ui, timers, scanners, contacts, confirmed, openings, resets, faults>>
    BY <1>8 DEF Subscribed, InFlight
  <2>2. UiTyped' /\ Cameras(scanners') /\ (ScannerShown' <=> OnScreen(scanners')) /\ DialogInv'
    BY <1>2, <1>6, <2>1
  <2>3. contacts' = [contacts EXCEPT ![c] = None]
    BY <1>3, <1>4, <2>1
  <2>4. calls[c].of # None
    BY <1>1, <2>1 DEF ConfirmInv
  <2>5. subscribed' \subseteq subscribed \cup ({calls[c].of} \ {None})
    BY <2>1, <2>4
  <2>6. faults' \in 0..MaxFaults
    BY <1>1, <2>1 DEF RestTyped
  <2>7. QED
    BY <2>1, <2>2, <2>3, <2>4, <2>5, <2>6, CallKeeps
<1>9. QED
  BY <1>7, <1>8

\* A call ends, and the handler that awaited it sets the dialog's state.
LEMMA EndsKeep ==
  ASSUME IInv, NEW c \in Call, InvitationCreated(c) \/ InvitationAccepted(c) \/ CallFails(c)
  PROVE  IInv'
<1>1. /\ UiTyped /\ CallsTyped /\ RestTyped /\ timers \in 0..MaxCalls /\ ConfirmInv /\ DialogInv
      /\ ui \in UiRec
  BY TypeParts DEF IInv, UiTyped
<1>2. Cameras(scanners) /\ (ScannerShown <=> OnScreen(scanners))
  BY UiFacts
<1>3. InFlight(c) => (contacts' = contacts => contacts' = [contacts EXCEPT ![c] = None])
  BY <1>1 DEF CallsTyped, IInv, CallInv, InFlight
<1>4. (ScannerShown' => ScannerShown) /\ scanners' = Redrawn(scanners)
        => Cameras(scanners') /\ (ScannerShown' <=> OnScreen(scanners'))
  BY <1>2, RedrawnFits
<1>5. CASE InvitationCreated(c)
  <2>1. /\ InFlight(c) /\ calls' = [calls EXCEPT ![c].stage = "done"]
        /\ ui' = [ui EXCEPT !.invitation = c, !.mode = "generate", !.loading = FALSE]
        /\ UNCHANGED <<open, timers, contacts, subscribed, confirmed, openings, resets, faults>>
        /\ scanners' = Redrawn(scanners)
    BY <1>5 DEF InvitationCreated, InFlight
  <2>2. ui' \in UiRec /\ ui'.mode = "generate" /\ ui'.invitation = c /\ ui'.success = ui.success
    BY <1>1, <2>1 DEF UiRec
  <2>3. UiTyped' /\ DialogInv'
    BY <1>1, <2>1, <2>2, ConstantTypes DEF UiTyped, DialogInv
  <2>4. Cameras(scanners') /\ (ScannerShown' <=> OnScreen(scanners'))
    BY <1>4, <2>1, <2>2 DEF ScannerShown
  <2>5. faults' \in 0..MaxFaults
    BY <1>1, <2>1 DEF RestTyped
  <2>6. QED
    BY <1>3, <2>1, <2>2, <2>3, <2>4, <2>5, CallKeeps
<1>6. CASE InvitationAccepted(c)
  <2>1. /\ InFlight(c) /\ calls' = [calls EXCEPT ![c].stage = "done"]
        /\ contacts' = [contacts EXCEPT ![c] = calls[c].of]
        /\ ui' = [ui EXCEPT !.success = TRUE, !.loading = FALSE, !.pending = None]
        /\ open' = FALSE /\ timers' = timers + 1
        /\ UNCHANGED <<subscribed, confirmed, openings, resets, faults>>
        /\ scanners' = Redrawn(scanners)
    BY <1>6 DEF InvitationAccepted, InFlight
  <2>2. ui' \in UiRec /\ ui'.mode = ui.mode /\ ui'.invitation = ui.invitation /\ ui'.success
    BY <1>1, <2>1 DEF UiRec
  <2>3. UiTyped' /\ DialogInv'
    BY <1>1, <2>1, <2>2 DEF UiTyped, DialogInv
  <2>4. Cameras(scanners') /\ (ScannerShown' <=> OnScreen(scanners'))
    BY <1>4, <2>1 DEF ScannerShown
  <2>5. faults' \in 0..MaxFaults /\ calls[c].of \in {None} \cup Theirs
    BY <1>1, <2>1 DEF RestTyped, CallsTyped, CallRec
  <2>6. QED
    BY <2>1, <2>2, <2>3, <2>4, <2>5, CallKeeps
<1>7. CASE CallFails(c)
  <2>1. /\ InFlight(c) /\ calls' = [calls EXCEPT ![c].stage = "failed"]
        /\ ui' = [ui EXCEPT !.loading = FALSE, !.pending = IF calls[c].kind = "accept" THEN None ELSE @]
        /\ UNCHANGED <<open, timers, contacts, subscribed, confirmed, openings, resets>>
        /\ faults < MaxFaults /\ faults' = faults + 1
        /\ scanners' = Redrawn(scanners)
    BY <1>7 DEF CallFails, AfterFailure
  <2>2. /\ ui' \in UiRec /\ ui'.mode = ui.mode /\ ui'.invitation = ui.invitation /\ ui'.success = ui.success
        /\ calls[c].kind # "accept" => ui'.pending = ui.pending
    BY <1>1, <2>1 DEF UiRec
  <2>3. (AcceptFailed \/ calls[c].kind = "accept") => AcceptFailed'
    BY <1>1, <2>1 DEF AcceptFailed, CallsTyped, CallRec
  <2>4. UiTyped' /\ DialogInv'
    BY <1>1, <2>1, <2>2, <2>3 DEF UiTyped, DialogInv
  <2>5. Cameras(scanners') /\ (ScannerShown' <=> OnScreen(scanners'))
    BY <1>4, <2>1, <2>2 DEF ScannerShown
  <2>6. faults' \in 0..MaxFaults
    BY <1>1, <2>1, ConstantTypes DEF RestTyped
  <2>7. /\ subscribed' \subseteq subscribed \cup ({calls[c].of} \ {None}) /\ UNCHANGED <<openings, resets>>
        /\ timers' = timers /\ confirmed' = confirmed
        /\ ui.success => ui'.success
    BY <2>1, <2>2
  <2>8. InFlight(c) /\ calls' = [calls EXCEPT ![c].stage = "failed"] /\ contacts' = [contacts EXCEPT ![c] = None]
    BY <1>3, <2>1
  <2>9. QED
    BY <2>4, <2>5, <2>6, <2>7, <2>8, CallKeeps
<1>8. QED
  BY <1>5, <1>6, <1>7

-----------------------------------------------------------------------------
(* The theorems                                                            *)

LEMMA PairingStart == Init => IInv
<1> SUFFICES ASSUME Init PROVE IInv
  OBVIOUS
<1>1. /\ open = FALSE /\ ui = Fresh /\ timers = 0 /\ calls = [c \in Call |-> NotCalled] /\ scanners = <<>>
      /\ contacts = [c \in Call |-> None] /\ subscribed = {} /\ confirmed = {}
      /\ openings = 0 /\ resets = 0 /\ faults = 0
  BY DEF Init
<1>2. NotCalled \in CallRec /\ NotCalled.stage = "none" /\ NotCalled.resets = 0 /\ NotCalled.of = None
  BY DEF NotCalled, CallRec
<1>3. UiTyped /\ CallsTyped /\ RestTyped
  <2>1. UiTyped
    BY <1>1, FreshTyped DEF UiTyped
  <2>2. CallsTyped
    BY <1>1, <1>2 DEF CallsTyped
  <2>3. RestTyped
    BY <1>1, ConstantTypes DEF RestTyped
  <2>4. QED
    BY <2>1, <2>2, <2>3
<1>4. scanners \in Seq(Scanner) /\ Len(scanners) = 0 /\ ~ScannerShown
  BY <1>1 DEF ScannerShown
<1>5. Cameras(scanners) /\ ~OnScreen(scanners)
  BY <1>4, ConstantTypes DEF Cameras, OnScreen
<1>6. timers \in 0..MaxCalls
  BY <1>1, ConstantTypes
<1>7. TypeOK
  BY <1>3, <1>4, <1>5, <1>6, TypeParts, ConstantTypes
<1>8. TimerInv
  BY <1>1, DoneCounts DEF TimerInv
<1>9. CallInv
  BY <1>1, <1>2 DEF CallInv, Begun, InFlight
<1>10. ConfirmInv
  BY <1>1, <1>2 DEF ConfirmInv, ConfirmedBeforeConnected
<1>11. DialogInv
  BY <1>1, FreshTyped DEF DialogInv
<1>12. QED
  BY <1>5, <1>7, <1>8, <1>9, <1>10, <1>11 DEF IInv

LEMMA PairingNext == IInv /\ [Next]_vars => IInv'
<1> SUFFICES ASSUME IInv, [Next]_vars PROVE IInv'
  OBVIOUS
<1>1. CASE UNCHANGED vars
  BY <1>1 DEF vars, IInv, TypeOK, ScannerShown, CallInv, Begun, InFlight, LeftBehind, LeftBehindBefore, ConfirmInv,
     ConfirmedBeforeConnected, DialogInv, AcceptFailed, Cameras, TimerInv, Done
<1>2. CASE Next
  BY <1>2, CloseKeeps, OpenKeeps, ShowsKeep, GenerateKeeps, ConfirmKeeps, PastesKeep, CamerasKeep, DecodesKeep,
     ImageReadKeeps, AnswersKeep, EndsKeep DEF Next
<1>3. QED
  BY <1>1, <1>2

LEMMA PairingAlways == Spec => []IInv
BY PairingStart, PairingNext, PTL DEF Spec

\* No queue is subscribed to and no contact stored for an invitation the user did not
\* confirm: handleScan, handleConfirmConnect and acceptInvitation, whatever cameras, timers
\* and calls an earlier opening of the dialog left behind.
THEOREM OnlyConfirmedIsConnected == Spec => []ConfirmedBeforeConnected
<1>1. IInv => ConfirmedBeforeConnected
  BY DEF IInv, ConfirmInv
<1>2. QED
  BY <1>1, PairingAlways, PTL

\* Calls overlap and contacts come twice only behind a reset by handleClose, a dead end
\* only behind a failed accept, and a camera runs on only when it was left while it started.
THEOREM PairingSafe == Spec => []PairingInv
<1>1. IInv => PairingInv
  <2> SUFFICES ASSUME IInv PROVE PairingInv
    OBVIOUS
  <2>1. OverlapNeedsReset
    BY DEF IInv, CallInv, OverlapNeedsReset, InFlight, Begun
  <2>2. TwinsNeedReset
    BY DEF IInv, CallInv, TwinsNeedReset, Begun
  <2>3. DeadEndNeedsFailure
    BY UiFacts DEF IInv, DialogInv, AcceptFailed, DeadEndNeedsFailure, ChooseShown, GenerateShown, ScannerShown,
       ConfirmShown, UiRec
  <2>4. CameraNeedsEarlyLeave
    BY DEF IInv, Cameras, Fit, CameraNeedsEarlyLeave
  <2>5. QED
    BY <2>1, <2>2, <2>3, <2>4 DEF IInv, PairingInv
<1>2. QED
  BY <1>1, PairingAlways, PTL
-----------------------------------------------------------------------------
(* The desktop shell: the same for Desktop, for any processes, starts,     *)
(* keys and loads that fail.  Shell is that module; its counter of faults  *)
(* is failedLoads here.                                                    *)
(*                                                                         *)
(* The argument goes by process: what its window may look like follows     *)
(* from its phase and from whether it quits; and the keys agree because a  *)
(* packaged app does not run without the keychain.                         *)

CONSTANTS Procs, MaxStarts, Keys, MaxFailedLoads
VARIABLES build, proc, keychain, memory, sealed, touched, starts, failedLoads

Shell == INSTANCE Desktop WITH faults <- failedLoads, MaxFaults <- MaxFailedLoads

\* What Desktop assumes of its constants.
ShellBounds == {MaxStarts, MaxFailedLoads} \subseteq Nat /\ Keys \subseteq Nat \ {0}

\* A process by itself: only a running one shows a window, a window that is gone
\* means that the process quits, and a hidden one has a cause.
Runs(r) ==
  /\ r \in Shell!Proc
  /\ r.window = "shown" => r.phase = "running"
  /\ r.window \in {"none", "dead"} => r.quitting \/ r.phase = "off"
  /\ r.captured = "dead" \/ r.threw => r.quitting
  /\ r.phase = "off" => r.check = "no" /\ r.window = "none"
  /\ r.phase = "running" /\ r.painted /\ r.window = "hidden" => r.why \in {"user", "early"}

\* A packaged app runs with the keychain, and a text that is still to be read
\* was sealed with the key in it.
KeychainInv ==
  /\ build.packaged => \A p \in Procs : (Shell!Up(p) => proc[p].keytar) /\ memory[p] = Shell!NoKey
  /\ sealed.volatile => ~build.packaged
  /\ ~touched /\ ~sealed.volatile => sealed.key = keychain

CountsInv ==
  /\ keychain \in Shell!Key /\ memory \in [Procs -> Shell!Key]
  /\ sealed \in [key : Shell!Key, volatile : BOOLEAN]
  /\ touched \in BOOLEAN
  /\ starts \in 0..MaxStarts /\ failedLoads \in 0..MaxFailedLoads

ShellIInv ==
  /\ proc \in [Procs -> Shell!Proc] /\ \A p \in Procs : Runs(proc[p])
  /\ CountsInv /\ KeychainInv

LEMMA ShellInit == ASSUME ShellBounds PROVE Shell!Init => ShellIInv
<1> SUFFICES ASSUME Shell!Init PROVE ShellIInv
  OBVIOUS
<1>1. Runs(Shell!Off) /\ Shell!Off \in Shell!Proc
  BY DEF Runs, Shell!Off, Shell!Proc
<1>2. proc \in [Procs -> Shell!Proc] /\ \A p \in Procs : Runs(proc[p])
  BY <1>1 DEF Shell!Init
<1>3. 0 \in 0..MaxStarts /\ 0 \in 0..MaxFailedLoads /\ Shell!NoKey \in Shell!Key
  BY DEF ShellBounds, Shell!Key
<1>4. CountsInv
  BY <1>3 DEF Shell!Init, CountsInv
<1>5. KeychainInv
  BY DEF Shell!Init, KeychainInv, Shell!Up, Shell!Off
<1>6. QED
  BY <1>2, <1>4, <1>5 DEF ShellIInv

\* What becomes of a process.
LEMMA HiddenFits == ASSUME ShellBounds, NEW r, Runs(r), r.phase = "running" PROVE Runs(Shell!Hidden(r)) /\ Shell!Hidden(r).keytar = r.keytar /\ Shell!Hidden(r).phase = r.phase
BY DEF Runs, Shell!Proc, Shell!Hidden

LEMMA ShownFits == ASSUME ShellBounds, NEW r, Runs(r), r.phase = "running" PROVE Runs(Shell!Shown(r)) /\ Shell!Shown(r).keytar = r.keytar /\ Shell!Shown(r).phase = r.phase
BY DEF Runs, Shell!Proc, Shell!Shown

LEMMA ClosedFits == ASSUME ShellBounds, NEW r, Runs(r), r.quitting, r.phase # "off" PROVE Runs(Shell!Closed(r)) /\ Shell!Closed(r).keytar = r.keytar /\ Shell!Closed(r).phase = r.phase
<1> DEFINE window == IF r.phase = "running" THEN "none" ELSE "dead"
           captured == IF r.captured = "none" THEN "none" ELSE "dead"
<1>1. r \in Shell!Proc /\ (r.quitting \/ build.platform # "darwin") = TRUE
  BY DEF Runs
<1>2. Shell!Closed(r) = [r EXCEPT !.window = window, !.captured = captured, !.quitting = TRUE]
  BY <1>1 DEF Shell!Closed
<1>3. window \in {"none", "dead"} /\ captured \in {"none", "dead"}
  OBVIOUS
<1> HIDE DEF window, captured
<1>4. QED
  BY <1>1, <1>2, <1>3, ZenonT(60) DEF Runs, Shell!Proc

LEMMA CloseAskedFits ==
  ASSUME ShellBounds, NEW r, Runs(r), r.phase # "off", r.quitting \/ r.window = "shown"
  PROVE  Runs(Shell!CloseAsked(r)) /\ Shell!CloseAsked(r).keytar = r.keytar /\ Shell!CloseAsked(r).phase = r.phase
<1>1. CASE r.phase = "running" /\ ~r.quitting
  BY <1>1, HiddenFits DEF Shell!CloseAsked
<1>2. CASE ~(r.phase = "running" /\ ~r.quitting)
  <2>1. r.quitting
    BY <1>2 DEF Runs, Shell!Proc
  <2>2. QED
    BY <1>2, <2>1, ClosedFits DEF Shell!CloseAsked
<1>3. QED
  BY <1>1, <1>2

LEMMA PaintFits ==
  ASSUME ShellBounds, NEW r, Runs(r), r.phase \in {"loading", "running"}, r.window \in {"hidden", "shown"}
  PROVE  Runs(Shell!ReadyToShow(r)) /\ Shell!ReadyToShow(r).keytar = r.keytar /\ Shell!ReadyToShow(r).phase = r.phase
<1>1. CASE r.phase = "running"
  <2>1. Shell!ReadyToShow(r) = [Shell!Shown(r) EXCEPT !.painted = TRUE]
    BY <1>1 DEF Shell!ReadyToShow
  <2>2. Runs(Shell!Shown(r)) /\ Shell!Shown(r).keytar = r.keytar /\ Shell!Shown(r).phase = r.phase /\ Shell!Shown(r).window = "shown"
    BY <1>1, ShownFits DEF Shell!Shown, Runs, Shell!Proc
  <2>3. QED
    BY <2>1, <2>2 DEF Runs, Shell!Proc
<1>2. CASE r.phase # "running"
  BY <1>2 DEF Runs, Shell!Proc, Shell!ReadyToShow
<1>3. QED
  BY <1>1, <1>2

\* A step of one process that leaves the keys alone.
LEMMA ProcessStep ==
  ASSUME ShellBounds, ShellIInv, NEW p \in Procs, NEW r, Runs(r), r.phase # "off" => r.keytar \/ ~build.packaged,
         proc' = [proc EXCEPT ![p] = r], UNCHANGED <<build, Shell!keys>>,
         starts' \in 0..MaxStarts, failedLoads' \in 0..MaxFailedLoads
  PROVE  ShellIInv'
<1>1. r \in Shell!Proc
  BY DEF Runs
<1>2. proc' \in [Procs -> Shell!Proc] /\ \A q \in Procs : proc'[q] = IF q = p THEN r ELSE proc[q]
  BY <1>1 DEF ShellIInv
<1>3. \A q \in Procs : Runs(proc'[q])
  BY <1>2 DEF ShellIInv
<1>4. CountsInv'
  BY DEF ShellIInv, CountsInv, Shell!keys
<1>5. KeychainInv'
  BY <1>2 DEF ShellIInv, KeychainInv, Shell!keys, Shell!Up
<1>6. QED
  BY <1>2, <1>3, <1>4, <1>5 DEF ShellIInv

\* The same, of a process that keeps its keychain.
LEMMA SameKeychain ==
  ASSUME ShellBounds, ShellIInv, NEW p \in Procs, NEW r, Runs(r), Shell!Up(p), r.keytar = proc[p].keytar,
         proc' = [proc EXCEPT ![p] = r], UNCHANGED <<build, Shell!keys, starts>>, failedLoads' \in 0..MaxFailedLoads
  PROVE  ShellIInv'
<1>1. r.keytar \/ ~build.packaged
  BY DEF ShellIInv, KeychainInv
<1>2. starts' \in 0..MaxStarts
  BY DEF ShellIInv, CountsInv
<1>3. UNCHANGED <<build, Shell!keys>>
  OBVIOUS
<1>4. QED
  BY <1>1, <1>2, <1>3, ProcessStep

LEMMA ProcessStarts == ASSUME ShellBounds, ShellIInv, NEW p \in Procs, Shell!Start(p) PROVE ShellIInv'
<1>1. PICK keytar \in BOOLEAN :
        proc' = [proc EXCEPT ![p] =
                   IF Shell!MayRun(keytar)
                     THEN [Shell!Off EXCEPT !.phase = "loading", !.window = "hidden", !.keytar = keytar]
                     ELSE Shell!Off]
  BY DEF Shell!Start
<1> DEFINE r == IF Shell!MayRun(keytar)
                  THEN [Shell!Off EXCEPT !.phase = "loading", !.window = "hidden", !.keytar = keytar]
                  ELSE Shell!Off
<1>2. Runs(r) /\ (r.phase # "off" => r.keytar \/ ~build.packaged)
  BY DEF Runs, Shell!Off, Shell!Proc, Shell!MayRun
<1>3. starts' \in 0..MaxStarts /\ failedLoads' \in 0..MaxFailedLoads /\ UNCHANGED <<build, Shell!keys>>
  BY DEF ShellBounds, Shell!Start, ShellIInv, CountsInv
<1>4. proc' = [proc EXCEPT ![p] = r]
  BY <1>1
<1> HIDE DEF r
<1>5. QED
  BY <1>2, <1>3, <1>4, ProcessStep

LEMMA PageLoads == ASSUME ShellBounds, ShellIInv, NEW p \in Procs, Shell!LoadEnds(p) \/ Shell!LoadFails(p) PROVE ShellIInv'
<1>1. Runs(proc[p]) /\ failedLoads \in 0..MaxFailedLoads /\ MaxFailedLoads \in Nat
  BY DEF ShellBounds, ShellIInv, CountsInv
<1>2. CASE Shell!LoadEnds(p)
  <2> DEFINE r == [proc[p] EXCEPT !.phase = "running", !.why = IF proc[p].painted THEN "early" ELSE "start",
                                  !.check = Shell!Checks, !.captured = "alive"]
  <2>1. Shell!Checks \in {"no", "asked"}
    BY DEF Shell!Checks
  <2>2. Runs(r) /\ r.keytar = proc[p].keytar
    BY <1>1, <1>2, <2>1 DEF Runs, Shell!Proc, Shell!LoadEnds
  <2>3. proc' = [proc EXCEPT ![p] = r] /\ Shell!Up(p) /\ UNCHANGED <<build, Shell!keys, starts, failedLoads>>
    BY <1>2 DEF Shell!LoadEnds, Shell!Up
  <2> HIDE DEF r
  <2>4. QED
    BY <1>1, <2>2, <2>3, SameKeychain
<1>3. CASE Shell!LoadFails(p)
  <2> DEFINE r == [proc[p] EXCEPT !.phase = "stuck"]
  <2>1. Runs(r) /\ r.keytar = proc[p].keytar
    BY <1>1, <1>3 DEF Runs, Shell!Proc, Shell!LoadFails
  <2>2. proc' = [proc EXCEPT ![p] = r] /\ Shell!Up(p) /\ UNCHANGED <<build, Shell!keys, starts>> /\ failedLoads' \in 0..MaxFailedLoads
    BY <1>1, <1>3 DEF Shell!LoadFails, Shell!Up
  <2> HIDE DEF r
  <2>3. QED
    BY <2>1, <2>2, SameKeychain
<1>4. QED
  BY <1>2, <1>3

LEMMA WindowMoves ==
  ASSUME ShellBounds, ShellIInv, NEW p \in Procs, Shell!Paints(p) \/ Shell!Close(p) \/ Shell!TrayClick(p) \/ Shell!Activate(p) \/ Shell!QuitCloses(p)
  PROVE  ShellIInv'
<1> DEFINE s == proc[p]
           New(r) == Runs(r) /\ r.keytar = s.keytar /\ proc' = [proc EXCEPT ![p] = r]
<1>1. Runs(s) /\ failedLoads \in 0..MaxFailedLoads
  BY DEF ShellIInv, CountsInv
<1>2. UNCHANGED <<build, Shell!keys, starts, failedLoads>>
  BY DEF Shell!Paints, Shell!Close, Shell!TrayClick, Shell!Activate, Shell!QuitCloses
<1>4. \E r : New(r)
  <2>1. CASE Shell!Paints(p)
    <3>1. New(Shell!ReadyToShow(s))
      BY <1>1, <2>1, PaintFits DEF Shell!Paints
    <3>2. QED
      BY <3>1
  <2>2. CASE Shell!Close(p) \/ Shell!QuitCloses(p)
    <3>1. s.phase # "off" /\ (s.quitting \/ s.window = "shown")
      BY <1>1, <2>2 DEF Shell!Close, Shell!QuitCloses, Runs
    <3>2. New(Shell!CloseAsked(s))
      BY <1>1, <2>2, <3>1, CloseAskedFits DEF Shell!Close, Shell!QuitCloses
    <3>3. QED
      BY <3>2
  <2>3. CASE Shell!TrayClick(p)
    <3>1. Runs(Shell!Shown(s)) /\ Shell!Shown(s).keytar = s.keytar /\ Runs(Shell!Hidden(s)) /\ Shell!Hidden(s).keytar = s.keytar
      BY <1>1, <2>3, ShownFits, HiddenFits DEF Shell!TrayClick
    <3>2. proc' = [proc EXCEPT ![p] = Shell!Shown(s)] \/ proc' = [proc EXCEPT ![p] = Shell!Hidden(s)]
      BY <2>3 DEF Shell!TrayClick
    <3>3. QED
      BY <3>1, <3>2
  <2>4. CASE Shell!Activate(p)
    <3> DEFINE r == [s EXCEPT !.window = "hidden", !.why = "start", !.painted = FALSE]
    <3>1. Runs(r) /\ r.keytar = s.keytar
      BY <1>1, <2>4 DEF Shell!Activate, Runs, Shell!Proc
    <3>2. Runs(Shell!Shown(s)) /\ Shell!Shown(s).keytar = s.keytar
      BY <1>1, <2>4, ShownFits DEF Shell!Activate
    <3>3. proc' = [proc EXCEPT ![p] = r] \/ proc' = [proc EXCEPT ![p] = Shell!Shown(s)]
      BY <2>4 DEF Shell!Activate
    <3>4. QED
      BY <3>1, <3>2, <3>3
  <2>5. QED
    BY <2>1, <2>2, <2>3, <2>4
<1>5. Shell!Up(p)
  BY <1>1 DEF Shell!Paints, Shell!Close, Shell!TrayClick, Shell!Activate, Shell!QuitCloses, Runs, Shell!Proc, Shell!Up
<1>6. QED
  BY <1>1, <1>2, <1>4, <1>5, SameKeychain

LEMMA ProcessQuits == ASSUME ShellBounds, ShellIInv, NEW p \in Procs, Shell!Quit(p) \/ Shell!UpdateAnswers(p) PROVE ShellIInv'
<1>1. Runs(proc[p]) /\ failedLoads \in 0..MaxFailedLoads
  BY DEF ShellIInv, CountsInv
<1>2. CASE Shell!Quit(p)
  <2> DEFINE r == [proc[p] EXCEPT !.quitting = TRUE]
  <2>1. Runs(r) /\ r.keytar = proc[p].keytar
    BY <1>1 DEF Runs, Shell!Proc
  <2>2. proc' = [proc EXCEPT ![p] = r] /\ Shell!Up(p) /\ UNCHANGED <<build, Shell!keys, starts, failedLoads>>
    BY <1>2 DEF Shell!Quit
  <2> HIDE DEF r
  <2>3. QED
    BY <1>1, <2>1, <2>2, SameKeychain
<1>3. CASE Shell!UpdateAnswers(p)
  <2>1. PICK available \in BOOLEAN :
          proc' = [proc EXCEPT ![p] = [proc[p] EXCEPT !.check = "done", !.threw = available /\ proc[p].captured = "dead"]]
    BY <1>3 DEF Shell!UpdateAnswers
  <2> DEFINE threw == available /\ proc[p].captured = "dead"
             r == [proc[p] EXCEPT !.check = "done", !.threw = threw]
  <2>2. UNCHANGED <<build, Shell!keys, starts, failedLoads>> /\ proc[p].check = "asked"
    BY <1>3 DEF Shell!UpdateAnswers
  <2>3. Shell!Up(p) /\ proc[p].phase # "off"
    BY <1>1, <2>2 DEF Runs, Shell!Up
  <2>4. threw \in BOOLEAN /\ (threw => proc[p].captured = "dead")
    OBVIOUS
  <2>5. proc' = [proc EXCEPT ![p] = r]
    BY <2>1
  <2> HIDE DEF threw
  <2>6. Runs(r) /\ r.keytar = proc[p].keytar
    BY <1>1, <2>3, <2>4 DEF Runs, Shell!Proc
  <2> HIDE DEF r
  <2>7. QED
    BY <1>1, <2>2, <2>3, <2>5, <2>6, SameKeychain
<1>4. QED
  BY <1>2, <1>3

LEMMA ProcessExits == ASSUME ShellBounds, ShellIInv, NEW p \in Procs, Shell!Exits(p) PROVE ShellIInv'
<1>1. Runs(Shell!Off) /\ Shell!Off \in Shell!Proc /\ Shell!NoKey \in Shell!Key
  BY DEF Runs, Shell!Off, Shell!Proc, Shell!Key
<1>2. proc' \in [Procs -> Shell!Proc] /\ \A q \in Procs : proc'[q] = IF q = p THEN Shell!Off ELSE proc[q]
  BY <1>1 DEF ShellIInv, Shell!Exits
<1>3. memory' \in [Procs -> Shell!Key] /\ \A q \in Procs : memory'[q] = IF q = p THEN Shell!NoKey ELSE memory[q]
  BY <1>1 DEF ShellIInv, CountsInv, Shell!Exits
<1>4. \A q \in Procs : Runs(proc'[q])
  BY <1>1, <1>2 DEF ShellIInv
<1>5. CountsInv'
  BY <1>3 DEF ShellIInv, CountsInv, Shell!Exits
<1>6. KeychainInv'
  BY <1>2, <1>3 DEF ShellIInv, KeychainInv, Shell!Exits, Shell!Up, Shell!Off
<1>7. QED
  BY <1>2, <1>4, <1>5, <1>6 DEF ShellIInv

\* A key is put where the process keeps keys.
LEMMA KeyPut ==
  ASSUME ShellBounds, ShellIInv, NEW p \in Procs, Shell!HasPage(p), NEW key \in Shell!Key, Shell!Puts(p, key),
         UNCHANGED <<build, proc, sealed, starts, failedLoads>>
  PROVE  ShellIInv'
<1>1. Shell!Up(p) /\ touched' = TRUE
  BY DEF Shell!HasPage, Shell!Up, Shell!Puts
<1>2. /\ keychain' \in Shell!Key
      /\ \/ memory' = memory
         \/ ~proc[p].keytar /\ memory' = [memory EXCEPT ![p] = key]
  BY DEF Shell!Puts, ShellIInv, CountsInv
<1>3. memory' \in [Procs -> Shell!Key] /\ \A q \in Procs : memory'[q] = memory[q] \/ (q = p /\ ~proc[p].keytar)
  BY <1>2 DEF ShellIInv, CountsInv
<1>4. CountsInv'
  BY <1>1, <1>2, <1>3 DEF ShellIInv, CountsInv
<1>5. KeychainInv'
  BY <1>1, <1>3 DEF ShellIInv, KeychainInv, Shell!Up
<1>6. QED
  BY <1>4, <1>5 DEF ShellIInv

LEMMA KeysMove == ASSUME ShellBounds, ShellIInv, NEW p \in Procs, Shell!StoreKey(p) \/ Shell!DeleteKey(p) \/ Shell!Encrypt(p) PROVE ShellIInv'
<1>1. CASE Shell!StoreKey(p)
  BY <1>1, KeyPut DEF Shell!StoreKey, Shell!Key
<1>2. CASE Shell!DeleteKey(p)
  BY <1>2, KeyPut DEF Shell!DeleteKey, Shell!Key
<1>3. CASE Shell!Encrypt(p)
  <2>1. Shell!Up(p) /\ Shell!KeyOf(p) \in Shell!Key /\ (proc[p].keytar => Shell!KeyOf(p) = keychain) /\ proc[p].keytar \in BOOLEAN
    BY <1>3 DEF Shell!Encrypt, Shell!HasPage, Shell!Up, Shell!KeyOf, ShellIInv, CountsInv, Shell!Proc
  <2>2. sealed' = [key |-> Shell!KeyOf(p), volatile |-> ~proc[p].keytar] /\ touched' = FALSE
        /\ UNCHANGED <<build, proc, keychain, memory, starts, failedLoads>>
    BY <1>3 DEF Shell!Encrypt
  <2>3. CountsInv'
    BY <2>1, <2>2 DEF ShellIInv, CountsInv
  <2>4. KeychainInv'
    BY <2>1, <2>2 DEF ShellIInv, KeychainInv, Shell!Up
  <2>5. QED
    BY <2>2, <2>3, <2>4 DEF ShellIInv
<1>4. QED
  BY <1>1, <1>2, <1>3

LEMMA ShellNext == ASSUME ShellBounds, ShellIInv, [Shell!Next]_(Shell!vars) PROVE ShellIInv'
<1>1. CASE UNCHANGED Shell!vars
  BY <1>1 DEF Shell!vars, ShellIInv, CountsInv, KeychainInv, Shell!Up
<1>2. ASSUME NEW p \in Procs, Shell!Start(p) \/ Shell!LoadEnds(p) \/ Shell!LoadFails(p) \/ Shell!Quit(p) \/ Shell!UpdateAnswers(p)
      PROVE  ShellIInv'
  BY <1>2, ProcessStarts, PageLoads, ProcessQuits
<1>3. ASSUME NEW p \in Procs, Shell!Paints(p) \/ Shell!Close(p) \/ Shell!TrayClick(p) \/ Shell!Activate(p) \/ Shell!QuitCloses(p)
      PROVE  ShellIInv'
  BY <1>3, WindowMoves
<1>4. ASSUME NEW p \in Procs, Shell!QuitExits(p) \/ Shell!Killed(p) PROVE ShellIInv'
  BY <1>4, ProcessExits DEF Shell!QuitExits, Shell!Killed
<1>5. ASSUME NEW p \in Procs, Shell!StoreKey(p) \/ Shell!DeleteKey(p) \/ Shell!Encrypt(p) PROVE ShellIInv'
  BY <1>5, KeysMove
<1>6. CASE Shell!Next
  BY <1>6, <1>2, <1>3, <1>4, <1>5 DEF Shell!Next
<1>7. QED
  BY <1>1, <1>6

\* The inductive invariant is one.
LEMMA ShellAlways == ASSUME ShellBounds PROVE Shell!Spec => []ShellIInv
<1>1. ShellIInv /\ [Shell!Next]_(Shell!vars) => ShellIInv'
  BY ShellNext
<1>2. QED
  BY <1>1, ShellInit, PTL DEF Shell!Spec

\* A page that is loaded and painted has its window on the screen, unless the user put it
\* in the tray, the process is quitting, or the page was ready before the handler for that
\* was registered (createWindow awaits the load first).
THEOREM WindowIsFound == ASSUME ShellBounds PROVE Shell!Spec => []Shell!HiddenNeedsCause
<1>1. ShellIInv => Shell!HiddenNeedsCause
  BY DEF ShellIInv, Runs, Shell!HiddenNeedsCause
<1>2. QED
  BY <1>1, ShellAlways, PTL

\* Whatever the processes do at once: an available update is told to a dead window only
\* while the process quits; keys are in memory only in development; and a sealed text that
\* no store or delete has touched since opens in every process that has the keychain,
\* unless its key was only in memory.
THEOREM ShellKeepsItsWord == ASSUME ShellBounds PROVE Shell!Spec => []Shell!DesktopInv
<1>1. ASSUME ShellIInv PROVE Shell!DesktopInv
  <2>1. Shell!TypeOK
    BY <1>1 DEF ShellIInv, CountsInv, Runs, Shell!TypeOK, Shell!Up
  <2>2. Shell!DeadSendNeedsQuit
    BY <1>1 DEF ShellIInv, Runs, Shell!DeadSendNeedsQuit
  <2>3. Shell!VolatileNeedsDev
    BY <1>1 DEF ShellIInv, KeychainInv, Shell!VolatileNeedsDev
  <2>4. Shell!UnreadableNeedsCause
    BY <1>1 DEF ShellIInv, KeychainInv, Shell!UnreadableNeedsCause, Shell!Opens, Shell!KeyOf
  <2>5. QED
    BY <2>1, <2>2, <2>3, <2>4 DEF Shell!DesktopInv
<1>2. QED
  BY <1>1, ShellAlways, PTL
====
