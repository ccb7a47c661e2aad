------------------------------- MODULE Desktop -------------------------------
(***************************************************************************)
(* The Electron shell: the life of its processes (start, window, tray,     *)
(* quit), the update check, and the key store their pages call over IPC.   *)
(*                                                                         *)
(* Nothing asks for the single-instance lock, so two processes of one      *)
(* installation run side by side and share the OS keychain; without        *)
(* keytar a development build keeps keys in the memory of its process.     *)
(* createWindow awaits the load of the page before it registers its        *)
(* handlers, so everything that can happen to a window may happen before.  *)
(* Electron, keytar and electron-updater are external: their events come   *)
(* at any time they may come.                                              *)
(*                                                                         *)
(* Abstractions.  One key id that passes the checks (the others are        *)
(* refused before anything happens).  Keys are 32 bytes, which go in as    *)
(* base64; a key given as text, which is stored as it is and reads back as *)
(* other bytes, is left out.                                               *)
(* One sealed text, the last one, is kept by the page.  The CSP and the    *)
(* links handed to the OS browser change no state here.                    *)
(***************************************************************************)
EXTENDS Naturals

CONSTANTS Procs,      \* processes of one installation
          MaxStarts,  \* bound: starts of processes
          Keys,       \* keys of 32 bytes, positive numbers
          MaxFaults   \* bound: loads of the page that fail

ASSUME Bounds == {MaxStarts, MaxFaults} \subseteq Nat /\ Keys \subseteq Nat \ {0}

NoKey == 0
Key == Keys \cup {NoKey}
Proc == [phase : {"off", "loading", "running", "stuck"},
         window : {"none", "hidden", "shown", "dead"},
         keytar : BOOLEAN, painted : BOOLEAN, why : {"start", "early", "user"},
         quitting : BOOLEAN, check : {"no", "asked", "done"},
         captured : {"none", "alive", "dead"}, threw : BOOLEAN]

VARIABLES
  build,     \* is the app packaged, on which platform, and is its update feed HTTPS
  proc,      \* each process: its window, handlers and update check
  keychain,  \* the key in the OS keychain
  memory,    \* the key in the fallback store of each process
  sealed,    \* the page's last sealed text: its key, and was the key in memory only
  touched,   \* has a store or a delete taken effect since it was sealed
  starts,    \* processes started so far
  faults     \* loads that failed

vars == <<build, proc, keychain, memory, sealed, touched, starts, faults>>
keys == <<keychain, memory, sealed, touched>>

\* A process that does not run; also mainWindow and app.isQuitting at the start.
Off == [phase |-> "off", window |-> "none", keytar |-> FALSE, painted |-> FALSE,
        why |-> "start", quitting |-> FALSE, check |-> "no",
        captured |-> "none", threw |-> FALSE]

Init ==
  /\ build \in [packaged : BOOLEAN, platform : {"darwin", "win32", "linux"}, https : BOOLEAN]
  /\ proc = [p \in Procs |-> Off]
  /\ keychain = NoKey
  /\ memory = [p \in Procs |-> NoKey]
  /\ sealed = [key |-> NoKey, volatile |-> FALSE]
  /\ touched = FALSE
  /\ starts = 0 /\ faults = 0

Up(p) == proc[p].phase # "off"

-----------------------------------------------------------------------------
(* The life of a process. *)

\* Mutant: the message about the missing keychain is shown, but app.exit is not called.
MayRunAlways(keytar) == TRUE

\* Without the keychain only a development build goes on.
MayRun(keytar) == keytar \/ ~build.packaged

\* whenReady up to the load of the page; keytar may be missing at any start.
Start(p) ==
  /\ ~Up(p)
  /\ starts < MaxStarts /\ starts' = starts + 1
  /\ \E keytar \in BOOLEAN :
       proc' = [proc EXCEPT ![p] =
                  IF MayRun(keytar)
                    THEN [Off EXCEPT !.phase = "loading", !.window = "hidden", !.keytar = keytar]
                    ELSE Off]
  /\ UNCHANGED <<build, keys, faults>>

\* Updates are checked in a packaged app where their signature is verified, over a
\* feed that is HTTPS.
Checks ==
  IF build.packaged /\ build.platform \in {"darwin", "win32"} /\ build.https THEN "asked" ELSE "no"

\* The load ends: the handlers, the tray and the updater are set up.
LoadEnds(p) ==
  /\ proc[p].phase = "loading" /\ proc[p].window = "hidden"
  /\ proc' = [proc EXCEPT ![p].phase = "running",
                          ![p].why = IF proc[p].painted THEN "early" ELSE "start",
                          ![p].check = Checks, ![p].captured = "alive"]
  /\ UNCHANGED <<build, keys, starts, faults>>

\* The load fails, or its window is destroyed: nothing behind the await happens.
LoadFails(p) ==
  /\ proc[p].phase = "loading"
  /\ \/ proc[p].window = "dead" /\ UNCHANGED faults
     \/ proc[p].window = "hidden" /\ faults < MaxFaults /\ faults' = faults + 1
  /\ proc' = [proc EXCEPT ![p].phase = "stuck"]
  /\ UNCHANGED <<build, keys, starts>>

\* show and hide, with the reason for being hidden.
Shown(r) == [r EXCEPT !.window = "shown", !.why = "start"]
Hidden(r) == [r EXCEPT !.window = "hidden", !.why = "user"]

\* Mutant: the handler is registered on the wrong event and the window stays hidden.
ReadyToShowNever(r) == [r EXCEPT !.painted = TRUE]

\* ready-to-show reaches the handler only if the handler is there.
ReadyToShow(r) ==
  [(IF r.phase = "running" THEN Shown(r) ELSE r) EXCEPT !.painted = TRUE]

\* The first paint, often after the load, on a heavy page before its end.
Paints(p) ==
  /\ proc[p].phase \in {"loading", "running"}
  /\ proc[p].window \in {"hidden", "shown"} /\ ~proc[p].painted
  /\ proc' = [proc EXCEPT ![p] = ReadyToShow(proc[p])]
  /\ UNCHANGED <<build, keys, starts, faults>>

\* The window is destroyed; the last window of an app off macOS takes the app along.
Closed(r) ==
  [r EXCEPT !.window = IF r.phase = "running" THEN "none" ELSE "dead",
            !.captured = IF r.captured = "none" THEN "none" ELSE "dead",
            !.quitting = r.quitting \/ build.platform # "darwin"]

\* Mutant: close is never prevented.
CloseAskedAlways(r) == Closed(r)

\* The handler of close keeps the window unless the app is quitting.
CloseAsked(r) == IF r.phase = "running" /\ ~r.quitting THEN Hidden(r) ELSE Closed(r)

\* The user closes the window.
Close(p) ==
  /\ proc[p].window = "shown"
  /\ proc' = [proc EXCEPT ![p] = CloseAsked(proc[p])]
  /\ UNCHANGED <<build, keys, starts, faults>>

\* The tray: its menu opens the window, a click on it also hides it again.
TrayClick(p) ==
  /\ proc[p].phase = "running" /\ proc[p].window \in {"hidden", "shown"}
  /\ \E menu \in BOOLEAN :
       proc' = [proc EXCEPT ![p] = IF menu \/ proc[p].window = "hidden"
                                     THEN Shown(proc[p])
                                     ELSE Hidden(proc[p])]
  /\ UNCHANGED <<build, keys, starts, faults>>

\* The dock of macOS shows the window, or makes another if there is none.
Activate(p) ==
  /\ build.platform = "darwin"
  /\ proc[p].phase = "running" /\ ~proc[p].quitting
  /\ proc' = [proc EXCEPT ![p] =
                IF proc[p].window = "none"
                  THEN [proc[p] EXCEPT !.window = "hidden", !.why = "start", !.painted = FALSE]
                  ELSE Shown(proc[p])]
  /\ UNCHANGED <<build, keys, starts, faults>>

\* Quit, from the tray, a menu or the OS: before-quit sets isQuitting.
Quit(p) ==
  /\ Up(p) /\ ~proc[p].quitting
  /\ proc' = [proc EXCEPT ![p].quitting = TRUE]
  /\ UNCHANGED <<build, keys, starts, faults>>

\* Electron asks the window to close.
QuitCloses(p) ==
  /\ proc[p].quitting /\ proc[p].window \in {"hidden", "shown"}
  /\ proc' = [proc EXCEPT ![p] = CloseAsked(proc[p])]
  /\ UNCHANGED <<build, keys, starts, faults>>

\* Mutant: the key store is cleared when a process ends.
ExitsClearing(p) ==
  /\ Up(p)
  /\ proc' = [proc EXCEPT ![p] = Off]
  /\ memory' = [memory EXCEPT ![p] = NoKey]
  /\ keychain' = NoKey
  /\ UNCHANGED <<build, sealed, touched, starts, faults>>

\* The process is gone, by its quit or killed, and its memory with it.
Exits(p) ==
  /\ Up(p)
  /\ proc' = [proc EXCEPT ![p] = Off]
  /\ memory' = [memory EXCEPT ![p] = NoKey]
  /\ UNCHANGED <<build, keychain, sealed, touched, starts, faults>>

QuitExits(p) == proc[p].quitting /\ proc[p].window \in {"none", "dead"} /\ Exits(p)
Killed(p) == Exits(p)

\* The update check answers; an available update is told to the window captured at setup.
UpdateAnswers(p) ==
  /\ proc[p].check = "asked"
  /\ \E available \in BOOLEAN :
       proc' = [proc EXCEPT ![p].check = "done",
                            ![p].threw = available /\ proc[p].captured = "dead"]
  /\ UNCHANGED <<build, keys, starts, faults>>

-----------------------------------------------------------------------------
(* The key store.  A page's call acts on the store in one step of keytar;  *)
(* one that fails is answered false, null or an error and changes nothing. *)

\* Scripts of the page run and may call.
HasPage(p) == /\ proc[p].phase \in {"loading", "running"}
              /\ proc[p].window \in {"hidden", "shown"}

\* The key the process's keytar, or its fallback, holds.
KeyOf(p) == IF proc[p].keytar THEN keychain ELSE memory[p]

\* setPassword and deletePassword.
Puts(p, key) ==
  /\ IF proc[p].keytar
       THEN keychain' = key /\ UNCHANGED memory
       ELSE memory' = [memory EXCEPT ![p] = key] /\ UNCHANGED keychain
  /\ touched' = TRUE

StoreKey(p) ==
  /\ HasPage(p)
  /\ \E key \in Keys : Puts(p, key)
  /\ UNCHANGED <<build, proc, sealed, starts, faults>>

DeleteKey(p) ==
  /\ HasPage(p)
  /\ Puts(p, NoKey)
  /\ UNCHANGED <<build, proc, sealed, starts, faults>>

\* crypto:encrypt; without a key it is refused.
Encrypt(p) ==
  /\ HasPage(p)
  /\ KeyOf(p) # NoKey
  /\ sealed' = [key |-> KeyOf(p), volatile |-> ~proc[p].keytar]
  /\ touched' = FALSE
  /\ UNCHANGED <<build, proc, keychain, memory, starts, faults>>

\* crypto:decrypt opens the text: the tag fits only the key that sealed it.
Opens(p) == KeyOf(p) # NoKey /\ KeyOf(p) = sealed.key

-----------------------------------------------------------------------------
Next ==
  \/ \E p \in Procs : Start(p)
  \/ \E p \in Procs : LoadEnds(p)
  \/ \E p \in Procs : LoadFails(p)
  \/ \E p \in Procs : Paints(p)
  \/ \E p \in Procs : Close(p)
  \/ \E p \in Procs : TrayClick(p)
  \/ \E p \in Procs : Activate(p)
  \/ \E p \in Procs : Quit(p)
  \/ \E p \in Procs : QuitCloses(p)
  \/ \E p \in Procs : QuitExits(p)
  \/ \E p \in Procs : Killed(p)
  \/ \E p \in Procs : UpdateAnswers(p)
  \/ \E p \in Procs : StoreKey(p)
  \/ \E p \in Procs : DeleteKey(p)
  \/ \E p \in Procs : Encrypt(p)

Spec == Init /\ [][Next]_vars

-----------------------------------------------------------------------------
(* Properties. *)

TypeOK ==
  /\ proc \in [Procs -> Proc]
  /\ keychain \in Key /\ memory \in [Procs -> Key]
  /\ sealed \in [key : Key, volatile : BOOLEAN]
  /\ touched \in BOOLEAN
  /\ starts \in 0..MaxStarts /\ faults \in 0..MaxFaults
  \* what is up has a window or is on its way out
  /\ \A p \in Procs : Up(p) /\ proc[p].window \in {"none", "dead"} => proc[p].quitting

\* A started app whose page has painted is hidden only because somebody hid it, or because
\* the page painted before its load ended: createWindow registers ready-to-show behind the
\* await, and an event that came earlier is lost.
HiddenNeedsCause ==
  \A p \in Procs :
    (proc[p].phase = "running" /\ proc[p].painted /\ proc[p].window = "hidden")
      => proc[p].why \in {"user", "early"}

\* The updater keeps the window it was given at setup: an update is told to a destroyed
\* window, which throws in the main process, only in an app that is quitting.
DeadSendNeedsQuit == \A p \in Procs : proc[p].threw => proc[p].quitting

\* "Do not silently degrade to in-memory key storage": a key lives in the memory of a
\* process, or was used from there, only in a development build.
VolatileNeedsDev ==
  ((\E p \in Procs : memory[p] # NoKey) \/ sealed.volatile) => ~build.packaged

\* A sealed text that no store or delete has touched since, of any process, is opened by
\* every process that has the keychain, after any restart; a text sealed with a key that was
\* only in memory is excepted.
UnreadableNeedsCause ==
  (sealed.key # NoKey /\ ~touched /\ ~sealed.volatile)
    => \A p \in Procs : Up(p) /\ proc[p].keytar => Opens(p)

\* Whatever two processes do at once: an update is told to a dead window only while
\* quitting, keys are in memory only in development, and sealed texts stay readable.
DesktopInv == /\ TypeOK /\ DeadSendNeedsQuit /\ VolatileNeedsDev /\ UnreadableNeedsCause
=============================================================================
