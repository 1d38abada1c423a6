------------------------------- MODULE Console -------------------------------
(* AdminServer of package web: login with its limiter, change of password,     *)
(* the config editor, the dashboard layout, the setup wizard and the update,   *)
(* each handled by a goroutine of its own without a lock between them, and a   *)
(* process that may crash at any step and start again from the config file.    *)
(* What it shows of the queries is LiveData; a restart forgets it.             *)
(*                                                                             *)
(* A config is [hash, body, layout]: its password_hash, its layout block and   *)
(* the rest.  A hash stands for its password; None is no username and no hash. *)
(* The holder of a session is a client with a token signed by jwtSecret.       *)
EXTENDS LiveData

CONSTANTS
    Workers,            \* goroutines of the HTTP server
    Passwords,
    Edits,              \* configs put into the editor
    MaxFailures, Window, Lockout, IdleEvict,    \* of the login limiter
    Files,              \* config files at the first start
    Budgets,            \* requests, crashes, ticks and releases; bounds the run
    IOFails             \* file operations may fail

Configs == [hash : Passwords \cup {None}, body : Nat, layout : {0, 1}]

ASSUME ConsoleAssumption ==
    /\ IsFiniteSet(Workers) /\ Workers # {}
    /\ Files \subseteq Configs \cup {None} /\ Edits \subseteq Configs
    /\ None \notin Passwords /\ None \notin Configs
ASSUME LimiterAssumption ==
    /\ MaxFailures \in Nat \ {0} /\ Window \in Nat /\ Lockout \in Nat /\ IdleEvict \in Nat
    /\ Window <= Lockout /\ Window <= IdleEvict

VARIABLES
    h,          \* the request each goroutine handles
    config,     \* s.config
    session,    \* a token of the current jwtSecret was issued
    setupDone,
    file, bak,  \* the config file and its .bak, or None
    limiter,    \* the loginEntry of the client: [failures, lockedUntil, lastSeen]
    exe,        \* the executable on disk: [release, whole]
    running,    \* the release of the process
    release,    \* the latest release
    restarting, \* the update's goroutine is about to exec
    tries,      \* when wrong passwords were compared since the last right one
    saved,      \* the config the last successful write put into the file
    writers,    \* goroutines with a write to the file ahead
    clean,      \* no two writers overlapped, no new password stayed in memory only
    killed,     \* the process ended with a write under way
    torn        \* ... of the setup wizard, which writes in place

disk == <<file, bak, saved>>
mem == <<config, session, setupDone>>
login == <<limiter, now, tries>>
update == <<exe, running, release, restarting>>
ghosts == <<clean, killed, torn>>
console == <<h, mem, disk, login, update, writers, ghosts>>
vars == <<console, budget, live>>

Default == [hash |-> None, body |-> 0, layout |-> 0]
Idle == [pc |-> "idle", kind |-> "", arg |-> None, data |-> None, had |-> FALSE]
To(w, pc) == h' = [h EXCEPT ![w].pc = pc]
At(w, kind, pc) == h[w].kind = kind /\ h[w].pc = pc

\* The request is answered.
Done(w) == h' = [h EXCEPT ![w] = Idle] /\ writers' = writers \ {w}
Quiet == UNCHANGED writers

-----------------------------------------------------------------------------
(* The login limiter.                                                         *)

locked == limiter.lockedUntil # 0 /\ now < limiter.lockedUntil

NoFailures == [failures |-> {}, lockedUntil |-> 0, lastSeen |-> 0]

\* The entry is seen, and its failures outside the rolling window are forgotten;
\* a failure is the number of its attempt, which was at that place of `tries'.
touchLocked == [limiter EXCEPT !.failures = {i \in @ : tries[i] > now - Window}, !.lastSeen = now]

\* The reset is not limited to a lockout that has ended.
allow_Reset == ~locked /\ limiter' = [touchLocked EXCEPT !.failures = {}, !.lockedUntil = 0]

allow ==
    /\ ~locked
    /\ limiter' = IF limiter.lockedUntil # 0 THEN [touchLocked EXCEPT !.failures = {}, !.lockedUntil = 0]
                  ELSE touchLocked

recordFailure ==
    LET failures == touchLocked.failures \cup {Len(tries) + 1}
    IN  limiter' = IF locked THEN touchLocked
                   ELSE [failures |-> failures, lastSeen |-> now,
                         lockedUntil |-> IF Cardinality(failures) >= MaxFailures THEN now + Lockout
                                         ELSE limiter.lockedUntil]

recordSuccess == limiter' = NoFailures

\* handleLogin.  The hash is read, then bcrypt takes its time.
LoginAllow(w) ==
    /\ At(w, "login", "start")
    /\ IF locked THEN Done(w) /\ limiter' = touchLocked
       ELSE allow /\ To(w, "read") /\ Quiet
    /\ UNCHANGED <<mem, disk, now, tries, update, budget>>

LoginRead(w) ==
    /\ At(w, "login", "read")
    /\ IF config.hash = None THEN Done(w)
       ELSE h' = [h EXCEPT ![w].pc = "verify", ![w].data = config.hash] /\ Quiet
    /\ UNCHANGED <<mem, disk, login, update, budget>>

LoginVerify(w) ==
    /\ At(w, "login", "verify")
    /\ Done(w)
    /\ IF h[w].arg = h[w].data THEN session' = TRUE /\ recordSuccess /\ tries' = << >>
       ELSE recordFailure /\ tries' = Append(tries, now) /\ UNCHANGED session
    /\ UNCHANGED <<config, setupDone, disk, now, update, budget>>

\* startCleanup: the entry has been idle for so long, and its lockout over.
evictIdle ==
    /\ limiter # NoFailures
    /\ limiter.lastSeen < now - IdleEvict
    /\ limiter.lockedUntil = 0 \/ limiter.lockedUntil < now - IdleEvict
    /\ limiter' = NoFailures
    /\ UNCHANGED <<h, mem, disk, now, tries, update, budget, writers>>

-----------------------------------------------------------------------------
(* writeFileAtomically: temporary file, backup, replacement.                   *)

\* A client has a token of the current secret.  (That tokens expire is left out:
\* whoever has one can have logged in again.)
validateJWT == session

\* requireAuth: without a username everybody passes.
requireAuth(w, next) ==
    /\ h[w].pc = "start"
    /\ IF config.hash = None \/ validateJWT THEN To(w, next) /\ Quiet ELSE Done(w)
    /\ UNCHANGED <<mem, disk, login, update, budget>>

\* The goroutine is about to write data.
Write(w, data) ==
    /\ h' = [h EXCEPT ![w].pc = "stat", ![w].data = data]
    /\ writers' = writers \cup {w}

\* The write failed: nothing is published.
WriteFails(w) == Done(w)

\* The temporary file is written, and the original looked for.
Stat(w) ==
    /\ h[w].pc = "stat"
    /\ \/ h' = [h EXCEPT ![w].had = file # None, ![w].pc = IF file # None THEN "unlink" ELSE "replace"] /\ Quiet
       \/ IOFails /\ WriteFails(w)
    /\ UNCHANGED <<mem, disk, login, update, budget>>

Unlink(w) ==
    /\ h[w].pc = "unlink"
    /\ bak' = None /\ To(w, "backup")
    /\ UNCHANGED <<mem, file, saved, login, update, budget, writers>>

Backup(w) ==
    /\ h[w].pc = "backup"
    /\ \/ /\ file # None
          /\ bak' = file /\ file' = None /\ To(w, "replace") /\ Quiet
       \/ /\ file = None \/ IOFails
          /\ WriteFails(w) /\ UNCHANGED <<file, bak>>
    /\ UNCHANGED <<mem, saved, login, update, budget>>

\* The original is not put back.
Replace_NoRollback(w) ==
    /\ h[w].pc = "replace"
    /\ \/ /\ file' = h[w].data /\ saved' = h[w].data
          /\ To(w, "publish") /\ UNCHANGED <<bak, writers>>
       \/ /\ IOFails
          /\ UNCHANGED disk
          /\ WriteFails(w)
    /\ UNCHANGED <<mem, login, update, budget>>

\* The rename of the temporary file, or its failure and the way back.
Replace(w) ==
    /\ h[w].pc = "replace"
    /\ \/ /\ file' = h[w].data /\ saved' = h[w].data
          /\ To(w, "publish") /\ UNCHANGED <<bak, writers>>
       \/ /\ IOFails
          /\ IF h[w].had /\ bak # None THEN file' = bak /\ bak' = None ELSE UNCHANGED <<file, bak>>
          /\ UNCHANGED saved
          /\ WriteFails(w)
    /\ UNCHANGED <<mem, login, update, budget>>

\* What the handlers do after the write.  A change of password has set its
\* hash before; the editor and the layout replace s.config.
Publish(w) ==
    /\ h[w].pc = "publish"
    /\ config' = IF h[w].kind = "change" THEN config ELSE h[w].data
    /\ Done(w)
    /\ UNCHANGED <<session, setupDone, disk, login, update, budget>>

-----------------------------------------------------------------------------
(* The handlers.                                                              *)

\* handleChangePassword: the current password, a new secret, the hash in
\* memory, then the line of the file.
ChangeCheck(w) ==
    /\ At(w, "change", "check")
    /\ IF h[w].arg[1] = config.hash THEN To(w, "rotate") /\ writers' = writers \cup {w} ELSE Done(w)
    /\ UNCHANGED <<mem, disk, login, update, budget>>

ChangeRotate(w) ==
    /\ At(w, "change", "rotate")
    /\ session' = FALSE /\ To(w, "sethash")
    /\ UNCHANGED <<config, setupDone, disk, login, update, budget, writers>>

ChangeSet(w) ==
    /\ At(w, "change", "sethash")
    /\ config' = [config EXCEPT !.hash = h[w].arg[2]]
    /\ To(w, "load")
    /\ UNCHANGED <<session, setupDone, disk, login, update, budget, writers>>

\* updatePasswordInConfigAtPath: without the file or the line it is in memory only.
ChangeLoad(w) ==
    /\ At(w, "change", "load")
    /\ IF file = None THEN WriteFails(w)
       ELSE IF file.hash = None THEN WriteFails(w)
       ELSE Write(w, [file EXCEPT !.hash = h[w].arg[2]])
    /\ UNCHANGED <<mem, disk, login, update, budget>>

\* The editor neither sets, removes nor changes the password.
ensurePasswordHashUnchanged(content) == content.hash = config.hash

\* The password in the editor is not compared.
SaveCheck_AnyHash(w) ==
    /\ At(w, "save", "check")
    /\ Write(w, h[w].arg)
    /\ UNCHANGED <<mem, disk, login, update, budget>>

\* handleConfigRaw: ensurePasswordHashUnchanged, then the write.
SaveCheck(w) ==
    /\ At(w, "save", "check")
    /\ IF ensurePasswordHashUnchanged(h[w].arg) THEN Write(w, h[w].arg) ELSE Done(w)
    /\ UNCHANGED <<mem, disk, login, update, budget>>

upsertDashboardLayoutBlock(content, block) == [content EXCEPT !.layout = block]

\* handleDashboardLayout: the layout block of the file is replaced.
LayoutLoad(w) ==
    /\ At(w, "layout", "check")
    /\ Write(w, upsertDashboardLayoutBlock(IF file = None THEN Default ELSE file, h[w].arg))
    /\ UNCHANGED <<mem, disk, login, update, budget>>

\* handleSetupComplete: the flag, the file, then writeConfigYAML, which
\* creates the file and writes it line by line, the auth section last.
\* s.config stays as it is until the next start.
SetupStart(w) ==
    /\ At(w, "setup", "start")
    /\ IF setupDone THEN Done(w) ELSE To(w, "exists") /\ Quiet
    /\ UNCHANGED <<mem, disk, login, update, budget>>

\* A file that is not empty is left alone.
SetupExists(w) ==
    /\ At(w, "setup", "exists")
    /\ IF file \notin {None, Default} THEN Done(w) ELSE To(w, "create") /\ writers' = writers \cup {w}
    /\ UNCHANGED <<mem, disk, login, update, budget>>

SetupCreate(w) ==
    /\ At(w, "setup", "create")
    /\ file' = Default /\ To(w, "sections")
    /\ UNCHANGED <<mem, bak, saved, login, update, budget, writers>>

SetupSections(w) ==
    /\ At(w, "setup", "sections")
    /\ file' = [Default EXCEPT !.body = 1] /\ To(w, "auth")
    /\ UNCHANGED <<mem, bak, saved, login, update, budget, writers>>

SetupAuth(w) ==
    /\ At(w, "setup", "auth")
    /\ file' = [hash |-> h[w].arg, body |-> 1, layout |-> 0] /\ saved' = file'
    /\ To(w, "finish")
    /\ UNCHANGED <<mem, bak, login, update, budget, writers>>

SetupFinish(w) ==
    /\ At(w, "setup", "finish")
    /\ setupDone' = TRUE
    /\ Done(w)
    /\ UNCHANGED <<config, session, disk, login, update, budget>>

\* The latest release, as each request to the release server finds it.
checkForUpdate == release > running
findAssetURLWithChecksums == [release |-> release, whole |-> TRUE]

\* handleApplyUpdate: is there a newer release; the URLs and the checksum of
\* what is by then the latest one; its binary; the rename.  Each request may fail.
UpdateCheck(w) ==
    /\ At(w, "update", "check")
    /\ \/ checkForUpdate /\ To(w, "assets") /\ Quiet
       \/ Done(w)
    /\ UNCHANGED <<mem, disk, login, update, budget>>

UpdateAssets(w) ==
    /\ At(w, "update", "assets")
    /\ \/ h' = [h EXCEPT ![w].pc = "download", ![w].data = findAssetURLWithChecksums] /\ Quiet
       \/ Done(w)
    /\ UNCHANGED <<mem, disk, login, update, budget>>

\* The checksum is not compared.
UpdateDownload_Unchecked(w) ==
    /\ At(w, "update", "download")
    /\ Done(w)
    /\ \E whole \in BOOLEAN : exe' = [release |-> h[w].data.release, whole |-> whole]
    /\ restarting' = TRUE
    /\ UNCHANGED <<mem, disk, login, running, release, budget>>

\* The binary arrives whole or cut short; its checksum is compared.
UpdateDownload(w) ==
    /\ At(w, "update", "download")
    /\ Done(w)
    /\ \E whole \in BOOLEAN :
         LET binary == [release |-> h[w].data.release, whole |-> whole]
         IN  IF binary = h[w].data THEN exe' = binary /\ restarting' = TRUE ELSE UNCHANGED <<exe, restarting>>
    /\ UNCHANGED <<mem, disk, login, running, release, budget>>

-----------------------------------------------------------------------------
(* Requests, the clock, releases, and the process.                             *)

Kinds == {"login", "change", "save", "layout", "setup", "update"}
Args(kind) ==
    CASE kind = "login" -> Passwords
      [] kind = "setup" -> Passwords \cup {None}
      [] kind = "change" -> Passwords \X Passwords
      [] kind = "save" -> Edits
      [] kind = "layout" -> {1}
      [] kind = "update" -> {None}

Request(w, kind) ==
    /\ h[w].pc = "idle" /\ Use(kind)
    /\ \E arg \in Args(kind) : h' = [h EXCEPT ![w] = [Idle EXCEPT !.pc = "start", !.kind = kind, !.arg = arg]]
    /\ UNCHANGED <<mem, disk, login, update, writers>>

\* A missing file is read as the default config, as is an empty one.
Load == IF file = None THEN Default ELSE file

\* NewAdminServer on the config that Load finds.
Start ==
    /\ h' = [w \in Workers |-> Idle]
    /\ config' = Load
    /\ setupDone' = (config'.hash # None)
    /\ session' = FALSE
    /\ limiter' = NoFailures
    /\ tries' = << >>
    /\ restarting' = FALSE
    /\ running' = exe.release
    /\ writers' = {}
    /\ LiveReset

\* The process dies between two steps, or execs the new binary; nothing waits
\* for the requests under way.
Crash ==
    /\ Use("crash")
    /\ Start
    /\ UNCHANGED <<disk, now, exe, release>>
RestartSelf ==
    /\ restarting
    /\ Start
    /\ UNCHANGED <<disk, now, exe, release, budget>>

Tick == now < MaxTime /\ Use("tick") /\ now' = now + 1 /\ UNCHANGED <<h, mem, disk, limiter, tries, update, writers>>
Publication ==
    /\ Use("release")
    /\ release' = release + 1
    /\ UNCHANGED <<h, mem, disk, login, exe, running, restarting, writers>>

Init ==
    /\ h = [w \in Workers |-> Idle]
    /\ file \in Files /\ bak = None /\ saved = file
    /\ config = Load /\ session = FALSE /\ setupDone = (config.hash # None)
    /\ limiter = NoFailures /\ tries = << >> /\ now = 1
    /\ exe = [release |-> 1, whole |-> TRUE] /\ running = 1 /\ release = 1 /\ restarting = FALSE
    /\ budget \in Budgets
    /\ writers = {} /\ clean = TRUE /\ killed = FALSE /\ torn = FALSE
    /\ LiveInit

Login(w) == LoginAllow(w) \/ LoginRead(w) \/ LoginVerify(w)
writeFileAtomically(w) == Stat(w) \/ Unlink(w) \/ Backup(w) \/ Replace(w) \/ Publish(w)
handleChangePassword(w) == ChangeCheck(w) \/ ChangeRotate(w) \/ ChangeSet(w) \/ ChangeLoad(w)
handleSetupComplete(w) ==
    SetupStart(w) \/ SetupExists(w) \/ SetupCreate(w) \/ SetupSections(w) \/ SetupAuth(w) \/ SetupFinish(w)
handleApplyUpdate(w) == UpdateCheck(w) \/ UpdateAssets(w) \/ UpdateDownload(w)
Handle(w) ==
    \/ Login(w)
    \/ h[w].kind \in {"change", "save", "layout", "update"} /\ requireAuth(w, "check")
    \/ writeFileAtomically(w)
    \/ handleChangePassword(w)
    \/ SaveCheck(w)
    \/ LayoutLoad(w)
    \/ handleSetupComplete(w)
    \/ handleApplyUpdate(w)

\* A change of password that is answered "partial".
Partial(w) == h[w].kind = "change" /\ h[w].pc \notin {"start", "check", "publish"} /\ h'[w].pc = "idle"

\* The setup wizard has created the file and not finished it.
InSections(w) == At(w, "setup", "sections") \/ At(w, "setup", "auth")

Next ==
    \/ /\ \E w \in Workers : Handle(w) \/ \E kind \in Kinds : Request(w, kind)
       /\ clean' = (clean /\ (\A u, w \in writers' : u = w) /\ ~ \E w \in Workers : Partial(w))
       /\ UNCHANGED <<killed, torn, live>>
    \/ (Tick \/ Publication \/ evictIdle) /\ UNCHANGED <<ghosts, live>>
    \/ LiveNext /\ UNCHANGED console
    \/ /\ Crash \/ RestartSelf
       /\ killed' = (killed \/ writers # {}) /\ torn' = (torn \/ \E w \in Workers : InSections(w))
       /\ UNCHANGED clean

Spec == Init /\ [][Next]_vars

-----------------------------------------------------------------------------
(* Properties.                                                                *)

\* Within any window the client gets at most MaxFailures wrong passwords
\* compared, plus the ones that were let in before the lockout: those still
\* in bcrypt when it was armed, and those that come back after it has ended,
\* whose failures the next allow() forgets (login_limiter.go).
AttemptsBounded ==
    \A t \in {tries[i] : i \in DOMAIN tries} :
        Cardinality({i \in DOMAIN tries : t - Window < tries[i] /\ tries[i] <= t})
            <= MaxFailures + 2 * (Cardinality(Workers) - 1)

\* While no two writers overlap, what was last reported saved is in the config
\* file; in the middle of a write, and if the process dies there, it is in the
\* file or in its .bak, unless it was an empty file.  A failed write leaves it
\* as it was (writeFileAtomically).  Only the setup wizard writes in place: once
\* it was cut short the .bak may be all there is, and the next write removes it.
\* When no write is under way s.config is what the file holds, unless the setup
\* wizard has run since the start.
SavedIsKept ==
    clean =>
        /\ writers = {} /\ ~killed => file = saved
        /\ ~torn => saved \in {None, Default, file, bak}
        /\ writers = {} /\ setupDone = (config.hash # None) => config = Load

\* While no two writers overlap, a running server's password changes only in
\* a change of password that knew the old one (ensurePasswordHashUnchanged).
PasswordOnlyByChange ==
    [][clean' /\ config.hash # None /\ config'.hash # config.hash =>
          \/ \E w \in Workers : At(w, "change", "sethash") /\ h[w].arg[1] = config.hash
          \/ Start]_vars

\* Whatever is published while an update is under way, and wherever the
\* process dies, the executable on disk is a whole binary of a release that is
\* not older than the process that runs (handleApplyUpdate).
ExecutableIsWhole == exe.whole /\ exe.release >= running
=============================================================================
