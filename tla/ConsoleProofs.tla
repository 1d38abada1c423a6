---------------------------- MODULE ConsoleProofs ----------------------------
(* The config file, the password and the executable, for any goroutines,       *)
(* passwords, edits, crashes and failing file operations.                      *)
(*                                                                             *)
(* What is inductive for the file says, of each step of each kind of request   *)
(* that writes, where the config saved last is, and what s.config has to do    *)
(* with the file; it holds of the one writer there is while `clean' does.      *)
(*                                                                             *)
(* And the query log of LiveData, for any capacity, recorders and stream.      *)
EXTENDS Console, TLAPS

\* Time for the provers on a machine that is busy.
USE SMTT(30), ZenonT(30)

Atomically == {"stat", "unlink", "backup", "replace", "publish"}
Changing == {"rotate", "sethash", "load"}
SettingUp == {"create", "sections", "auth", "finish"}

\* A request is at a step of its kind, with an argument of its kind.
ReqOK(r) ==
    /\ r = [pc |-> r.pc, kind |-> r.kind, arg |-> r.arg, data |-> r.data, had |-> r.had]
    /\ \/ r = Idle
       \/ r.kind = "login" /\ r.pc \in {"start", "read", "verify"}
       \/ r.kind = "change" /\ r.pc \in {"start", "check"} \cup Changing \cup Atomically /\ r.arg \in Passwords \X Passwords
       \/ r.kind = "save" /\ r.pc \in {"start", "check"} \cup Atomically /\ r.arg \in Edits
       \/ r.kind = "layout" /\ r.pc \in {"start", "check"} \cup Atomically /\ r.arg = 1
       \/ r.kind = "setup" /\ r.pc \in {"start", "exists"} \cup SettingUp /\ r.arg \in Passwords \cup {None}
       \/ r.kind = "update" /\ r.pc \in {"start", "check", "assets", "download"}
    /\ r.pc \in Atomically => r.data \in Configs

\* A write to the file is ahead.
IsWriting(r) ==
    r.pc \in Atomically \/ (r.kind = "change" /\ r.pc \in Changing) \/ (r.kind = "setup" /\ r.pc \in SettingUp)

TypeInv ==
    /\ h = [w \in Workers |-> h[w]] /\ \A w \in Workers : ReqOK(h[w])
    /\ writers = {w \in Workers : IsWriting(h[w])}
    /\ config \in Configs /\ file \in Configs \cup {None} /\ bak \in Configs \cup {None} /\ saved \in Configs \cup {None}
    /\ setupDone \in BOOLEAN /\ clean \in BOOLEAN /\ killed \in BOOLEAN /\ torn \in BOOLEAN

\* s.config is what the file holds, or the setup wizard has run.
Agree == config = Load \/ (setupDone /\ config.hash = None)
\* The config saved last is the file, or without a file the .bak.
Kept == torn \/ IF file = None THEN saved \in {None, bak} ELSE saved = file
Current == killed \/ file = saved

\* What holds of a request that has a write ahead, if it is the only one.
WriterOK(r) ==
    /\ r.kind = "change" =>
         /\ r.pc \in {"rotate", "sethash"} => Agree /\ config.hash = r.arg[1]
         /\ r.pc = "load" /\ file # None => config = [file EXCEPT !.hash = r.arg[2]]
         /\ r.pc \in Atomically => config = r.data
    /\ r.kind # "change" =>
         /\ r.pc \in Atomically /\ config.hash # None => r.data.hash = config.hash
         /\ r.pc \in {"stat", "unlink", "backup"} => Agree
         /\ r.pc = "replace" => config = (IF r.had THEN bak ELSE Default) \/ (setupDone /\ config.hash = None)
    /\ r.pc \in Changing \cup {"stat", "unlink", "backup", "create"} => Kept /\ Current
    /\ r.pc \in {"unlink", "backup"} => r.had /\ file # None
    /\ r.pc = "replace" =>
         /\ file = None
         /\ IF r.had THEN bak # None /\ (torn \/ saved = bak) /\ (killed \/ saved = bak) ELSE Kept /\ Current
    /\ r.pc = "publish" => file = r.data /\ saved = r.data
    /\ r.pc \in SettingUp => config.hash = None
    /\ r.pc = "create" => file \in {None, Default}
    /\ r.pc \in {"sections", "auth"} => torn \/ saved \in {None, Default, bak}
    /\ r.pc = "finish" => file = saved

CleanInv ==
    clean =>
        /\ \A u, w \in writers : u = w
        /\ writers = {} => Agree /\ Kept /\ Current
        /\ \A w \in writers : WriterOK(h[w])

\* A whole binary, published before, of a release that is not older than the process.
Published(binary) ==
    binary \in [release : Nat, whole : {TRUE}] /\ running <= binary.release /\ binary.release <= release

\* What an update has in hand is as good as what it found.
UpdateInv ==
    /\ release \in Nat /\ running \in Nat /\ Published(exe)
    /\ \A w \in Workers : At(w, "update", "download") => Published(h[w].data)

ConsoleInv == TypeInv /\ CleanInv /\ UpdateInv

-----------------------------------------------------------------------------
(* Requests.                                                                  *)

\* What a step of a handler adds to what it does: who overlaps, and what stays
\* in memory only.
Noted ==
    /\ clean' = (clean /\ (\A u, w \in writers' : u = w) /\ ~ \E u \in Workers : Partial(u))
    /\ UNCHANGED <<killed, torn, live>>

\* Nobody's request.
LEMMA IdleIs == Idle.pc = "idle" /\ ReqOK(Idle) /\ ~IsWriting(Idle) /\ Idle.kind \notin Kinds
  <1>1. /\ Idle.pc = "idle"
        /\ Idle = [pc |-> Idle.pc, kind |-> Idle.kind, arg |-> Idle.arg, data |-> Idle.data, had |-> Idle.had]
    BY Zenon DEF Idle
  <1>2. Idle.kind \notin Kinds
    <2>1. Idle.kind = ""
      BY Zenon DEF Idle
    <2> QED BY Zenon, <2>1 DEF Kinds
  <1> QED BY <1>1, <1>2 DEF ReqOK, IsWriting, Atomically, Changing, SettingUp, Kinds

\* The request of one goroutine goes on.
LEMMA Moves ==
  ASSUME TypeInv, NEW w \in Workers, NEW r, ReqOK(r), h' = [h EXCEPT ![w] = r],
         writers' = IF IsWriting(r) THEN writers \cup {w} ELSE writers \ {w}
  PROVE  /\ h' = [u \in Workers |-> h'[u]] /\ \A u \in Workers : ReqOK(h'[u])
         /\ writers' = {u \in Workers : IsWriting(h'[u])}
         /\ h'[w] = r /\ \A u \in Workers \ {w} : h'[u] = h[u]
  <1>1. h'[w] = r /\ \A u \in Workers \ {w} : h'[u] = h[u]
    BY DEF TypeInv
  <1>2. h' = [u \in Workers |-> h'[u]]
    BY DEF TypeInv
  <1>3. \A u \in Workers : ReqOK(h'[u])
    BY <1>1 DEF TypeInv
  <1>4. writers' = {u \in Workers : IsWriting(h'[u])}
    BY <1>1 DEF TypeInv
  <1> QED BY <1>1, <1>2, <1>3, <1>4

\* While it is clean there is no writer but one; a step leaves it clean or not.
LEMMA Cleanly ==
  ASSUME ConsoleInv, writers' \in SUBSET Workers, Noted
  PROVE  /\ clean' \in BOOLEAN /\ killed' = killed /\ torn' = torn /\ live' = live
         /\ clean' => clean /\ \A u, w \in writers' : u = w
         /\ clean' => \A u \in Workers : ~Partial(u)
  <1>1. clean' => clean /\ (\A u, w \in writers' : u = w) /\ \A u \in Workers : ~Partial(u)
    BY Zenon DEF Noted
  <1>2. clean' \in BOOLEAN /\ killed' = killed /\ torn' = torn /\ live' = live
    BY DEF Noted
  <1> QED BY <1>1, <1>2

\* A request that writes neither before nor after the step changes nothing that
\* a writer depends on.
LEMMA Aside ==
  ASSUME ConsoleInv, NEW w \in Workers, NEW r, ReqOK(r), h' = [h EXCEPT ![w] = r], writers' = writers,
         ~IsWriting(h[w]), ~IsWriting(r), Noted, UNCHANGED <<config, setupDone, file, bak, saved>>
  PROVE  TypeInv' /\ CleanInv'
  <1>1. w \notin writers /\ writers \subseteq Workers
    BY DEF ConsoleInv, TypeInv
  <1>2. /\ h' = [u \in Workers |-> h'[u]] /\ \A u \in Workers : ReqOK(h'[u])
        /\ writers' = {u \in Workers : IsWriting(h'[u])} /\ \A u \in Workers \ {w} : h'[u] = h[u]
    BY Zenon, <1>1, Moves DEF ConsoleInv
  <1>3. clean' \in BOOLEAN /\ killed' = killed /\ torn' = torn /\ (clean' => clean)
    BY <1>1, Cleanly
  <1>4. TypeInv'
    BY <1>2, <1>3 DEF ConsoleInv, TypeInv
  <1>5. /\ Agree' = Agree /\ Kept' = Kept /\ Current' = Current
        /\ \A u \in writers : h'[u] = h[u]
    BY <1>1, <1>2, <1>3 DEF Agree, Kept, Current, Load
  <1>6. \A u \in writers : WriterOK(h[u])' = WriterOK(h[u])
    BY <1>3, <1>5 DEF WriterOK
  <1>7. CleanInv'
    BY <1>3, <1>5, <1>6 DEF ConsoleInv, CleanInv
  <1> QED BY <1>4, <1>7

\* A request that writes after the step.
LEMMA Ahead ==
  ASSUME ConsoleInv, NEW w \in Workers, NEW r, ReqOK(r), h' = [h EXCEPT ![w] = r], writers' = writers \cup {w},
         IsWriting(r), Noted, setupDone' \in BOOLEAN, config' \in Configs,
         file' \in Configs \cup {None}, bak' \in Configs \cup {None}, saved' \in Configs \cup {None},
         clean /\ clean' => WriterOK(h[w])'
  PROVE  TypeInv' /\ CleanInv'
  <1>1. writers \subseteq Workers /\ writers' \in SUBSET Workers
    BY DEF ConsoleInv, TypeInv
  <1>2. /\ h' = [u \in Workers |-> h'[u]] /\ \A u \in Workers : ReqOK(h'[u])
        /\ writers' = {u \in Workers : IsWriting(h'[u])} /\ \A u \in Workers \ {w} : h'[u] = h[u]
    BY Zenon, <1>1, Moves DEF ConsoleInv
  <1>3. clean' \in BOOLEAN /\ killed' = killed /\ torn' = torn /\ (clean' => clean /\ \A u, v \in writers' : u = v)
    BY <1>1, Cleanly
  <1>4. TypeInv'
    BY <1>2, <1>3 DEF ConsoleInv, TypeInv
  <1>5. clean' => writers' = {w}
    BY <1>3
  <1>6. CleanInv'
    BY <1>3, <1>5 DEF CleanInv
  <1> QED BY <1>4, <1>6

\* A request that wrote before the step and is answered.
LEMMA Behind ==
  ASSUME ConsoleInv, NEW w \in Workers, Done(w), IsWriting(h[w]), Noted, setupDone' \in BOOLEAN, config' \in Configs,
         file' \in Configs \cup {None}, bak' \in Configs \cup {None}, saved' \in Configs \cup {None},
         clean /\ clean' => (Agree /\ Kept /\ Current)'
  PROVE  TypeInv' /\ CleanInv'
  <1>1. writers \subseteq Workers /\ writers' = writers \ {w} /\ w \in writers /\ h' = [h EXCEPT ![w] = Idle]
    BY DEF ConsoleInv, TypeInv, Done
  <1>2. /\ h' = [u \in Workers |-> h'[u]] /\ \A u \in Workers : ReqOK(h'[u])
        /\ writers' = {u \in Workers : IsWriting(h'[u])} /\ \A u \in Workers \ {w} : h'[u] = h[u]
    BY Zenon, <1>1, Moves, IdleIs DEF ConsoleInv
  <1>3. clean' \in BOOLEAN /\ killed' = killed /\ torn' = torn /\ (clean' => clean)
    BY <1>1, Cleanly
  <1>4. TypeInv'
    BY <1>2, <1>3 DEF ConsoleInv, TypeInv
  <1>5. clean' => writers' = {}
    BY <1>1, <1>3 DEF ConsoleInv, CleanInv
  <1>6. CleanInv'
    BY <1>3, <1>5 DEF CleanInv
  <1> QED BY <1>4, <1>6

\* A request that does not write and is answered.
LEMMA Answers ==
  ASSUME ConsoleInv, NEW w \in Workers, Done(w), ~IsWriting(h[w]), Noted, UNCHANGED <<config, setupDone, file, bak, saved>>
  PROVE  TypeInv' /\ CleanInv'
  <1>1. h' = [h EXCEPT ![w] = Idle] /\ writers' = writers
    BY DEF Done, ConsoleInv, TypeInv
  <1> QED BY Zenon, <1>1, Aside, IdleIs

\* The request of w at another step, with other data.
Turned(w, pc, data, had) == [pc |-> pc, kind |-> h[w].kind, arg |-> h[w].arg, data |-> data, had |-> had]

\* The ways a handler changes its request.
LEMMA Turns ==
  ASSUME TypeInv, NEW w \in Workers, NEW pc
  PROVE  [h EXCEPT ![w].pc = pc] = [h EXCEPT ![w] = Turned(w, pc, h[w].data, h[w].had)]
  <1> DEFINE r == h[w]
  <1>1. r = [pc |-> r.pc, kind |-> r.kind, arg |-> r.arg, data |-> r.data, had |-> r.had] /\ h = [u \in Workers |-> h[u]]
    BY DEF TypeInv, ReqOK
  <1> HIDE DEF r
  <1>2. [r EXCEPT !.pc = pc] = [pc |-> pc, kind |-> r.kind, arg |-> r.arg, data |-> r.data, had |-> r.had]
    BY <1>1
  <1>3. [h EXCEPT ![w].pc = pc] = [h EXCEPT ![w] = [r EXCEPT !.pc = pc]]
    BY <1>1 DEF r
  <1> QED BY Zenon, <1>2, <1>3 DEF Turned, r

LEMMA TurnsData ==
  ASSUME TypeInv, NEW w \in Workers, NEW pc, NEW data
  PROVE  [h EXCEPT ![w].pc = pc, ![w].data = data] = [h EXCEPT ![w] = Turned(w, pc, data, h[w].had)]
  <1> DEFINE r == h[w]
  <1>1. r = [pc |-> r.pc, kind |-> r.kind, arg |-> r.arg, data |-> r.data, had |-> r.had] /\ h = [u \in Workers |-> h[u]]
    BY DEF TypeInv, ReqOK
  <1> HIDE DEF r
  <1>2. [[r EXCEPT !.pc = pc] EXCEPT !.data = data] = [pc |-> pc, kind |-> r.kind, arg |-> r.arg, data |-> data, had |-> r.had]
    <2> DEFINE x == [r EXCEPT !.pc = pc]
    <2>1. x = [pc |-> pc, kind |-> r.kind, arg |-> r.arg, data |-> r.data, had |-> r.had]
      BY <1>1
    <2> HIDE DEF x
    <2>2. [x EXCEPT !.data = data] = [pc |-> pc, kind |-> r.kind, arg |-> r.arg, data |-> data, had |-> r.had]
      BY <2>1
    <2> QED BY <2>2 DEF x
  <1>3. [h EXCEPT ![w].pc = pc, ![w].data = data] = [h EXCEPT ![w] = [[r EXCEPT !.pc = pc] EXCEPT !.data = data]]
    BY Zenon, <1>1 DEF r
  <1> QED BY Zenon, <1>2, <1>3 DEF Turned, r

LEMMA TurnsHad ==
  ASSUME TypeInv, NEW w \in Workers, NEW pc, NEW had
  PROVE  [h EXCEPT ![w].had = had, ![w].pc = pc] = [h EXCEPT ![w] = Turned(w, pc, h[w].data, had)]
  <1> DEFINE r == h[w]
  <1>1. r = [pc |-> r.pc, kind |-> r.kind, arg |-> r.arg, data |-> r.data, had |-> r.had] /\ h = [u \in Workers |-> h[u]]
    BY DEF TypeInv, ReqOK
  <1> HIDE DEF r
  <1>2. [[r EXCEPT !.had = had] EXCEPT !.pc = pc] = [pc |-> pc, kind |-> r.kind, arg |-> r.arg, data |-> r.data, had |-> had]
    <2> DEFINE x == [r EXCEPT !.had = had]
    <2>1. x = [pc |-> r.pc, kind |-> r.kind, arg |-> r.arg, data |-> r.data, had |-> had]
      BY <1>1
    <2> HIDE DEF x
    <2>2. [x EXCEPT !.pc = pc] = [pc |-> pc, kind |-> r.kind, arg |-> r.arg, data |-> r.data, had |-> had]
      BY <2>1
    <2> QED BY <2>2 DEF x
  <1>3. [h EXCEPT ![w].had = had, ![w].pc = pc] = [h EXCEPT ![w] = [[r EXCEPT !.had = had] EXCEPT !.pc = pc]]
    BY Zenon, <1>1 DEF r
  <1> QED BY Zenon, <1>2, <1>3 DEF Turned, r

\* ... and whether the changed request is one of its kind.
LEMMA TurnedOK ==
  ASSUME TypeInv, NEW w \in Workers, NEW pc, NEW data, NEW had, h[w].pc # "idle",
         pc \in Atomically => data \in Configs,
         \/ h[w].kind = "login" /\ pc \in {"read", "verify"}
         \/ h[w].kind = "change" /\ pc \in {"check"} \cup Changing \cup Atomically
         \/ h[w].kind \in {"save", "layout"} /\ pc \in {"check"} \cup Atomically
         \/ h[w].kind = "setup" /\ pc \in {"exists"} \cup SettingUp
         \/ h[w].kind = "update" /\ pc \in {"check", "assets", "download"}
  PROVE  ReqOK(Turned(w, pc, data, had))
  <1> DEFINE r == Turned(w, pc, data, had)
  <1>1. r.pc = pc /\ r.kind = h[w].kind /\ r.arg = h[w].arg /\ r.data = data /\ r.had = had
    BY DEF Turned
  <1>2. r = [pc |-> r.pc, kind |-> r.kind, arg |-> r.arg, data |-> r.data, had |-> r.had]
    BY DEF Turned
  <1>3. ReqOK(h[w]) /\ h[w] # Idle
    BY Zenon, IdleIs DEF TypeInv
  <1> HIDE DEF r
  <1>4. ReqOK(r)
    BY <1>1, <1>2, <1>3 DEF ReqOK
  <1> QED BY <1>4 DEF r

\* A step of a request that does not write.
LEMMA TurnsAside ==
  ASSUME ConsoleInv, NEW w \in Workers, Noted, UNCHANGED <<config, setupDone, file, bak, saved, writers>>,
         NEW pc, NEW data, h' = [h EXCEPT ![w].pc = pc] \/ h' = [h EXCEPT ![w].pc = pc, ![w].data = data],
         h[w].pc # "idle", ~IsWriting(h[w]),
         \/ h[w].kind = "login" /\ pc \in {"read", "verify"}
         \/ h[w].kind \in {"change", "save", "layout"} /\ pc = "check"
         \/ h[w].kind = "setup" /\ pc = "exists"
         \/ h[w].kind = "update" /\ pc \in {"check", "assets", "download"}
  PROVE  TypeInv' /\ CleanInv'
  <1>1. PICK d : h' = [h EXCEPT ![w] = Turned(w, pc, d, h[w].had)]
    <2>1. TypeInv
      BY DEF ConsoleInv
    <2>2. [h EXCEPT ![w].pc = pc] = [h EXCEPT ![w] = Turned(w, pc, h[w].data, h[w].had)]
      BY Zenon, <2>1, Turns
    <2>3. [h EXCEPT ![w].pc = pc, ![w].data = data] = [h EXCEPT ![w] = Turned(w, pc, data, h[w].had)]
      BY Zenon, <2>1, TurnsData
    <2> QED BY <2>2, <2>3, Zenon
  <1> DEFINE r == Turned(w, pc, d, h[w].had)
  <1>2. ReqOK(r)
    BY TurnedOK DEF ConsoleInv, Atomically
  <1>3. r.pc = pc /\ r.kind = h[w].kind
    BY DEF Turned
  <1> HIDE DEF r
  <1>4. ~IsWriting(r)
    BY <1>3 DEF IsWriting, Atomically, Changing, SettingUp
  <1> QED BY Zenon, <1>1, <1>2, <1>4, Aside DEF r

\* The login, the access check, the wizard's first look and the update.
LEMMA LoginStep == ASSUME ConsoleInv, NEW w \in Workers, Noted, Login(w) PROVE TypeInv' /\ CleanInv'
  <1>1. UNCHANGED <<config, setupDone, file, bak, saved>>
    BY DEF Login, LoginAllow, LoginRead, LoginVerify, mem, disk
  <1>2. h[w].kind = "login" /\ h[w].pc \in {"start", "read", "verify"}
    BY DEF Login, LoginAllow, LoginRead, LoginVerify, At
  <1>3. ~IsWriting(h[w]) /\ h[w].pc # "idle"
    BY Zenon, <1>2 DEF IsWriting, Atomically
  <1>4. CASE Done(w)
    BY <1>1, <1>3, <1>4, Answers
  <1>5. CASE To(w, "read") /\ Quiet
    BY Zenon, <1>1, <1>2, <1>3, <1>5, TurnsAside DEF To, Quiet
  <1>6. CASE h' = [h EXCEPT ![w].pc = "verify", ![w].data = config.hash] /\ Quiet
    BY Zenon, <1>1, <1>2, <1>3, <1>6, TurnsAside DEF Quiet
  <1> QED BY <1>4, <1>5, <1>6 DEF Login, LoginAllow, LoginRead, LoginVerify

LEMMA AuthStep ==
  ASSUME ConsoleInv, NEW w \in Workers, Noted, h[w].kind \in {"change", "save", "layout", "update"}, requireAuth(w, "check")
  PROVE  TypeInv' /\ CleanInv'
  <1>1. UNCHANGED <<config, setupDone, file, bak, saved>> /\ h[w].pc = "start"
    BY DEF requireAuth, mem, disk
  <1>2. ~IsWriting(h[w]) /\ h[w].pc # "idle"
    BY <1>1 DEF IsWriting, Atomically, Changing, SettingUp
  <1>3. CASE Done(w)
    BY <1>1, <1>2, <1>3, Answers
  <1>4. CASE To(w, "check") /\ Quiet
    BY Zenon, <1>1, <1>2, <1>4, TurnsAside DEF To, Quiet
  <1> QED BY <1>3, <1>4 DEF requireAuth

LEMMA UpdateStep == ASSUME ConsoleInv, NEW w \in Workers, Noted, handleApplyUpdate(w) PROVE TypeInv' /\ CleanInv'
  <1>1. UNCHANGED <<config, setupDone, file, bak, saved>>
    BY DEF handleApplyUpdate, UpdateCheck, UpdateAssets, UpdateDownload, mem, disk
  <1>2. h[w].kind = "update" /\ h[w].pc \in {"check", "assets", "download"}
    BY DEF handleApplyUpdate, UpdateCheck, UpdateAssets, UpdateDownload, At
  <1>3. ~IsWriting(h[w]) /\ h[w].pc # "idle"
    BY <1>2 DEF IsWriting, Atomically
  <1>4. CASE Done(w)
    BY <1>1, <1>3, <1>4, Answers
  <1>5. CASE To(w, "assets") /\ Quiet
    BY Zenon, <1>1, <1>2, <1>3, <1>5, TurnsAside DEF To, Quiet
  <1>6. CASE h' = [h EXCEPT ![w].pc = "download", ![w].data = findAssetURLWithChecksums] /\ Quiet
    BY Zenon, <1>1, <1>2, <1>3, <1>6, TurnsAside DEF Quiet
  <1> QED BY <1>4, <1>5, <1>6 DEF handleApplyUpdate, UpdateCheck, UpdateAssets, UpdateDownload

LEMMA RequestStep ==
  ASSUME ConsoleInv, NEW w \in Workers, Noted, NEW kind \in Kinds, Request(w, kind) PROVE TypeInv' /\ CleanInv'
  <1>1. PICK arg \in Args(kind) : h' = [h EXCEPT ![w] = [Idle EXCEPT !.pc = "start", !.kind = kind, !.arg = arg]]
    BY Zenon DEF Request
  <1> DEFINE r == [Idle EXCEPT !.pc = "start", !.kind = kind, !.arg = arg]
  <1>2. r.pc = "start" /\ r.kind = kind /\ r.arg = arg /\ r = [pc |-> r.pc, kind |-> r.kind, arg |-> r.arg, data |-> r.data, had |-> r.had]
    <2> DEFINE x == [Idle EXCEPT !.pc = "start"]
               y == [x EXCEPT !.kind = kind]
               z == [y EXCEPT !.arg = arg]
    <2>1. x = [pc |-> "start", kind |-> Idle.kind, arg |-> Idle.arg, data |-> Idle.data, had |-> Idle.had]
      BY IdleIs DEF ReqOK
    <2> HIDE DEF x
    <2>2. y = [pc |-> "start", kind |-> kind, arg |-> Idle.arg, data |-> Idle.data, had |-> Idle.had]
      BY <2>1
    <2> HIDE DEF y
    <2>3. z = [pc |-> "start", kind |-> kind, arg |-> arg, data |-> Idle.data, had |-> Idle.had]
      BY <2>2
    <2>4. r = z
      BY DEF x, y
    <2> HIDE DEF z, r
    <2> QED BY <2>3, <2>4
  <1> HIDE DEF r
  <1>3. UNCHANGED <<config, setupDone, file, bak, saved, writers>> /\ h[w].pc = "idle"
    BY DEF Request, mem, disk
  <1>4. ReqOK(r)
    BY <1>2 DEF ReqOK, Args, Kinds, Atomically
  <1>5. ~IsWriting(r) /\ ~IsWriting(h[w])
    BY <1>2, <1>3 DEF IsWriting, Atomically, Changing, SettingUp
  <1> QED BY Zenon, <1>1, <1>3, <1>4, <1>5, Aside DEF r

-----------------------------------------------------------------------------
(* Writes.                                                                    *)

\* A step of a request that has a write ahead: what it leads to.
LEMMA TurnsAhead ==
  ASSUME ConsoleInv, NEW w \in Workers, Noted, writers' = writers \cup {w}, h[w].pc # "idle",
         NEW pc, NEW data, NEW had, h' = [h EXCEPT ![w] = Turned(w, pc, data, had)],
         pc \in Atomically => data \in Configs,
         \/ h[w].kind = "change" /\ pc \in Changing \cup Atomically
         \/ h[w].kind \in {"save", "layout"} /\ pc \in Atomically
         \/ h[w].kind = "setup" /\ pc \in SettingUp,
         setupDone' \in BOOLEAN, config' \in Configs,
         file' \in Configs \cup {None}, bak' \in Configs \cup {None}, saved' \in Configs \cup {None},
         clean /\ clean' => WriterOK(h[w])'
  PROVE  TypeInv' /\ CleanInv'
  <1> DEFINE r == Turned(w, pc, data, had)
  <1>1. ReqOK(r)
    BY TurnedOK DEF ConsoleInv
  <1>2. r.pc = pc /\ r.kind = h[w].kind
    BY DEF Turned
  <1> HIDE DEF r
  <1>3. IsWriting(r)
    BY <1>2 DEF IsWriting
  <1> QED BY Zenon, <1>1, <1>3, Ahead DEF r

\* The request after the step.
Becomes(w, pc, data, had) ==
    /\ h' = [h EXCEPT ![w] = Turned(w, pc, data, had)]
    /\ h'[w].pc = pc /\ h'[w].kind = h[w].kind /\ h'[w].arg = h[w].arg /\ h'[w].data = data /\ h'[w].had = had

LEMMA Fields ==
  ASSUME TypeInv, NEW w \in Workers, NEW pc, NEW data, NEW had, h' = [h EXCEPT ![w] = Turned(w, pc, data, had)]
  PROVE  Becomes(w, pc, data, had)
  <1>1. h'[w] = Turned(w, pc, data, had)
    BY DEF TypeInv
  <1> QED BY <1>1 DEF Turned, Becomes

LEMMA ToBecomes ==
  ASSUME TypeInv, NEW w \in Workers, NEW pc, To(w, pc) PROVE Becomes(w, pc, h[w].data, h[w].had)
  <1>1. h' = [h EXCEPT ![w] = Turned(w, pc, h[w].data, h[w].had)]
    BY Zenon, Turns DEF To
  <1> QED BY Zenon, <1>1, Fields

LEMMA WriteBecomes ==
  ASSUME TypeInv, NEW w \in Workers, NEW data, Write(w, data) PROVE Becomes(w, "stat", data, h[w].had)
  <1>1. h' = [h EXCEPT ![w] = Turned(w, "stat", data, h[w].had)]
    BY Zenon, TurnsData DEF Write
  <1> QED BY Zenon, <1>1, Fields

\* Whoever starts to write while it stays clean is alone.
LEMMA Alone ==
  ASSUME ConsoleInv, NEW w \in Workers, Noted, writers' = writers \cup {w}, ~IsWriting(h[w]), clean'
  PROVE  clean /\ Agree /\ Kept /\ Current
  <1>1. w \notin writers /\ writers \subseteq Workers
    BY DEF ConsoleInv, TypeInv
  <1>2. clean /\ \A u, v \in writers' : u = v
    BY <1>1, Cleanly
  <1>3. writers = {}
    BY <1>1, <1>2
  <1> QED BY <1>2, <1>3 DEF ConsoleInv, CleanInv

\* Whoever writes while it is clean is at a step of its kind.
LEMMA Writes ==
  ASSUME ConsoleInv, NEW w \in Workers, IsWriting(h[w])
  PROVE  /\ w \in writers /\ writers \cup {w} = writers /\ h[w].pc # "idle"
         /\ clean => WriterOK(h[w])
         /\ h[w].pc \in Atomically => h[w].kind \in {"change", "save", "layout"} /\ h[w].data \in Configs
         /\ h[w].kind = "change" => h[w].arg \in Passwords \X Passwords
         /\ h[w].kind = "setup" => h[w].arg \in Passwords \cup {None}
  <1>1. w \in writers /\ ReqOK(h[w])
    BY DEF ConsoleInv, TypeInv
  <1>2. h[w].pc # "idle" /\ h[w] # Idle
    BY IdleIs DEF IsWriting, Atomically, Changing, SettingUp
  <1>3. clean => WriterOK(h[w])
    BY Zenon, <1>1 DEF ConsoleInv, CleanInv
  <1>4. h[w].pc \in Atomically => h[w].kind \in {"change", "save", "layout"} /\ h[w].data \in Configs
    BY Zenon, <1>1, <1>2 DEF ReqOK, Atomically, SettingUp
  <1>5. /\ h[w].kind = "change" => h[w].arg \in Passwords \X Passwords
        /\ h[w].kind = "setup" => h[w].arg \in Passwords \cup {None}
    BY Zenon, <1>1, <1>2 DEF ReqOK
  <1> QED BY Zenon, <1>1, <1>2, <1>3, <1>4, <1>5

\* A change of password that fails after the check is answered "partial".
LEMMA Partially ==
  ASSUME ConsoleInv, NEW w \in Workers, Noted, Done(w), h[w].kind = "change", h[w].pc \notin {"start", "check", "publish"}
  PROVE  ~clean'
  <1>1. h'[w] = Idle /\ writers' \in SUBSET Workers
    BY DEF ConsoleInv, TypeInv, Done
  <1>2. Partial(w)
    BY <1>1, IdleIs DEF Partial
  <1> QED BY <1>1, <1>2, Cleanly

\* A config with another hash or another layout.
LEMMA ConfigWith ==
  ASSUME NEW c \in Configs
  PROVE  /\ \A p \in Passwords : [c EXCEPT !.hash = p] \in Configs
         /\ \A l \in {0, 1} : [c EXCEPT !.layout = l] \in Configs /\ [c EXCEPT !.layout = l].hash = c.hash
         /\ c.hash \in Passwords \cup {None} /\ c # None
  BY ConsoleAssumption DEF Configs

LEMMA DefaultIs == Default \in Configs /\ Default.hash = None
  BY DEF Default, Configs

LEMMA StatStep == ASSUME ConsoleInv, NEW w \in Workers, Noted, Stat(w) PROVE TypeInv' /\ CleanInv'
  <1>1. h[w].pc = "stat" /\ IsWriting(h[w]) /\ UNCHANGED <<config, setupDone, file, bak, saved>>
    BY Zenon DEF Stat, IsWriting, Atomically, mem, disk
  <1>2. /\ w \in writers /\ writers \cup {w} = writers /\ h[w].pc # "idle" /\ (clean => WriterOK(h[w]))
        /\ h[w].kind \in {"change", "save", "layout"} /\ h[w].data \in Configs
    BY <1>1, Writes DEF Atomically
  <1>3. killed' = killed /\ torn' = torn
    BY DEF Noted
  <1>4. Agree' = Agree /\ Kept' = Kept /\ Current' = Current
    BY <1>1, <1>3 DEF Agree, Kept, Current, Load
  <1>5. TypeInv
    BY Zenon DEF ConsoleInv
  <1>6. CASE Done(w)
    <2>1. clean /\ clean' => Agree /\ Kept /\ Current
      BY ZenonT(40), <1>1, <1>2, <1>6, Partially DEF WriterOK
    <2> QED BY Zenon, <1>1, <1>4, <1>5, <1>6, <2>1, Behind DEF TypeInv
  <1>7. CASE h' = [h EXCEPT ![w].had = file # None, ![w].pc = IF file # None THEN "unlink" ELSE "replace"] /\ Quiet
    <2> DEFINE had == file # None
               pc == IF file # None THEN "unlink" ELSE "replace"
    <2>1. Becomes(w, pc, h[w].data, had)
      <3>1. h' = [h EXCEPT ![w].had = had, ![w].pc = pc]
        BY <1>7
      <3> HIDE DEF had, pc
      <3>2. [h EXCEPT ![w].had = had, ![w].pc = pc] = [h EXCEPT ![w] = Turned(w, pc, h[w].data, had)]
        BY ZenonT(60), <1>5, TurnsHad
      <3>3. h' = [h EXCEPT ![w] = Turned(w, pc, h[w].data, had)]
        BY <3>1, <3>2, Zenon
      <3> QED BY Zenon, <1>5, <3>3, Fields
    <2>2. h'[w].kind = h[w].kind /\ h'[w].data = h[w].data /\ h'[w].pc = pc /\ h'[w].had = had
      BY <2>1 DEF Becomes
    <2>3. clean => WriterOK(h[w])'
      <3>1. CASE file # None
        BY Zenon, <1>1, <1>2, <1>4, <2>2, <3>1 DEF WriterOK, Atomically, Changing, SettingUp
      <3>2. CASE file = None
        <4>1. h'[w].pc = "replace" /\ h'[w].had = FALSE
          BY Zenon, <2>2, <3>2
        <4>2. clean /\ h[w].kind # "change" => config' = Default \/ (setupDone' /\ config'.hash = None)
          BY <1>1, <1>2, <3>2 DEF WriterOK, Agree, Load, Atomically
        <4> QED BY <1>1, <1>2, <1>4, <2>2, <3>2, <4>1, <4>2 DEF WriterOK, Atomically, Changing, SettingUp
      <3> QED BY <3>1, <3>2
    <2>4. writers' = writers \cup {w} /\ pc \in Atomically
      BY <1>2, <1>7 DEF Quiet, Atomically
    <2> HIDE DEF had, pc
    <2> QED BY <1>1, <1>2, <1>5, <2>1, <2>3, <2>4, TurnsAhead DEF TypeInv, Becomes
  <1> QED BY <1>6, <1>7 DEF Stat, WriteFails

LEMMA UnlinkStep == ASSUME ConsoleInv, NEW w \in Workers, Noted, Unlink(w) PROVE TypeInv' /\ CleanInv'
  <1>1. h[w].pc = "unlink" /\ IsWriting(h[w]) /\ UNCHANGED <<config, setupDone, file, saved, writers>> /\ bak' = None
    BY DEF Unlink, IsWriting, Atomically, mem
  <1>2. /\ w \in writers /\ writers \cup {w} = writers /\ h[w].pc # "idle" /\ (clean => WriterOK(h[w]))
        /\ h[w].kind \in {"change", "save", "layout"} /\ h[w].data \in Configs
    BY Zenon, <1>1, Writes DEF Atomically
  <1>3. killed' = killed /\ torn' = torn
    BY DEF Noted
  <1>4. TypeInv
    BY DEF ConsoleInv
  <1>6. Becomes(w, "backup", h[w].data, h[w].had)
    BY Zenon, <1>4, ToBecomes DEF Unlink
  <1>7. Agree' = Agree /\ (file # None => Kept' = Kept) /\ Current' = Current
    BY Zenon, <1>1, <1>3 DEF Agree, Kept, Current, Load
  <1>8. clean => WriterOK(h[w])'
    BY Zenon, <1>1, <1>2, <1>6, <1>7 DEF Becomes, WriterOK, Atomically, Changing, SettingUp
  <1> QED BY Zenon, <1>1, <1>2, <1>4, <1>6, <1>8, TurnsAhead DEF TypeInv, Atomically, Becomes

LEMMA BackupStep == ASSUME ConsoleInv, NEW w \in Workers, Noted, Backup(w) PROVE TypeInv' /\ CleanInv'
  <1>1. h[w].pc = "backup" /\ IsWriting(h[w]) /\ UNCHANGED <<config, setupDone, saved>>
    BY Zenon DEF Backup, IsWriting, Atomically, mem
  <1>2. /\ w \in writers /\ writers \cup {w} = writers /\ h[w].pc # "idle" /\ (clean => WriterOK(h[w]))
        /\ h[w].kind \in {"change", "save", "layout"} /\ h[w].data \in Configs
    BY Zenon, <1>1, Writes DEF Atomically
  <1>3. killed' = killed /\ torn' = torn
    BY DEF Noted
  <1>4. TypeInv
    BY DEF ConsoleInv
  <1>5. CASE Done(w) /\ UNCHANGED <<file, bak>>
    <2>1. clean /\ clean' => Agree /\ Kept /\ Current
      BY <1>1, <1>2, <1>5, Partially DEF WriterOK
    <2>2. Agree' = Agree /\ Kept' = Kept /\ Current' = Current
      BY Zenon, <1>1, <1>3, <1>5 DEF Agree, Kept, Current, Load
    <2> QED BY Zenon, <1>1, <1>4, <1>5, <2>1, <2>2, Behind DEF TypeInv
  <1>6. CASE file # None /\ bak' = file /\ file' = None /\ To(w, "replace") /\ Quiet
    <2>1. Becomes(w, "replace", h[w].data, h[w].had)
      BY Zenon, <1>4, <1>6, ToBecomes
    <2>2. h'[w].kind = h[w].kind /\ h'[w].data = h[w].data /\ h'[w].pc = "replace" /\ h'[w].had = h[w].had
      BY <2>1 DEF Becomes
    <2>3. clean => h[w].had /\ Kept /\ Current /\ (h[w].kind # "change" => Agree)
      BY Zenon, <1>1, <1>2 DEF WriterOK
    <2>4. clean => (torn' \/ saved' = bak') /\ (killed' \/ saved' = bak') /\ bak' # None
      BY Zenon, <1>1, <1>3, <1>6, <2>3 DEF Kept, Current
    <2>5. clean /\ h[w].kind # "change" => config' = bak' \/ (setupDone' /\ config'.hash = None)
      BY Zenon, <1>1, <1>6, <2>3 DEF Agree, Load
    <2>6. clean => WriterOK(h[w])'
      BY Zenon, <1>1, <1>2, <1>6, <2>2, <2>3, <2>4, <2>5 DEF WriterOK, Atomically, Changing, SettingUp
    <2> QED BY Zenon, <1>1, <1>2, <1>4, <1>6, <2>1, <2>6, TurnsAhead DEF TypeInv, Atomically, Becomes, Quiet
  <1> QED BY Zenon, <1>5, <1>6 DEF Backup, WriteFails

LEMMA ReplaceStep == ASSUME ConsoleInv, NEW w \in Workers, Noted, Replace(w) PROVE TypeInv' /\ CleanInv'
  <1>1. h[w].pc = "replace" /\ IsWriting(h[w]) /\ UNCHANGED <<config, setupDone>>
    BY Zenon DEF Replace, IsWriting, Atomically, mem
  <1>2. /\ w \in writers /\ writers \cup {w} = writers /\ h[w].pc # "idle" /\ (clean => WriterOK(h[w]))
        /\ h[w].kind \in {"change", "save", "layout"} /\ h[w].data \in Configs
    BY Zenon, <1>1, Writes DEF Atomically
  <1>3. killed' = killed /\ torn' = torn
    BY DEF Noted
  <1>4. TypeInv
    BY DEF ConsoleInv
  <1>5. CASE /\ Done(w) /\ UNCHANGED saved
             /\ IF h[w].had /\ bak # None THEN file' = bak /\ bak' = None ELSE UNCHANGED <<file, bak>>
    <2>1. clean /\ clean' => h[w].kind # "change" /\ WriterOK(h[w])
      BY Zenon, <1>1, <1>2, <1>5, Partially
    <2>2. file' \in Configs \cup {None} /\ bak' \in Configs \cup {None} /\ saved' \in Configs \cup {None}
      BY Zenon, <1>4, <1>5 DEF TypeInv
    <2>3. ASSUME clean, clean', h[w].had PROVE (Agree /\ Kept /\ Current)'
      <3>1. bak # None /\ (torn \/ saved = bak) /\ (killed \/ saved = bak) /\ (config = bak \/ (setupDone /\ config.hash = None))
        BY Zenon, <1>1, <2>1, <2>3 DEF WriterOK
      <3>2. file' = bak /\ saved' = saved
        BY Zenon, <1>5, <2>3, <3>1
      <3> QED BY Zenon, <1>1, <1>3, <3>1, <3>2 DEF Agree, Kept, Current, Load
    <2>4. ASSUME clean, clean', ~h[w].had PROVE (Agree /\ Kept /\ Current)'
      <3>1. file = None /\ Kept /\ Current /\ (config = Default \/ (setupDone /\ config.hash = None))
        BY Zenon, <1>1, <2>1, <2>4 DEF WriterOK
      <3>2. UNCHANGED <<file, bak, saved>>
        BY <1>5, <2>4
      <3> QED BY Zenon, <1>1, <1>3, <3>1, <3>2 DEF Agree, Kept, Current, Load
    <2> QED BY Zenon, <1>1, <1>4, <1>5, <2>2, <2>3, <2>4, Behind DEF TypeInv
  <1>6. CASE file' = h[w].data /\ saved' = h[w].data /\ To(w, "publish") /\ UNCHANGED <<bak, writers>>
    <2>1. Becomes(w, "publish", h[w].data, h[w].had)
      BY Zenon, <1>4, <1>6, ToBecomes
    <2>2. h'[w].kind = h[w].kind /\ h'[w].data = h[w].data /\ h'[w].pc = "publish" /\ h'[w].had = h[w].had
      BY <2>1 DEF Becomes
    <2>3. clean => WriterOK(h[w])'
      BY Zenon, <1>1, <1>2, <1>6, <2>2 DEF WriterOK, Atomically, Changing, SettingUp
    <2> QED BY Zenon, <1>1, <1>2, <1>4, <1>6, <2>1, <2>3, TurnsAhead DEF TypeInv, Atomically, Becomes
  <1> QED BY Zenon, <1>5, <1>6 DEF Replace, WriteFails

LEMMA PublishStep == ASSUME ConsoleInv, NEW w \in Workers, Noted, Publish(w) PROVE TypeInv' /\ CleanInv'
  <1>1. /\ h[w].pc = "publish" /\ IsWriting(h[w]) /\ UNCHANGED <<setupDone, file, bak, saved>> /\ Done(w)
        /\ config' = IF h[w].kind = "change" THEN config ELSE h[w].data
    BY Zenon DEF Publish, IsWriting, Atomically, disk
  <1>2. (clean => WriterOK(h[w])) /\ h[w].data \in Configs
    BY <1>1, Writes DEF Atomically
  <1>3. TypeInv /\ h[w].data # None
    BY Zenon, <1>2, ConfigWith DEF ConsoleInv
  <1>4. clean => file = h[w].data /\ saved = h[w].data /\ config' = h[w].data
    BY Zenon, <1>1, <1>2 DEF WriterOK, Atomically
  <1>5. clean => (Agree /\ Kept /\ Current)'
    BY Zenon, <1>1, <1>3, <1>4 DEF Agree, Kept, Current, Load
  <1> QED BY <1>1, <1>2, <1>3, <1>5, Behind DEF TypeInv

-----------------------------------------------------------------------------
(* The handlers that write.                                                   *)

\* A request that passed its checks starts to write.
LEMMA StartsWriting ==
  ASSUME ConsoleInv, NEW w \in Workers, Noted, writers' = writers \cup {w}, h[w].pc # "idle", ~IsWriting(h[w]),
         UNCHANGED <<config, setupDone, file, bak, saved>>,
         NEW pc, NEW data, NEW had, Becomes(w, pc, data, had),
         \/ h[w].kind = "change" /\ pc = "rotate" /\ h[w].arg[1] = config.hash
         \/ /\ h[w].kind \in {"save", "layout"} /\ pc = "stat" /\ data \in Configs
            /\ Agree /\ config.hash # None => data.hash = config.hash
         \/ h[w].kind = "setup" /\ pc = "create" /\ file \in {None, Default}
  PROVE  TypeInv' /\ CleanInv'
  <1>1. h'[w].pc = pc /\ h'[w].kind = h[w].kind /\ h'[w].arg = h[w].arg /\ h'[w].data = data
    BY DEF Becomes
  <1>2. clean' => Agree /\ Kept /\ Current
    BY Zenon, Alone
  <1>3. Agree' = Agree /\ Kept' = Kept /\ Current' = Current
    BY Zenon DEF Agree, Kept, Current, Load, Noted
  <1>4. Agree /\ file \in {None, Default} => config.hash = None
    BY Zenon, DefaultIs DEF Agree, Load
  <1>5. clean' => WriterOK(h[w])'
    BY Zenon, <1>1, <1>2, <1>3, <1>4 DEF WriterOK, Atomically, Changing, SettingUp
  <1>6. h' = [h EXCEPT ![w] = Turned(w, pc, data, had)] /\ TypeInv
    BY Zenon DEF Becomes, ConsoleInv
  <1> QED BY Zenon, <1>5, <1>6, TurnsAhead DEF TypeInv, Atomically, Changing, SettingUp

\* A request at its checks.
LEMMA Checking ==
  ASSUME ConsoleInv, NEW w \in Workers, h[w].pc \in {"start", "check", "exists"}
  PROVE  /\ h[w].pc # "idle" /\ ~IsWriting(h[w])
         /\ h[w].kind = "change" => h[w].arg \in Passwords \X Passwords
         /\ h[w].kind = "save" => h[w].arg \in Configs
         /\ h[w].kind = "layout" => h[w].arg = 1
  <1>1. ReqOK(h[w]) /\ h[w] # Idle
    BY Zenon, IdleIs DEF ConsoleInv, TypeInv
  <1>2. h[w].pc # "idle" /\ ~IsWriting(h[w])
    BY DEF IsWriting, Atomically, Changing, SettingUp
  <1> QED BY Zenon, <1>1, <1>2, ConsoleAssumption DEF ReqOK

LEMMA ChangeStep == ASSUME ConsoleInv, NEW w \in Workers, Noted, handleChangePassword(w) PROVE TypeInv' /\ CleanInv'
  <1>1. TypeInv /\ killed' = killed /\ torn' = torn
    BY Zenon DEF ConsoleInv, Noted
  <1>2. CASE ChangeCheck(w)
    <2>1. /\ h[w].kind = "change" /\ h[w].pc = "check" /\ UNCHANGED <<config, setupDone, file, bak, saved>>
          /\ h[w].pc # "idle" /\ ~IsWriting(h[w])
      BY <1>2, Checking DEF ChangeCheck, At, mem, disk
    <2>2. CASE Done(w)
      BY Zenon, <2>1, <2>2, Answers
    <2>3. CASE h[w].arg[1] = config.hash /\ To(w, "rotate") /\ writers' = writers \cup {w}
      <3>1. Becomes(w, "rotate", h[w].data, h[w].had)
        BY <1>1, <2>3, ToBecomes
      <3> QED BY Zenon, <2>1, <2>3, <3>1, StartsWriting
    <2> QED BY Zenon, <1>2, <2>2, <2>3 DEF ChangeCheck
  <1>3. CASE ChangeRotate(w)
    <2>1. /\ h[w].kind = "change" /\ h[w].pc = "rotate" /\ UNCHANGED <<config, setupDone, file, bak, saved, writers>>
          /\ IsWriting(h[w])
      BY Zenon, <1>3 DEF ChangeRotate, At, disk, IsWriting, Changing
    <2>2. w \in writers /\ writers \cup {w} = writers /\ h[w].pc # "idle" /\ (clean => WriterOK(h[w]))
      BY Zenon, <2>1, Writes
    <2>3. Becomes(w, "sethash", h[w].data, h[w].had)
      BY Zenon, <1>1, <1>3, ToBecomes DEF ChangeRotate
    <2>4. h'[w].pc = "sethash" /\ h'[w].kind = h[w].kind /\ h'[w].arg = h[w].arg
      BY Zenon, <2>3 DEF Becomes
    <2>5. Agree' = Agree /\ Kept' = Kept /\ Current' = Current
      BY <1>1, <2>1 DEF Agree, Kept, Current, Load
    <2>6. clean => WriterOK(h[w])'
      BY Zenon, <2>1, <2>2, <2>4, <2>5 DEF WriterOK, Atomically, Changing, SettingUp
    <2> QED BY Zenon, <1>1, <2>1, <2>2, <2>3, <2>6, TurnsAhead DEF TypeInv, Becomes, Changing, Atomically
  <1>4. CASE ChangeSet(w)
    <2>1. /\ h[w].kind = "change" /\ h[w].pc = "sethash" /\ UNCHANGED <<setupDone, file, bak, saved, writers>>
          /\ IsWriting(h[w]) /\ config' = [config EXCEPT !.hash = h[w].arg[2]]
      BY <1>4 DEF ChangeSet, At, disk, IsWriting, Changing
    <2>2. /\ w \in writers /\ writers \cup {w} = writers /\ h[w].pc # "idle" /\ (clean => WriterOK(h[w]))
          /\ h[w].arg \in Passwords \X Passwords
      BY <2>1, Writes
    <2>3. config' \in Configs /\ h[w].arg[1] # None
      BY Zenon, <1>1, <2>1, <2>2, ConfigWith, ConsoleAssumption DEF TypeInv
    <2>4. Becomes(w, "load", h[w].data, h[w].had)
      BY Zenon, <1>1, <1>4, ToBecomes DEF ChangeSet
    <2>5. h'[w].pc = "load" /\ h'[w].kind = h[w].kind /\ h'[w].arg = h[w].arg
      BY <2>4 DEF Becomes
    <2>6. Kept' = Kept /\ Current' = Current
      BY Zenon, <1>1, <2>1 DEF Kept, Current
    <2>7. clean /\ file # None => config' = [file EXCEPT !.hash = h[w].arg[2]]
      BY Zenon, <2>1, <2>2, <2>3 DEF WriterOK, Agree, Load
    <2>8. clean => WriterOK(h[w])'
      BY Zenon, <2>1, <2>2, <2>5, <2>6, <2>7 DEF WriterOK, Atomically, Changing, SettingUp
    <2> QED BY Zenon, <1>1, <2>1, <2>2, <2>3, <2>4, <2>8, TurnsAhead DEF TypeInv, Becomes, Changing, Atomically
  <1>5. CASE ChangeLoad(w)
    <2>1. h[w].kind = "change" /\ h[w].pc = "load" /\ UNCHANGED <<config, setupDone, file, bak, saved>> /\ IsWriting(h[w])
      BY Zenon, <1>5 DEF ChangeLoad, At, mem, disk, IsWriting, Changing
    <2>2. /\ w \in writers /\ h[w].pc # "idle" /\ (clean => WriterOK(h[w]))
          /\ h[w].arg \in Passwords \X Passwords
      BY Zenon, <2>1, Writes
    <2>3. CASE Done(w)
      <3>1. ~clean'
        BY <2>1, <2>3, Partially
      <3> QED BY Zenon, <1>1, <2>1, <2>3, <3>1, Behind DEF TypeInv
    <2>4. CASE file # None /\ Write(w, [file EXCEPT !.hash = h[w].arg[2]])
      <3> DEFINE c == [file EXCEPT !.hash = h[w].arg[2]]
      <3>1. c \in Configs
        BY Zenon, <1>1, <2>2, <2>4, ConfigWith DEF TypeInv
      <3>2. clean => config = c /\ Kept /\ Current
        BY <2>1, <2>2, <2>4 DEF WriterOK, Changing
      <3> HIDE DEF c
      <3>3. Becomes(w, "stat", c, h[w].had) /\ writers' = writers \cup {w}
        <4>1. Write(w, c)
          BY Zenon, <2>4 DEF c
        <4> QED BY Zenon, <1>1, <4>1, WriteBecomes DEF Write
      <3>4. h'[w].pc = "stat" /\ h'[w].kind = h[w].kind /\ h'[w].arg = h[w].arg /\ h'[w].data = c
        BY <3>3 DEF Becomes
      <3>5. Kept' = Kept /\ Current' = Current
        BY Zenon, <1>1, <2>1 DEF Kept, Current
      <3>6. clean => WriterOK(h[w])'
        BY <2>1, <3>2, <3>4, <3>5 DEF WriterOK, Atomically, Changing, SettingUp
      <3> QED BY Zenon, <1>1, <2>1, <2>2, <3>1, <3>3, <3>6, TurnsAhead DEF TypeInv, Becomes, Changing, Atomically
    <2> QED BY <1>5, <2>3, <2>4 DEF ChangeLoad, WriteFails
  <1> QED BY <1>2, <1>3, <1>4, <1>5 DEF handleChangePassword

LEMMA SaveStep == ASSUME ConsoleInv, NEW w \in Workers, Noted, SaveCheck(w) PROVE TypeInv' /\ CleanInv'
  <1>1. /\ h[w].kind = "save" /\ h[w].pc = "check" /\ UNCHANGED <<config, setupDone, file, bak, saved>>
        /\ h[w].pc # "idle" /\ ~IsWriting(h[w]) /\ h[w].arg \in Configs /\ TypeInv
    BY Zenon, Checking DEF SaveCheck, At, mem, disk, ConsoleInv
  <1>2. CASE Done(w)
    BY Zenon, <1>1, <1>2, Answers
  <1>3. CASE h[w].arg.hash = config.hash /\ Write(w, h[w].arg)
    <2>1. Becomes(w, "stat", h[w].arg, h[w].had) /\ writers' = writers \cup {w}
      BY Zenon, <1>1, <1>3, WriteBecomes DEF Write
    <2> QED BY Zenon, <1>1, <1>3, <2>1, StartsWriting
  <1> QED BY Zenon, <1>2, <1>3 DEF SaveCheck, ensurePasswordHashUnchanged

LEMMA LayoutStep == ASSUME ConsoleInv, NEW w \in Workers, Noted, LayoutLoad(w) PROVE TypeInv' /\ CleanInv'
  <1>1. /\ h[w].kind = "layout" /\ h[w].pc = "check" /\ UNCHANGED <<config, setupDone, file, bak, saved>>
        /\ h[w].pc # "idle" /\ ~IsWriting(h[w]) /\ h[w].arg = 1 /\ TypeInv
    BY Zenon, Checking DEF LayoutLoad, At, mem, disk, ConsoleInv
  <1> DEFINE c == [Load EXCEPT !.layout = 1]
  <1>2. Load \in Configs
    BY <1>1, DefaultIs DEF Load, TypeInv
  <1>3. c \in Configs /\ c.hash = Load.hash
    BY Zenon, <1>2, ConfigWith
  <1>4. Write(w, c)
    BY <1>1 DEF LayoutLoad, upsertDashboardLayoutBlock, Load
  <1> HIDE DEF c
  <1>5. Becomes(w, "stat", c, h[w].had) /\ writers' = writers \cup {w}
    BY Zenon, <1>1, <1>4, WriteBecomes DEF Write
  <1>6. Agree /\ config.hash # None => c.hash = config.hash
    BY <1>3 DEF Agree
  <1> QED BY Zenon, <1>1, <1>3, <1>5, <1>6, StartsWriting

LEMMA SetupStep == ASSUME ConsoleInv, NEW w \in Workers, Noted, handleSetupComplete(w) PROVE TypeInv' /\ CleanInv'
  <1>1. TypeInv /\ killed' = killed /\ torn' = torn
    BY DEF ConsoleInv, Noted
  <1>2. CASE SetupStart(w)
    <2>1. /\ h[w].kind = "setup" /\ h[w].pc = "start" /\ UNCHANGED <<config, setupDone, file, bak, saved>>
          /\ h[w].pc # "idle" /\ ~IsWriting(h[w])
      BY Zenon, <1>2, Checking DEF SetupStart, At, mem, disk
    <2>2. CASE Done(w)
      BY Zenon, <2>1, <2>2, Answers
    <2>3. CASE To(w, "exists") /\ Quiet
      BY Zenon, <2>1, <2>3, TurnsAside DEF To, Quiet
    <2> QED BY <1>2, <2>2, <2>3 DEF SetupStart
  <1>3. CASE SetupExists(w)
    <2>1. /\ h[w].kind = "setup" /\ h[w].pc = "exists" /\ UNCHANGED <<config, setupDone, file, bak, saved>>
          /\ h[w].pc # "idle" /\ ~IsWriting(h[w])
      BY Zenon, <1>3, Checking DEF SetupExists, At, mem, disk
    <2>2. CASE Done(w)
      BY <2>1, <2>2, Answers
    <2>3. CASE file \in {None, Default} /\ To(w, "create") /\ writers' = writers \cup {w}
      <3>1. Becomes(w, "create", h[w].data, h[w].had)
        BY Zenon, <1>1, <2>3, ToBecomes
      <3> QED BY Zenon, <2>1, <2>3, <3>1, StartsWriting
    <2> QED BY <1>3, <2>2, <2>3 DEF SetupExists
  <1>4. CASE SetupCreate(w) \/ SetupSections(w)
    <2>1. PICK pc \in {"sections", "auth"} :
            /\ h[w].kind = "setup" /\ h[w].pc \in {"create", "sections"} /\ UNCHANGED <<config, setupDone, bak, saved, writers>>
            /\ file' \in {Default, [Default EXCEPT !.body = 1]} /\ To(w, pc)
      BY <1>4 DEF SetupCreate, SetupSections, At, mem
    <2>2. IsWriting(h[w])
      BY <2>1 DEF IsWriting, SettingUp
    <2>3. w \in writers /\ writers \cup {w} = writers /\ h[w].pc # "idle" /\ (clean => WriterOK(h[w]))
      BY <2>2, Writes
    <2>4. file' \in Configs
      BY <2>1 DEF Default, Configs
    <2>5. Becomes(w, pc, h[w].data, h[w].had)
      BY <1>1, <2>1, ToBecomes
    <2>6. h'[w].pc = pc /\ h'[w].kind = h[w].kind /\ h'[w].arg = h[w].arg
      BY Zenon, <2>5 DEF Becomes
    <2>7. clean => torn \/ saved \in {None, Default, bak}
      BY Zenon, <2>1, <2>3 DEF WriterOK, Kept
    <2>8. clean => WriterOK(h[w])'
      BY Zenon, <1>1, <2>1, <2>3, <2>6, <2>7 DEF WriterOK, Atomically, Changing, SettingUp
    <2> QED BY Zenon, <1>1, <2>1, <2>3, <2>4, <2>5, <2>8, TurnsAhead DEF TypeInv, Becomes, SettingUp, Atomically
  <1>5. CASE SetupAuth(w)
    <2>1. /\ h[w].kind = "setup" /\ h[w].pc = "auth" /\ UNCHANGED <<config, setupDone, bak, writers>>
          /\ file' = [hash |-> h[w].arg, body |-> 1, layout |-> 0] /\ saved' = file'
          /\ IsWriting(h[w])
      BY Zenon, <1>5 DEF SetupAuth, At, mem, IsWriting, SettingUp
    <2>2. /\ w \in writers /\ writers \cup {w} = writers /\ h[w].pc # "idle" /\ (clean => WriterOK(h[w]))
          /\ h[w].arg \in Passwords \cup {None}
      BY Zenon, <2>1, Writes
    <2>3. file' \in Configs
      BY Zenon, <2>1, <2>2 DEF Configs
    <2>4. Becomes(w, "finish", h[w].data, h[w].had)
      BY Zenon, <1>1, <1>5, ToBecomes DEF SetupAuth
    <2>5. h'[w].pc = "finish" /\ h'[w].kind = h[w].kind /\ h'[w].arg = h[w].arg
      BY <2>4 DEF Becomes
    <2>6. clean => WriterOK(h[w])'
      BY Zenon, <2>1, <2>2, <2>5 DEF WriterOK, Atomically, Changing, SettingUp
    <2> QED BY Zenon, <1>1, <2>1, <2>2, <2>3, <2>4, <2>6, TurnsAhead DEF TypeInv, Becomes, SettingUp, Atomically
  <1>6. CASE SetupFinish(w)
    <2>1. /\ h[w].kind = "setup" /\ h[w].pc = "finish" /\ UNCHANGED <<config, file, bak, saved>> /\ setupDone' = TRUE /\ Done(w)
          /\ IsWriting(h[w])
      BY Zenon, <1>6 DEF SetupFinish, At, disk, IsWriting, SettingUp
    <2>2. clean => config.hash = None /\ file = saved
      BY <2>1, Writes DEF WriterOK, SettingUp
    <2>3. clean => (Agree /\ Kept /\ Current)'
      BY Zenon, <1>1, <2>1, <2>2 DEF Agree, Kept, Current
    <2> QED BY <1>1, <2>1, <2>3, Behind DEF TypeInv
  <1> QED BY Zenon, <1>2, <1>3, <1>4, <1>5, <1>6 DEF handleSetupComplete

-----------------------------------------------------------------------------
(* Every step.                                                                *)

LEMMA HandleStep ==
  ASSUME ConsoleInv, NEW w \in Workers, Noted, Handle(w) PROVE TypeInv' /\ CleanInv'
  <1>1. CASE Login(w)
    BY Zenon, <1>1, LoginStep
  <1>2. CASE h[w].kind \in {"change", "save", "layout", "update"} /\ requireAuth(w, "check")
    BY Zenon, <1>2, AuthStep
  <1>3. CASE writeFileAtomically(w)
    BY Zenon, <1>3, StatStep, UnlinkStep, BackupStep, ReplaceStep, PublishStep DEF writeFileAtomically
  <1>4. CASE handleChangePassword(w)
    BY <1>4, ChangeStep
  <1>5. CASE SaveCheck(w) \/ LayoutLoad(w)
    BY Zenon, <1>5, SaveStep, LayoutStep
  <1>6. CASE handleSetupComplete(w)
    BY <1>6, SetupStep
  <1>7. CASE handleApplyUpdate(w)
    BY <1>7, UpdateStep
  <1> QED BY Zenon, <1>1, <1>2, <1>3, <1>4, <1>5, <1>6, <1>7 DEF Handle

\* Whatever the process dies in, the next one finds the config saved last,
\* unless the setup wizard was writing.
LEMMA StartStep ==
  ASSUME ConsoleInv, Crash \/ RestartSelf,
         killed' = (killed \/ writers # {}), torn' = (torn \/ \E w \in Workers : InSections(w)), UNCHANGED clean
  PROVE  TypeInv' /\ CleanInv'
  <1>1. /\ h' = [w \in Workers |-> Idle] /\ config' = Load /\ setupDone' = (config'.hash # None) /\ writers' = {}
        /\ UNCHANGED <<file, bak, saved>>
    BY DEF Crash, RestartSelf, Start, disk
  <1>2. TypeInv /\ CleanInv
    BY DEF ConsoleInv
  <1>3. Load \in Configs
    BY Zenon, <1>2, DefaultIs DEF Load, TypeInv
  <1>4. \A w \in Workers : h'[w] = Idle
    BY Zenon, <1>1
  <1>5. h' = [w \in Workers |-> h'[w]] /\ \A w \in Workers : ReqOK(h'[w]) /\ ~IsWriting(h'[w])
    BY Zenon, <1>1, <1>4, IdleIs
  <1>6. TypeInv'
    BY Zenon, <1>1, <1>2, <1>3, <1>5 DEF TypeInv
  <1>7. Agree'
    BY <1>1 DEF Agree, Load
  <1>8. clean => Current'
    BY Zenon, <1>1, <1>2 DEF CleanInv, Current
  <1>9. clean => Kept'
    <2>1. CASE writers = {}
      BY Zenon, <1>1, <1>2, <2>1 DEF CleanInv, Kept
    <2>2. ASSUME clean, NEW w \in writers PROVE Kept'
      <3>1. w \in Workers /\ IsWriting(h[w]) /\ WriterOK(h[w])
        BY <1>2, <2>2 DEF TypeInv, CleanInv
      <3>2. CASE h[w].pc \in Changing \cup {"stat", "unlink", "backup", "create"}
        <4>1. Kept
          BY <3>1, <3>2 DEF WriterOK
        <4> QED BY Zenon, <1>1, <4>1 DEF Kept
      <3>3. CASE h[w].pc = "replace"
        <4>1. file = None /\ IF h[w].had THEN torn \/ saved = bak ELSE Kept
          BY Zenon, <3>1, <3>3 DEF WriterOK
        <4> QED BY Zenon, <1>1, <4>1 DEF Kept
      <3>4. CASE h[w].pc = "publish"
        <4>1. file = saved
          BY Zenon, <3>1, <3>4 DEF WriterOK
        <4> QED BY <1>1, <4>1 DEF Kept
      <3>5. CASE h[w].pc = "finish"
        <4>1. file = saved
          BY <3>1, <3>5 DEF WriterOK
        <4> QED BY <1>1, <4>1 DEF Kept
      <3>6. CASE h[w].pc \in {"sections", "auth"}
        <4>1. h[w].kind = "setup"
          BY Zenon, <3>1, <3>6 DEF IsWriting, Atomically, Changing
        <4>2. InSections(w)
          BY Zenon, <3>6, <4>1 DEF InSections, At
        <4> QED BY Zenon, <3>1, <4>2 DEF Kept
      <3> QED BY Zenon, <3>1, <3>2, <3>3, <3>4, <3>5, <3>6 DEF IsWriting, Atomically, Changing, SettingUp
    <2> QED BY <2>1, <2>2
  <1>10. CleanInv'
    BY Zenon, <1>1, <1>7, <1>8, <1>9 DEF CleanInv
  <1> QED BY Zenon, <1>6, <1>10

\* What the file, the memory and the requests have in common.
Filed == <<h, config, setupDone, file, bak, saved, writers, clean, killed, torn>>

LEMMA SameFiles == ASSUME ConsoleInv, UNCHANGED Filed PROVE TypeInv' /\ CleanInv'
  <1>1. Agree' = Agree /\ Kept' = Kept /\ Current' = Current
    BY DEF Filed, Agree, Kept, Current, Load
  <1>2. \A w \in Workers : h'[w] = h[w]
    BY Zenon DEF Filed
  <1>3. TypeInv'
    BY DEF ConsoleInv, TypeInv, Filed
  <1>4. \A w \in Workers : WriterOK(h[w])' = WriterOK(h[w])
    BY <1>1, <1>2 DEF WriterOK, Filed
  <1>5. CleanInv'
    BY Zenon, <1>1, <1>4 DEF ConsoleInv, TypeInv, CleanInv, Filed
  <1> QED BY Zenon, <1>3, <1>5

LEMMA FileStep == ASSUME ConsoleInv, [Next]_vars PROVE TypeInv' /\ CleanInv'
  <1>1. CASE (\E w \in Workers : Handle(w) \/ \E kind \in Kinds : Request(w, kind)) /\ Noted
    BY Zenon, <1>1, HandleStep, RequestStep
  <1>2. CASE (Tick \/ Publication \/ evictIdle) /\ UNCHANGED <<ghosts, live>>
    BY Zenon, <1>2, SameFiles DEF Tick, Publication, evictIdle, ghosts, mem, disk, Filed
  <1>3. CASE LiveNext /\ UNCHANGED console
    BY Zenon, <1>3, SameFiles DEF console, ghosts, mem, disk, Filed
  <1>4. CASE /\ Crash \/ RestartSelf
             /\ killed' = (killed \/ writers # {}) /\ torn' = (torn \/ \E w \in Workers : InSections(w))
             /\ UNCHANGED clean
    BY Zenon, <1>4, StartStep
  <1>5. CASE UNCHANGED vars
    BY Zenon, <1>5, SameFiles DEF vars, console, ghosts, mem, disk, Filed
  <1> QED BY Zenon, <1>1, <1>2, <1>3, <1>4, <1>5 DEF Next, Noted

-----------------------------------------------------------------------------
(* Updates.                                                                   *)

\* Let in by the limiter, and the password not yet compared.
\* No goroutine but w goes on, and w is not about to download.
Elsewhere(w) ==
    \A u \in Workers : h'[u] = h[u] \/ (u = w /\ h'[u].pc # "download")

LEMMA DoneElsewhere == ASSUME TypeInv, NEW w \in Workers, Done(w) PROVE Elsewhere(w)
  <1>1. \A u \in Workers : h'[u] = IF u = w THEN Idle ELSE h[u]
    BY Zenon DEF Done, TypeInv
  <1> QED BY Zenon, <1>1, IdleIs DEF Elsewhere

LEMMA TurnElsewhere ==
  ASSUME TypeInv, NEW w \in Workers, NEW pc, NEW data, NEW had, Becomes(w, pc, data, had),
         pc # "download"
  PROVE  Elsewhere(w)
  <1>1. \A u \in Workers \ {w} : h'[u] = h[u]
    BY DEF Becomes, TypeInv
  <1> QED BY Zenon, <1>1 DEF Elsewhere, Becomes

LEMMA ToElsewhere ==
  ASSUME TypeInv, NEW w \in Workers, NEW pc, pc # "download", To(w, pc) PROVE Elsewhere(w)
  BY ToBecomes, TurnElsewhere

LEMMA WriteElsewhere == ASSUME TypeInv, NEW w \in Workers, NEW data, Write(w, data) PROVE Elsewhere(w)
  BY WriteBecomes, TurnElsewhere

\* Of the handlers' steps only those of an update concern it.
LEMMA OtherSteps ==
  ASSUME TypeInv, NEW w \in Workers, Handle(w), ~handleApplyUpdate(w) PROVE Elsewhere(w) /\ UNCHANGED <<exe, running, release>>
  <1>1. CASE Login(w)
    <2>1. UNCHANGED <<exe, running, release>>
      BY <1>1 DEF Login, LoginAllow, LoginRead, LoginVerify, update
    <2>2. CASE h' = [h EXCEPT ![w].pc = "verify", ![w].data = config.hash]
      <3>1. [h EXCEPT ![w].pc = "verify", ![w].data = config.hash]
              = [h EXCEPT ![w] = Turned(w, "verify", config.hash, h[w].had)]
        BY Zenon, TurnsData
      <3>2. h' = [h EXCEPT ![w] = Turned(w, "verify", config.hash, h[w].had)]
        BY <2>2, <3>1, Zenon
      <3>3. Becomes(w, "verify", config.hash, h[w].had)
        BY Zenon, <3>2, Fields
      <3> QED BY <1>1, <2>1, <3>3, TurnElsewhere
    <2> QED BY Zenon, <1>1, <2>1, <2>2, DoneElsewhere, ToElsewhere DEF Login, LoginAllow, LoginRead, LoginVerify
  <1>2. CASE requireAuth(w, "check")
    BY Zenon, <1>2, DoneElsewhere, ToElsewhere DEF requireAuth, update
  <1>3. CASE Stat(w)
    <2>1. UNCHANGED <<exe, running, release>>
      BY <1>3 DEF Stat, update
    <2>2. CASE Done(w)
      BY <2>1, <2>2, DoneElsewhere
    <2>3. CASE h' = [h EXCEPT ![w].had = file # None, ![w].pc = IF file # None THEN "unlink" ELSE "replace"]
      <3> DEFINE had == file # None
                 pc == IF file # None THEN "unlink" ELSE "replace"
      <3>1. h' = [h EXCEPT ![w].had = had, ![w].pc = pc] /\ pc # "download"
        BY <2>3
      <3> HIDE DEF had, pc
      <3>2. [h EXCEPT ![w].had = had, ![w].pc = pc] = [h EXCEPT ![w] = Turned(w, pc, h[w].data, had)]
        BY ZenonT(40), TurnsHad
      <3>3. h' = [h EXCEPT ![w] = Turned(w, pc, h[w].data, had)]
        BY <3>1, <3>2, Zenon
      <3> QED BY Zenon, <2>1, <3>1, <3>3, Fields, TurnElsewhere
    <2> QED BY <1>3, <2>2, <2>3 DEF Stat, WriteFails
  <1>4. CASE Unlink(w) \/ Backup(w) \/ Replace(w) \/ Publish(w)
    BY Zenon, <1>4, DoneElsewhere, ToElsewhere DEF Unlink, Backup, Replace, Publish, WriteFails, update
  <1>5. CASE handleChangePassword(w)
    BY <1>5, DoneElsewhere, ToElsewhere, WriteElsewhere
       DEF handleChangePassword, ChangeCheck, ChangeRotate, ChangeSet, ChangeLoad, WriteFails, update
  <1>6. CASE SaveCheck(w) \/ LayoutLoad(w)
    BY <1>6, DoneElsewhere, WriteElsewhere DEF SaveCheck, LayoutLoad, update
  <1>7. CASE handleSetupComplete(w)
    BY <1>7, DoneElsewhere, ToElsewhere
       DEF handleSetupComplete, SetupStart, SetupExists, SetupCreate, SetupSections, SetupAuth, SetupFinish, update
  <1> QED BY Zenon, <1>1, <1>2, <1>3, <1>4, <1>5, <1>6, <1>7 DEF Handle, writeFileAtomically

\* Updates under way have what they had, if nothing is installed.
LEMMA SameUpdates ==
  ASSUME UpdateInv, NEW w \in Workers, Elsewhere(w), UNCHANGED <<exe, running, release>> PROVE UpdateInv'
  <1>1. \A u \in Workers : At(u, "update", "download")' => At(u, "update", "download") /\ h'[u] = h[u]
    BY DEF Elsewhere, At
  <1> QED BY Zenon, <1>1 DEF UpdateInv, Published

LEMMA ApplyStep == ASSUME TypeInv, UpdateInv, NEW w \in Workers, handleApplyUpdate(w) PROVE UpdateInv'
  <1>1. CASE UpdateCheck(w)
    BY <1>1, DoneElsewhere, ToElsewhere, SameUpdates DEF UpdateCheck, update
  <1>2. CASE UpdateAssets(w)
    <2>1. UNCHANGED <<exe, running, release>>
      BY <1>2 DEF UpdateAssets, update
    <2>2. CASE Done(w)
      BY Zenon, <2>1, <2>2, DoneElsewhere, SameUpdates
    <2>3. CASE h' = [h EXCEPT ![w].pc = "download", ![w].data = findAssetURLWithChecksums]
      <3> DEFINE binary == findAssetURLWithChecksums
      <3>1. Published(binary)
        <4>1. binary \in [release : Nat, whole : {TRUE}] /\ binary.release = release
          BY Zenon DEF findAssetURLWithChecksums, UpdateInv
        <4>2. exe.release \in Nat /\ running \in Nat /\ release \in Nat /\ running <= exe.release /\ exe.release <= release
          BY DEF UpdateInv, Published
        <4>3. running <= release /\ release <= release
          BY <4>2
        <4> HIDE DEF binary
        <4> QED BY Zenon, <4>1, <4>3 DEF Published
      <3> HIDE DEF binary
      <3>2. [h EXCEPT ![w].pc = "download", ![w].data = binary] = [h EXCEPT ![w] = Turned(w, "download", binary, h[w].had)]
        BY Zenon, TurnsData
      <3>3. h' = [h EXCEPT ![w] = Turned(w, "download", binary, h[w].had)]
        BY <2>3, <3>2, Zenon DEF binary
      <3>4. h'[w].data = binary /\ \A u \in Workers \ {w} : h'[u] = h[u]
        BY Zenon, <3>3, Fields DEF Becomes, TypeInv
      <3>5. \A u \in Workers \ {w} : At(u, "update", "download")' = At(u, "update", "download")
        BY <3>4 DEF At
      <3>6. Published(exe)' /\ Published(h[w].data)'
        BY Zenon, <2>1, <3>1, <3>4 DEF UpdateInv, Published
      <3>7. \A u \in Workers \ {w} : Published(h[u].data) => Published(h[u].data)'
        BY Zenon, <2>1, <3>4 DEF Published
      <3> QED BY <2>1, <3>5, <3>6, <3>7 DEF UpdateInv
    <2> QED BY <1>2, <2>2, <2>3 DEF UpdateAssets
  <1>3. CASE UpdateDownload(w)
    <2>1. Done(w) /\ UNCHANGED <<running, release>> /\ (exe' = h[w].data \/ exe' = exe) /\ At(w, "update", "download")
      BY Zenon, <1>3 DEF UpdateDownload
    <2>2. \A u \in Workers : At(u, "update", "download")' => At(u, "update", "download") /\ h'[u] = h[u]
      BY Zenon, <2>1, DoneElsewhere DEF Elsewhere, At
    <2> QED BY Zenon, <2>1, <2>2 DEF UpdateInv, Published
  <1> QED BY <1>1, <1>2, <1>3 DEF handleApplyUpdate

LEMMA ReleaseStep == ASSUME ConsoleInv, [Next]_vars PROVE UpdateInv'
  <1>1. TypeInv /\ UpdateInv
    BY DEF ConsoleInv
  <1>2. ASSUME NEW w \in Workers, Handle(w) PROVE UpdateInv'
    BY Zenon, <1>1, <1>2, OtherSteps, ApplyStep, SameUpdates
  <1>3. ASSUME NEW w \in Workers, NEW kind \in Kinds, Request(w, kind) PROVE UpdateInv'
    <2>1. PICK arg : h' = [h EXCEPT ![w] = [Idle EXCEPT !.pc = "start", !.kind = kind, !.arg = arg]]
      BY Zenon, <1>3 DEF Request
    <2> DEFINE r == [Idle EXCEPT !.pc = "start", !.kind = kind, !.arg = arg]
    <2>2. r.pc = "start"
      BY IdleIs DEF ReqOK
    <2> HIDE DEF r
    <2>3. h' = [h EXCEPT ![w] = r]
      BY Zenon, <2>1 DEF r
    <2>4. Elsewhere(w)
      BY <1>1, <2>2, <2>3 DEF Elsewhere, TypeInv
    <2> QED BY Zenon, <1>1, <1>3, <2>4, SameUpdates DEF Request, update
  <1>4. CASE Crash \/ RestartSelf
    <2>1. h' = [w \in Workers |-> Idle] /\ running' = exe.release /\ UNCHANGED <<exe, release>>
      BY Zenon, <1>4 DEF Crash, RestartSelf, Start
    <2>2. \A u \in Workers : ~At(u, "update", "download")'
      BY <2>1, IdleIs DEF At
    <2>3. exe \in [release : Nat, whole : {TRUE}] /\ exe.release <= release /\ release \in Nat
      BY Zenon, <1>1 DEF UpdateInv, Published
    <2>4. exe.release \in Nat
      BY <2>3
    <2>5. exe.release <= exe.release
      BY <2>4
    <2>6. running' \in Nat /\ Published(exe)'
      BY Zenon, <2>1, <2>3, <2>4, <2>5 DEF Published
    <2> QED BY Zenon, <2>1, <2>2, <2>3, <2>6 DEF UpdateInv
  <1>5. CASE Publication
    <2>1. UNCHANGED <<h, exe, running>> /\ release' = release + 1
      BY Zenon, <1>5 DEF Publication
    <2>2. \A u \in Workers : h'[u] = h[u] /\ At(u, "update", "download")' = At(u, "update", "download")
      BY <2>1 DEF At
    <2>3. ASSUME NEW b, Published(b) PROVE b \in [release : Nat, whole : {TRUE}] /\ running <= b.release /\ b.release <= release'
      <3>1. b.release \in Nat /\ b.release <= release /\ release \in Nat
        BY <1>1, <2>3 DEF Published, UpdateInv
      <3>2. b.release <= release + 1
        BY <3>1
      <3> QED BY Zenon, <2>1, <2>3, <3>2 DEF Published
    <2>4. Published(exe)' /\ \A u \in Workers : Published(h[u].data) => Published(h[u].data)'
      BY Zenon, <1>1, <2>1, <2>2, <2>3 DEF UpdateInv, Published
    <2> QED BY <1>1, <2>1, <2>2, <2>4 DEF UpdateInv
  <1>6. CASE UNCHANGED <<h, exe, running, release>>
    <2>1. \A u \in Workers : h'[u] = h[u] /\ At(u, "update", "download")' = At(u, "update", "download")
      BY <1>6 DEF At
    <2> QED BY Zenon, <1>1, <1>6, <2>1 DEF UpdateInv, Published
  <1> QED BY Zenon, <1>2, <1>3, <1>4, <1>5, <1>6 DEF Next, Tick, evictIdle, vars, console, update

-----------------------------------------------------------------------------
(* What holds of every behaviour.                                             *)

LEMMA StartsInvariant == ASSUME Init PROVE ConsoleInv
  <1>1. /\ h = [w \in Workers |-> Idle] /\ file \in Configs \cup {None} /\ bak = None /\ saved = file /\ config = Load
        /\ setupDone \in BOOLEAN /\ writers = {} /\ clean = TRUE /\ killed = FALSE /\ torn = FALSE
    BY Zenon, ConsoleAssumption DEF Init
  <1>2. config \in Configs
    BY Zenon, <1>1, DefaultIs DEF Load
  <1>3. h = [w \in Workers |-> h[w]] /\ \A w \in Workers : ReqOK(h[w]) /\ ~IsWriting(h[w]) /\ h[w].pc = "idle"
    BY <1>1, IdleIs
  <1>4. TypeInv
    BY Zenon, <1>1, <1>2, <1>3 DEF TypeInv
  <1>5. CleanInv
    BY Zenon, <1>1 DEF CleanInv, Agree, Kept, Current
  <1>6. UpdateInv
    <2>1. exe = [release |-> 1, whole |-> TRUE] /\ running = 1 /\ release = 1
      BY DEF Init
    <2>2. Published(exe)
      BY <2>1 DEF Published
    <2> QED BY Zenon, <1>3, <2>1, <2>2 DEF UpdateInv, At
  <1> QED BY Zenon, <1>4, <1>5, <1>6 DEF ConsoleInv

LEMMA Invariant == Spec => []ConsoleInv
  <1>1. Init => ConsoleInv
    BY StartsInvariant
  <1>2. ConsoleInv /\ [Next]_vars => ConsoleInv'
    BY FileStep, ReleaseStep DEF ConsoleInv
  <1> QED BY <1>1, <1>2, PTL DEF Spec

\* While no two writers overlap, whatever file operation fails and wherever the
\* process dies: what was last reported saved is in the file once no write is
\* under way, in the file or its .bak in the middle of one, and s.config is what
\* the file holds (writeFileAtomically and the handlers that call it).
THEOREM SavedConfigIsKept == Spec => []SavedIsKept
  <1>1. ConsoleInv => SavedIsKept
    <2> SUFFICES ASSUME ConsoleInv, clean PROVE SavedIsKept
      BY DEF SavedIsKept
    <2>1. TypeInv /\ CleanInv
      BY DEF ConsoleInv
    <2>2. writers = {} => Agree /\ Kept /\ Current
      BY <2>1 DEF CleanInv
    <2>3. writers = {} /\ ~killed => file = saved
      BY <2>2 DEF Current
    <2>4. writers = {} /\ setupDone = (config.hash # None) => config = Load
      BY Zenon, <2>1, <2>2 DEF Agree, TypeInv
    <2>5. Kept /\ ~torn => saved \in {None, Default, file, bak}
      BY Zenon DEF Kept
    <2>6. ASSUME NEW w \in writers, ~torn PROVE saved \in {None, Default, file, bak}
      <3>1. IsWriting(h[w]) /\ WriterOK(h[w])
        BY Zenon, <2>1, <2>6 DEF TypeInv, CleanInv
      <3>2. CASE h[w].pc \in Changing \cup {"stat", "unlink", "backup", "create"}
        BY Zenon, <2>5, <2>6, <3>1, <3>2 DEF WriterOK
      <3>3. CASE h[w].pc = "replace"
        BY Zenon, <2>5, <2>6, <3>1, <3>3 DEF WriterOK
      <3>4. CASE h[w].pc \in {"publish", "finish"}
        BY Zenon, <3>1, <3>4 DEF WriterOK
      <3>5. CASE h[w].pc \in {"sections", "auth"}
        BY <2>6, <3>1, <3>5 DEF WriterOK
      <3> QED BY Zenon, <3>1, <3>2, <3>3, <3>4, <3>5 DEF IsWriting, Atomically, Changing, SettingUp
    <2> QED BY Zenon, <2>2, <2>3, <2>4, <2>5, <2>6 DEF SavedIsKept
  <1> QED BY <1>1, Invariant, PTL

\* A running server's password changes only in a change of password that knew
\* the old one, while no two writers overlap: the editor and the layout publish
\* the hash that s.config has by then (ensurePasswordHashUnchanged).
THEOREM PasswordChanges == Spec => PasswordOnlyByChange
  <1> DEFINE Knew == \E w \in Workers : At(w, "change", "sethash") /\ h[w].arg[1] = config.hash
  <1>1. ASSUME ConsoleInv, [Next]_vars, clean', config.hash # None, config'.hash # config.hash PROVE Knew \/ Start
    <2>1. CASE (\E w \in Workers : Handle(w) \/ \E kind \in Kinds : Request(w, kind)) /\ Noted
      <3>1. PICK w \in Workers : Publish(w) \/ ChangeSet(w)
        <4>1. PICK w \in Workers : Handle(w) \/ \E kind \in Kinds : Request(w, kind)
          BY <2>1
        <4>2. Login(w) => UNCHANGED config
          BY DEF Login, LoginAllow, LoginRead, LoginVerify, mem
        <4>3. requireAuth(w, "check") \/ SaveCheck(w) \/ LayoutLoad(w) => UNCHANGED config
          BY Zenon DEF requireAuth, SaveCheck, LayoutLoad, mem
        <4>4. writeFileAtomically(w) => UNCHANGED config \/ Publish(w)
          BY DEF writeFileAtomically, Stat, Unlink, Backup, Replace, mem
        <4>5. handleChangePassword(w) => UNCHANGED config \/ ChangeSet(w)
          BY DEF handleChangePassword, ChangeCheck, ChangeRotate, ChangeLoad, mem
        <4>6. handleSetupComplete(w) => UNCHANGED config
          BY DEF handleSetupComplete, SetupStart, SetupExists, SetupCreate, SetupSections, SetupAuth, SetupFinish, mem
        <4>7. handleApplyUpdate(w) => UNCHANGED config
          BY DEF handleApplyUpdate, UpdateCheck, UpdateAssets, UpdateDownload, mem
        <4>8. \A kind \in Kinds : Request(w, kind) => UNCHANGED config
          BY DEF Request, mem
        <4> QED BY Zenon, <1>1, <4>1, <4>2, <4>3, <4>4, <4>5, <4>6, <4>7, <4>8 DEF Handle
      <3>2. IsWriting(h[w])
        BY <3>1 DEF Publish, ChangeSet, At, IsWriting, Atomically, Changing
      <3>3. clean /\ WriterOK(h[w])
        BY Zenon, <1>1, <2>1, <3>2, Writes DEF Noted
      <3>4. CASE Publish(w)
        BY Zenon, <1>1, <3>3, <3>4 DEF Publish, WriterOK, Atomically
      <3>5. CASE ChangeSet(w)
        BY <3>3, <3>5 DEF ChangeSet, At, WriterOK
      <3> QED BY Zenon, <3>1, <3>4, <3>5
    <2>2. CASE Tick \/ Publication \/ evictIdle \/ UNCHANGED console
      BY Zenon, <1>1, <2>2 DEF Tick, Publication, evictIdle, mem, console
    <2>3. CASE Crash \/ RestartSelf
      BY <2>3 DEF Crash, RestartSelf
    <2> QED BY Zenon, <1>1, <2>1, <2>2, <2>3 DEF Next, Noted, vars
  <1>2. ConsoleInv /\ [Next]_vars
          => [clean' /\ config.hash # None /\ config'.hash # config.hash => Knew \/ Start]_vars
    BY Zenon, <1>1
  <1> QED BY <1>2, Invariant, PTL DEF Spec, PasswordOnlyByChange

\* Whatever is published while an update is under way, and wherever the process
\* dies, the executable on disk is whole and not older than the process
\* (handleApplyUpdate).
THEOREM ExecutableRuns == Spec => []ExecutableIsWhole
  <1>1. ConsoleInv => ExecutableIsWhole
    <2> SUFFICES ASSUME Published(exe), running \in Nat PROVE ExecutableIsWhole
      BY DEF ConsoleInv, UpdateInv
    <2>1. exe.release \in Nat /\ exe.whole = TRUE /\ running <= exe.release
      BY Zenon DEF Published
    <2> QED BY <2>1 DEF ExecutableIsWhole
  <1> QED BY <1>1, Invariant, PTL

-----------------------------------------------------------------------------
(* The query log.                                                             *)

\* Where the j-th entry that was logged is in the ring, if it still is.
Slot(j) ==
    LET k == head - 1 - (Len(logged) - j) IN IF k >= 0 THEN k ELSE k + Capacity

RingInv ==
    /\ logged \in Seq(Nat) /\ entries \in [0 .. Capacity - 1 -> Nat] /\ head \in 0 .. Capacity - 1
    /\ count = IF Len(logged) < Capacity THEN Len(logged) ELSE Capacity
    /\ \A j \in 1 .. Len(logged) : Len(logged) - j < count => entries[Slot(j)] = logged[j]

\* The i-th entry reached the stream, or is on its way to it.
Reached(i) ==
    \/ logged[i] \in Range(stream.sent) \cup Range(stream.ch) \cup dropped
    \/ \E d \in Recorders : rec[d].id = logged[i] /\ rec[d].pc = "fan"

StreamInv ==
    /\ rec \in [Recorders -> [pc : {"idle", "top", "ring", "fan", "series"}, id : Nat, name : Names \cup {None}]]
    /\ nextID \in Nat /\ from \in Nat
    /\ stream \in [pc : {"idle", "subscribe", "stream"}, sent : Seq(Nat), ch : Seq(Nat)]
    /\ Subscribed => \A i \in from + 1 .. Len(logged) : Reached(i)

LogInv == RingInv /\ StreamInv

\* The remainder, where it is asked for.
LEMMA Around ==
  ASSUME NEW x \in Int, -Capacity <= x, x < Capacity
  PROVE  (x + Capacity) % Capacity = IF x >= 0 THEN x ELSE x + Capacity
  BY LogAssumption

LEMMA Wraps ==
  ASSUME NEW x \in 0 .. Capacity - 1
  PROVE  (x + 1) % Capacity = IF x + 1 = Capacity THEN 0 ELSE x + 1
  BY LogAssumption

\* Recent returns what was logged last.
LEMMA RecentIs ==
  ASSUME RingInv, NEW n \in Nat, NEW m, m = IF n > count THEN count ELSE n
  PROVE  /\ m \in 0 .. Len(logged) /\ m <= Capacity
         /\ Recent(n) \in Seq(Nat) /\ Len(Recent(n)) = m
         /\ \A i \in 1 .. m : Recent(n)[i] = logged[Len(logged) - m + i]
  <1> DEFINE at(i) == (head - m + i - 1 + Capacity) % Capacity
  <1>1. Len(logged) \in Nat /\ Capacity \in Nat \ {0} /\ head \in 0 .. Capacity - 1
    BY LogAssumption DEF RingInv
  <1>2. m \in 0 .. Len(logged) /\ m <= Capacity /\ m <= count /\ count \in Nat
    BY <1>1 DEF RingInv
  <1>3. Recent(n) = [i \in 1 .. m |-> entries[at(i)]]
    BY Zenon DEF Recent
  <1>4. ASSUME NEW i \in 1 .. m PROVE at(i) \in 0 .. Capacity - 1 /\ entries[at(i)] = logged[Len(logged) - m + i]
    <2> DEFINE j == Len(logged) - m + i
               k == head - m + i - 1
    <2>1. j \in 1 .. Len(logged) /\ Len(logged) - j < count /\ k = head - 1 - (Len(logged) - j)
      BY <1>1, <1>2, <1>4
    <2>2. k \in Int /\ -Capacity <= k /\ k < Capacity /\ at(i) = (k + Capacity) % Capacity
      BY <1>1, <1>2, <1>4
    <2>3. (k + Capacity) % Capacity = IF k >= 0 THEN k ELSE k + Capacity
      BY <2>2, Around
    <2> HIDE DEF k, at
    <2>4. at(i) = Slot(j)
      BY Zenon, <2>1, <2>2, <2>3 DEF Slot
    <2>5. at(i) \in 0 .. Capacity - 1
      BY <1>1, <2>2, <2>3
    <2> HIDE DEF j
    <2>6. entries[Slot(j)] = logged[j]
      BY Zenon, <2>1 DEF RingInv
    <2> QED BY Zenon, <2>4, <2>5, <2>6 DEF j
  <1> HIDE DEF at
  <1>5. \A i \in 1 .. m : entries[at(i)] \in Nat
    BY Zenon, <1>4 DEF RingInv
  <1>6. Recent(n) \in Seq(Nat) /\ Len(Recent(n)) = m
    BY <1>2, <1>3, <1>5
  <1> QED BY Zenon, <1>2, <1>3, <1>4, <1>6

\* An entry goes into the ring.
LEMMA RingStep == ASSUME LogInv, NEW d \in Recorders, RecordRing(d) PROVE RingInv'
  <1> DEFINE L == Len(logged)
             id == rec[d].id
  <1>1. /\ L \in Nat /\ Capacity \in Nat \ {0} /\ head \in 0 .. Capacity - 1 /\ id \in Nat /\ logged \in Seq(Nat)
        /\ entries \in [0 .. Capacity - 1 -> Nat] /\ count \in Nat
    BY LogAssumption DEF LogInv, RingInv, StreamInv
  <1>2. entries' = [entries EXCEPT ![head] = id] /\ logged' = Append(logged, id)
    BY DEF RecordRing
  <1>3. head' = IF head + 1 = Capacity THEN 0 ELSE head + 1
    BY Zenon, <1>1, Wraps DEF RecordRing
  <1> HIDE DEF id
  <1>4. /\ logged' \in Seq(Nat) /\ Len(logged') = L + 1 /\ logged'[L + 1] = id /\ \A j \in 1 .. L : logged'[j] = logged[j]
    BY <1>1, <1>2
  <1>5. entries' \in [0 .. Capacity - 1 -> Nat] /\ head' \in 0 .. Capacity - 1
    BY <1>1, <1>2, <1>3
  <1>6. count' = (IF L + 1 < Capacity THEN L + 1 ELSE Capacity) /\ count = (IF L < Capacity THEN L ELSE Capacity)
    BY <1>1 DEF RecordRing, LogInv, RingInv
  <1> HIDE DEF L
  <1>7. ASSUME NEW j \in 1 .. L + 1, L + 1 - j < count' PROVE entries'[Slot(j)'] = logged'[j]
    <2>1. Slot(j)' = LET k == head' - 1 - (L + 1 - j) IN IF k >= 0 THEN k ELSE k + Capacity
      BY <1>4 DEF Slot, L
    <2>2. CASE j = L + 1
      <3>1. Slot(j)' = head
        BY <1>1, <1>3, <2>1, <2>2
      <3> QED BY Zenon, <1>1, <1>2, <1>4, <2>2, <3>1
    <2>3. CASE j # L + 1
      <3>1. j \in 1 .. L /\ L - j < count /\ L - j < Capacity - 1
        <4>1. j \in 1 .. L /\ j \in Int /\ L \in Nat
          BY <1>1, <1>7, <2>3
        <4>2. CASE L + 1 < Capacity
          BY <1>1, <1>6, <1>7, <4>1, <4>2
        <4>3. CASE ~(L + 1 < Capacity)
          BY <1>1, <1>6, <1>7, <4>1, <4>3
        <4> QED BY Zenon, <4>2, <4>3
      <3>2. Slot(j) = LET k == head - 1 - (L - j) IN IF k >= 0 THEN k ELSE k + Capacity
        BY Zenon DEF Slot, L
      <3>3. Slot(j)' = Slot(j) /\ Slot(j) # head /\ Slot(j) \in 0 .. Capacity - 1
        <4> DEFINE k == head - 1 - (L - j)
        <4>1. L \in Int /\ j \in Int /\ Capacity \in Int /\ head \in Int /\ 0 <= head /\ head < Capacity /\ 0 <= L - j
          BY <1>1, <3>1
        <4>2. k \in Int /\ -Capacity < k /\ k < head /\ k + Capacity > head /\ Slot(j) = IF k >= 0 THEN k ELSE k + Capacity
          BY <3>1, <3>2, <4>1
        <4>3. CASE head + 1 = Capacity
          <5>1. head' - 1 - (L + 1 - j) = k - Capacity /\ k >= 0 /\ k - Capacity < 0 /\ (k - Capacity) + Capacity = k
            BY <1>3, <3>1, <4>1, <4>3
          <5> HIDE DEF k
          <5>2. Slot(j)' = k /\ Slot(j) = k
            BY <2>1, <4>1, <4>2, <5>1
          <5> QED BY <4>1, <4>2, <5>1, <5>2
        <4>4. CASE head + 1 # Capacity
          <5>1. head' - 1 - (L + 1 - j) = k
            BY <1>3, <4>1, <4>4
          <5> HIDE DEF k
          <5>2. Slot(j)' = Slot(j)
            BY <2>1, <4>2, <5>1
          <5> QED BY <4>1, <4>2, <5>2
        <4> QED BY Zenon, <4>3, <4>4
      <3>4. entries[Slot(j)] = logged[j]
        BY <3>1 DEF LogInv, RingInv, L
      <3> QED BY Zenon, <1>1, <1>2, <1>4, <3>1, <3>3, <3>4
    <2> QED BY Zenon, <2>2, <2>3
  <1>8. \A j \in 1 .. Len(logged') : Len(logged') - j < count' => entries'[Slot(j)'] = logged'[j]
    <2>1. \A j \in 1 .. L + 1 : L + 1 - j < count' => entries'[Slot(j)'] = logged'[j]
      BY Zenon, <1>7
    <2>2. Len(logged') = L + 1
      BY Zenon, <1>4
    <2> SUFFICES ASSUME NEW j \in 1 .. Len(logged'), Len(logged') - j < count' PROVE entries'[Slot(j)'] = logged'[j]
      BY Zenon
    <2>3. j \in 1 .. L + 1 /\ L + 1 - j < count'
      BY <1>1, <2>2
    <2> QED BY Zenon, <2>1, <2>3
  <1>9. count' = IF Len(logged') < Capacity THEN Len(logged') ELSE Capacity
    BY Zenon, <1>4, <1>6
  <1> QED BY Zenon, <1>4, <1>5, <1>8, <1>9 DEF RingInv

\* What a stream was sent, has in its channel or lost stays so.
LEMMA StillReached ==
  ASSUME NEW i, UNCHANGED <<logged, dropped, stream>>, Reached(i),
         \A d \in Recorders : rec[d].pc = "fan" => rec'[d].pc = "fan" /\ rec'[d].id = rec[d].id
  PROVE  Reached(i)'
  BY DEF Reached

\* The goroutines go on: d at another step of RecordQuery.
LEMMA RecMoves ==
  ASSUME StreamInv, NEW d \in Recorders, NEW pc \in {"idle", "top", "ring", "fan", "series"}, rec' = [rec EXCEPT ![d].pc = pc]
  PROVE  /\ rec' \in [Recorders -> [pc : {"idle", "top", "ring", "fan", "series"}, id : Nat, name : Names \cup {None}]]
         /\ rec'[d].pc = pc /\ rec'[d].id = rec[d].id /\ \A e \in Recorders \ {d} : rec'[e] = rec[e]
  BY Zenon DEF StreamInv

\* An entry is logged; its goroutine has yet to pass it on.
LEMMA RingReaches == ASSUME LogInv, NEW d \in Recorders, RecordRing(d) PROVE StreamInv'
  <1>1. StreamInv /\ logged \in Seq(Nat) /\ rec[d].id \in Nat /\ rec[d].pc = "ring"
    BY DEF LogInv, RingInv, StreamInv, RecordRing
  <1>2. /\ rec' = [rec EXCEPT ![d].pc = "fan"] /\ logged' = Append(logged, rec[d].id)
        /\ UNCHANGED <<nextID, stream, from, dropped>>
    BY DEF RecordRing
  <1>3. /\ rec' \in [Recorders -> [pc : {"idle", "top", "ring", "fan", "series"}, id : Nat, name : Names \cup {None}]]
        /\ rec'[d].pc = "fan" /\ rec'[d].id = rec[d].id /\ \A e \in Recorders \ {d} : rec'[e] = rec[e]
    BY Zenon, <1>1, <1>2, RecMoves
  <1>4. /\ Len(logged) \in Nat /\ Len(logged') = Len(logged) + 1 /\ logged'[Len(logged) + 1] = rec[d].id
        /\ \A i \in 1 .. Len(logged) : logged'[i] = logged[i]
    BY <1>1, <1>2
  <1>5. ASSUME Subscribed', NEW i \in from' + 1 .. Len(logged') PROVE Reached(i)'
    <2>1. CASE i = Len(logged) + 1
      BY Zenon, <1>3, <1>4, <2>1 DEF Reached
    <2>2. CASE i # Len(logged) + 1
      <3>1. from \in Nat /\ from' = from /\ Subscribed
        BY Zenon, <1>1, <1>2, <1>5 DEF StreamInv, Subscribed
      <3>2. i \in from + 1 .. Len(logged) /\ i \in 1 .. Len(logged)
        BY <1>4, <1>5, <2>2, <3>1
      <3>3. Reached(i)
        BY <1>1, <3>1, <3>2 DEF StreamInv
      <3>4. logged'[i] = logged[i] /\ \A e \in Recorders : rec[e].pc = "fan" => rec'[e].pc = "fan" /\ rec'[e].id = rec[e].id
        BY Zenon, <1>1, <1>3, <1>4, <3>2
      <3> QED BY Zenon, <1>2, <3>3, <3>4 DEF Reached
    <2> QED BY <2>1, <2>2
  <1> QED BY <1>1, <1>2, <1>3, <1>5 DEF StreamInv

\* What is in a sequence that an element is put to, or taken from.
LEMMA AppendSet ==
  ASSUME NEW s \in Seq(Nat), NEW e \in Nat
  PROVE  Append(s, e) \in Seq(Nat) /\ Range(Append(s, e)) = Range(s) \cup {e}
  <1> DEFINE t == Append(s, e)
  <1>1. t \in Seq(Nat) /\ DOMAIN t = DOMAIN s \cup {Len(s) + 1} /\ t[Len(s) + 1] = e
    OBVIOUS
  <1>2. \A i \in DOMAIN s : t[i] = s[i]
    OBVIOUS
  <1> HIDE DEF t
  <1>3. Range(t) = Range(s) \cup {e}
    BY <1>1, <1>2 DEF Range
  <1> QED BY <1>1, <1>3 DEF t

LEMMA TailSet ==
  ASSUME NEW s \in Seq(Nat), s # << >>
  PROVE  Head(s) \in Nat /\ Tail(s) \in Seq(Nat) /\ Range(s) \subseteq Range(Tail(s)) \cup {Head(s)}
  <1>1. Head(s) \in Nat /\ Tail(s) \in Seq(Nat) /\ Head(s) = s[1]
    OBVIOUS
  <1>2. \A i \in DOMAIN s \ {1} : i - 1 \in DOMAIN Tail(s) /\ Tail(s)[i - 1] = s[i]
    OBVIOUS
  <1>3. \A i \in DOMAIN s : s[i] \in Range(Tail(s)) \cup {Head(s)}
    BY Zenon, <1>1, <1>2 DEF Range
  <1> QED BY Zenon, <1>1, <1>3 DEF Range

\* The goroutine passes it on, to a channel that has room or has not.
LEMMA FanReaches == ASSUME LogInv, NEW d \in Recorders, RecordFan(d) PROVE StreamInv'
  <1>1. StreamInv /\ rec[d].id \in Nat /\ stream.ch \in Seq(Nat) /\ stream.sent \in Seq(Nat)
    BY DEF LogInv, StreamInv
  <1>2. rec' = [rec EXCEPT ![d].pc = "series"] /\ UNCHANGED <<nextID, from, logged>>
    BY DEF RecordFan
  <1>3. /\ rec' \in [Recorders -> [pc : {"idle", "top", "ring", "fan", "series"}, id : Nat, name : Names \cup {None}]]
        /\ rec'[d].pc = "series" /\ rec'[d].id = rec[d].id /\ \A e \in Recorders \ {d} : rec'[e] = rec[e]
    BY Zenon, <1>1, <1>2, RecMoves
  <1>4. CASE ~Subscribed
    BY <1>1, <1>2, <1>3, <1>4 DEF RecordFan, StreamInv, Subscribed
  <1>5. CASE Subscribed
    <2>1. /\ stream' \in [pc : {"idle", "subscribe", "stream"}, sent : Seq(Nat), ch : Seq(Nat)] /\ stream'.sent = stream.sent
          /\ Range(stream.ch) \subseteq Range(stream'.ch) /\ dropped \subseteq dropped'
          /\ rec[d].id \in Range(stream'.ch) \cup dropped'
      <3>1. CASE Len(stream.ch) < Backlog
        <4>1. stream' = [stream EXCEPT !.ch = Append(@, rec[d].id)] /\ dropped' = dropped
          BY <1>5, <3>1 DEF RecordFan
        <4> DEFINE c == Append(stream.ch, rec[d].id)
        <4>2. c \in Seq(Nat) /\ Range(c) = Range(stream.ch) \cup {rec[d].id}
          BY Zenon, <1>1, AppendSet
        <4>3. stream' = [stream EXCEPT !.ch = c]
          BY <4>1
        <4> HIDE DEF c
        <4>4. stream' \in [pc : {"idle", "subscribe", "stream"}, sent : Seq(Nat), ch : Seq(Nat)] /\ stream'.sent = stream.sent /\ stream'.ch = c
          BY Zenon, <1>1, <4>2, <4>3 DEF StreamInv
        <4> QED BY Zenon, <4>1, <4>2, <4>4
      <3>2. CASE ~(Len(stream.ch) < Backlog)
        <4>1. stream' = stream /\ dropped' = dropped \cup {rec[d].id}
          BY <1>5, <3>2 DEF RecordFan
        <4> QED BY Zenon, <1>1, <4>1 DEF StreamInv
      <3> QED BY Zenon, <3>1, <3>2
    <2>2. ASSUME NEW i \in from' + 1 .. Len(logged') PROVE Reached(i)'
      <3>1. Reached(i)
        BY <1>1, <1>2, <1>5 DEF StreamInv
      <3>2. CASE logged[i] = rec[d].id
        BY <1>2, <2>1, <3>2 DEF Reached
      <3>3. CASE logged[i] # rec[d].id
        BY Zenon, <1>2, <1>3, <2>1, <3>1, <3>3 DEF Reached
      <3> QED BY <3>2, <3>3
    <2> QED BY <1>1, <1>2, <1>3, <2>1, <2>2 DEF StreamInv
  <1> QED BY Zenon, <1>4, <1>5

\* The stream's own steps.
LEMMA StreamSteps ==
  ASSUME LogInv, StreamBackfill \/ Subscribe \/ StreamWrite \/ Unsubscribe PROVE StreamInv'
  <1> DEFINE Streams == [pc : {"idle", "subscribe", "stream"}, sent : Seq(Nat), ch : Seq(Nat)]
  <1>1. StreamInv /\ RingInv /\ UNCHANGED <<rec, nextID, logged>> /\ stream \in Streams
    BY DEF LogInv, StreamInv, StreamBackfill, Subscribe, StreamWrite, Unsubscribe
  <1>2. Len(logged) \in Nat
    BY <1>1 DEF RingInv
  <1>3. CASE StreamBackfill
    <2> DEFINE r == Recent(BackfillSize)
    <2>1. r \in Seq(Nat)
      BY Zenon, <1>1, LogAssumption, RecentIs
    <2>2. stream' = [stream EXCEPT !.pc = "subscribe", !.sent = r] /\ from' = from
      BY <1>3 DEF StreamBackfill
    <2> HIDE DEF r
    <2>3. stream' \in Streams /\ stream'.pc = "subscribe"
      BY Zenon, <1>1, <2>1, <2>2
    <2> QED BY <1>1, <2>2, <2>3 DEF StreamInv, Subscribed
  <1>4. CASE Subscribe
    <2>1. stream' \in Streams /\ from' = Len(logged)
      BY Zenon, <1>1, <1>4 DEF Subscribe
    <2>2. from' + 1 .. Len(logged') = {} /\ from' \in Nat
      BY <1>1, <1>2, <2>1
    <2> QED BY <1>1, <2>1, <2>2 DEF StreamInv
  <1>5. CASE StreamWrite
    <2> DEFINE x == Head(stream.ch)
               c == Tail(stream.ch)
               t == Append(stream.sent, x)
    <2>1. stream.ch \in Seq(Nat) /\ stream.ch # << >> /\ stream.sent \in Seq(Nat) /\ Subscribed
      BY Zenon, <1>1, <1>5 DEF StreamWrite
    <2>2. x \in Nat /\ c \in Seq(Nat) /\ Range(stream.ch) \subseteq Range(c) \cup {x}
      BY Zenon, <2>1, TailSet
    <2>3. t \in Seq(Nat) /\ Range(t) = Range(stream.sent) \cup {x}
      BY <2>1, <2>2, AppendSet
    <2>4. stream' = [stream EXCEPT !.sent = t, !.ch = c] /\ UNCHANGED <<from, dropped>>
      BY <1>5 DEF StreamWrite
    <2> HIDE DEF x, c, t
    <2>5. stream' \in Streams /\ stream'.sent = t /\ stream'.ch = c
      BY Zenon, <1>1, <2>2, <2>3, <2>4
    <2>6. Range(stream.sent) \cup Range(stream.ch) \subseteq Range(stream'.sent) \cup Range(stream'.ch)
      BY <2>2, <2>3, <2>5
    <2>7. ASSUME NEW i \in from + 1 .. Len(logged) PROVE Reached(i)'
      <3>1. Reached(i)
        BY Zenon, <1>1, <2>1, <2>7 DEF StreamInv
      <3> QED BY Zenon, <1>1, <2>4, <2>6, <3>1 DEF Reached
    <2> QED BY <1>1, <2>4, <2>5, <2>7 DEF StreamInv
  <1>6. CASE Unsubscribe
    <2>1. stream' = Closed /\ from' = from
      BY Zenon, <1>6 DEF Unsubscribe
    <2>2. stream' \in Streams /\ stream'.pc = "idle"
      BY <2>1 DEF Closed
    <2> QED BY Zenon, <1>1, <2>1, <2>2 DEF StreamInv, Subscribed
  <1> QED BY <1>3, <1>4, <1>5, <1>6

\* The other steps of a goroutine, and the time series.
LEMMA AsideOfLog ==
  ASSUME LogInv, NEW d \in Recorders, RecordQuery(d) \/ Inc(d) \/ RecordSeries(d) PROVE StreamInv'
  <1> DEFINE Recs == [pc : {"idle", "top", "ring", "fan", "series"}, id : Nat, name : Names \cup {None}]
  <1>1. StreamInv /\ UNCHANGED <<stream, from, logged, dropped>> /\ rec \in [Recorders -> Recs] /\ nextID \in Nat
    BY DEF LogInv, StreamInv, RecordQuery, Inc, RecordSeries
  <1>2. rec[d].pc # "fan" /\ nextID' \in Nat
    BY <1>1 DEF RecordQuery, Inc, RecordSeries
  <1>3. rec' \in [Recorders -> Recs] /\ \A e \in Recorders \ {d} : rec'[e] = rec[e]
    <2>1. CASE RecordQuery(d)
      <3>1. PICK n \in Names : rec' = [rec EXCEPT ![d] = [pc |-> "top", id |-> nextID', name |-> n]]
        BY Zenon, <2>1 DEF RecordQuery
      <3> QED BY <1>1, <1>2, <3>1
    <2>2. CASE Inc(d)
      BY Zenon, <1>1, <2>2 DEF Inc
    <2>3. CASE RecordSeries(d)
      <3>1. rec' = [rec EXCEPT ![d] = Quiescent]
        BY <2>3 DEF RecordSeries
      <3> QED BY Zenon, <1>1, <3>1 DEF Quiescent
    <2> QED BY Zenon, <2>1, <2>2, <2>3
  <1>4. \A e \in Recorders : rec[e].pc = "fan" => rec'[e].pc = "fan" /\ rec'[e].id = rec[e].id
    BY Zenon, <1>2, <1>3
  <1>5. \A i \in from + 1 .. Len(logged) : Reached(i) => Reached(i)'
    BY Zenon, <1>1, <1>4, StillReached
  <1> QED BY Zenon, <1>1, <1>2, <1>3, <1>5 DEF StreamInv, Subscribed

LEMMA LogStarts ==
  ASSUME NEW r, NEW e, r = [d \in Recorders |-> Quiescent], e = [i \in 0 .. Capacity - 1 |-> 0]
  PROVE  /\ r \in [Recorders -> [pc : {"idle", "top", "ring", "fan", "series"}, id : Nat, name : Names \cup {None}]]
         /\ e \in [0 .. Capacity - 1 -> Nat] /\ 0 \in 0 .. Capacity - 1
         /\ Closed \in [pc : {"idle", "subscribe", "stream"}, sent : Seq(Nat), ch : Seq(Nat)] /\ Closed.pc = "idle"
         /\ << >> \in Seq(Nat) /\ Len(<< >>) = 0 /\ 0 < Capacity
  BY LogAssumption DEF Quiescent, Closed

LEMMA LogInit == ASSUME LiveInit PROVE LogInv
  <1>1. /\ rec = [d \in Recorders |-> Quiescent] /\ entries = [i \in 0 .. Capacity - 1 |-> 0]
        /\ nextID = 0 /\ head = 0 /\ count = 0 /\ logged = << >> /\ stream = Closed /\ from = 0
    BY Zenon DEF LiveInit, NewLiveData
  <1>2. Len(logged) = 0 /\ 1 .. Len(logged) = {}
    BY <1>1, LogStarts
  <1>3. RingInv
    BY <1>1, <1>2, LogStarts DEF RingInv
  <1>4. StreamInv
    BY <1>1, LogStarts DEF StreamInv, Subscribed
  <1> QED BY <1>3, <1>4 DEF LogInv

LEMMA LogReset == ASSUME LiveReset PROVE LogInv'
  <1>1. /\ rec' = [d \in Recorders |-> Quiescent] /\ entries' = [i \in 0 .. Capacity - 1 |-> 0]
        /\ nextID' = 0 /\ head' = 0 /\ count' = 0 /\ logged' = << >> /\ stream' = Closed /\ from' = 0
    BY Zenon DEF LiveReset, NewLiveData
  <1>2. Len(logged') = 0 /\ 1 .. Len(logged') = {}
    BY <1>1, LogStarts
  <1>3. RingInv'
    BY <1>1, <1>2, LogStarts DEF RingInv
  <1>4. StreamInv'
    BY Zenon, <1>1, LogStarts DEF StreamInv, Subscribed
  <1> QED BY Zenon, <1>3, <1>4 DEF LogInv

LEMMA LogStep == ASSUME LogInv, [Next]_vars PROVE LogInv'
  <1>2. ASSUME UNCHANGED <<entries, head, count, logged>> PROVE RingInv'
    BY <1>2 DEF LogInv, RingInv, Slot
  <1>1. ASSUME UNCHANGED <<rec, nextID, entries, head, count, stream, logged, from, dropped>> PROVE LogInv'
    <2>1. StreamInv'
      BY <1>1 DEF LogInv, StreamInv, Reached, Subscribed
    <2> QED BY Zenon, <1>1, <1>2, <2>1 DEF LogInv
  <1>3. ASSUME NEW d \in Recorders, RecordRing(d) PROVE LogInv'
    BY <1>3, RingStep, RingReaches DEF LogInv
  <1>4. ASSUME NEW d \in Recorders, RecordFan(d) PROVE LogInv'
    BY Zenon, <1>2, <1>4, FanReaches DEF LogInv, RecordFan
  <1>5. ASSUME NEW d \in Recorders, RecordQuery(d) \/ Inc(d) \/ RecordSeries(d) PROVE LogInv'
    BY Zenon, <1>2, <1>5, AsideOfLog DEF LogInv, RecordQuery, Inc, RecordSeries
  <1>6. ASSUME StreamBackfill \/ Subscribe \/ StreamWrite \/ Unsubscribe PROVE LogInv'
    BY Zenon, <1>2, <1>6, StreamSteps DEF LogInv, StreamBackfill, Subscribe, StreamWrite, Unsubscribe
  <1>7. CASE RecordFallback \/ SnapshotTime \/ SnapshotRotate
    BY Zenon, <1>1, <1>7 DEF RecordFallback, SnapshotTime, SnapshotRotate
  <1>8. CASE LiveNext
    BY Zenon, <1>3, <1>4, <1>5, <1>6, <1>7, <1>8 DEF LiveNext
  <1>9. CASE UNCHANGED live
    BY Zenon, <1>1, <1>9 DEF live
  <1>10. CASE Crash \/ RestartSelf
    BY <1>10, LogReset DEF Crash, RestartSelf, Start
  <1> QED BY Zenon, <1>8, <1>9, <1>10 DEF Next, vars

\* For any size of the log, and however often the ring has gone round, Recent is
\* what was logged last, in that order; and an entry that is logged after a
\* stream has subscribed reaches it unless its channel was full (QueryLog.Record,
\* Recent, Subscribe).
THEOREM QueryLogIsComplete == Spec => []LogIsComplete
  <1>1. Init => LogInv
    BY LogInit DEF Init
  <1>2. LogInv /\ [Next]_vars => LogInv'
    BY LogStep
  <1>3. LogInv => LogIsComplete
    <2> SUFFICES ASSUME LogInv PROVE LogIsComplete
      BY Zenon
    <2> DEFINE L == Len(logged)
    <2>1. L \in Nat /\ Capacity \in Nat \ {0} /\ logged \in Seq(Nat) /\ count = (IF L < Capacity THEN L ELSE Capacity) /\ RingInv
      BY LogAssumption DEF LogInv, RingInv
    <2>2. ASSUME NEW n \in 1 .. Capacity + 1
          PROVE  Recent(n) = SubSeq(logged, L - Min({n, Capacity, L}) + 1, L)
      <3> DEFINE m == IF n > count THEN count ELSE n
                 t == SubSeq(logged, L - m + 1, L)
      <3>1. n \in Nat
        BY <2>1, <2>2
      <3>2. /\ m \in 0 .. L /\ m <= Capacity /\ Recent(n) \in Seq(Nat) /\ Len(Recent(n)) = m
            /\ \A i \in 1 .. m : Recent(n)[i] = logged[L - m + i]
        BY ZenonT(40), <2>1, <3>1, RecentIs
      <3>3. m \in {n, Capacity, L} /\ \A x \in {n, Capacity, L} : m <= x
        BY <2>1, <3>1
      <3>4. \A x \in {n, Capacity, L} : x \in Nat
        BY <2>1, <3>1
      <3> HIDE DEF m, L
      <3>5. Min({n, Capacity, L}) = m
        <4>1. ASSUME NEW x \in {n, Capacity, L}, \A y \in {n, Capacity, L} : x <= y PROVE x = m
          <5>1. x \in Nat /\ m \in Nat /\ m <= x /\ x <= m
            BY Zenon, <3>3, <3>4, <4>1
          <5> QED BY <5>1
        <4> QED BY Zenon, <3>3, <4>1 DEF Min
      <3>6. ASSUME NEW i \in L - m + 1 .. L PROVE logged[i] \in Nat
        <4>1. L \in Nat /\ m \in 0 .. L
          BY Zenon, <2>1, <3>2
        <4>2. i \in 1 .. L
          BY <4>1
        <4>3. i \in 1 .. Len(logged) /\ logged \in Seq(Nat)
          BY Zenon, <2>1, <4>2 DEF L
        <4> QED BY <4>3
      <3>7. L - m + 1 \in Int /\ L \in Int
        BY <2>1, <3>2
      <3>8. /\ t \in Seq(Nat) /\ Len(t) = IF L - m + 1 <= L THEN L - (L - m + 1) + 1 ELSE 0
            /\ \A i \in 1 .. L - (L - m + 1) + 1 : t[i] = logged[L - m + 1 + i - 1]
        BY <3>6, <3>7
      <3> HIDE DEF t
      <3>9. L - (L - m + 1) + 1 = m /\ Len(t) = m /\ \A i \in 1 .. m : L - m + 1 + i - 1 = L - m + i
        BY <2>1, <3>2, <3>8
      <3>10. \A i \in 1 .. m : t[i] = Recent(n)[i]
        BY Zenon, <3>2, <3>8, <3>9
      <3>11. Recent(n) = t
        BY <3>2, <3>8, <3>9, <3>10
      <3> QED BY Zenon, <3>5, <3>11 DEF t
    <2>3. Subscribed => \A i \in from + 1 .. L : Reached(i)
      BY DEF LogInv, StreamInv
    <2> QED BY Zenon, <2>2, <2>3 DEF LogIsComplete, Reached
  <1> QED BY <1>1, <1>2, <1>3, PTL DEF Spec
=============================================================================
