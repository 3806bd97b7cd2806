------------------------------ MODULE Settings ------------------------------
(***************************************************************************)
(* The configuration files of the daemon and their copies in memory:       *)
(* upstream.json, privacy.json, telegram.json and devices.json, which      *)
(* the dashboard reads from memory and replaces through handlers of        *)
(* crates/daemon/src/web.rs. One of the four is followed. A setting is the *)
(* set of entries it has and, for Telegram, a token. Requests that fail    *)
(* validation change nothing and are no actions.                           *)
(***************************************************************************)
EXTENDS Integers, FiniteSets

CONSTANTS
  Kind,       \* "upstream", "privacy", "telegram", "devices"
  Handler,    \* requests being served at the same time
  Entry,      \* what a valid setting may hold
  Bad,        \* an entry that does not parse or validate
  Token, NoToken,
  MaxSaves,   \* bound: saves of a behaviour
  MaxBoots    \* bound: starts of the process

ASSUME SettingAssumption ==
  /\ Bad \notin Entry /\ NoToken \notin Token
  /\ MaxSaves \in Nat /\ MaxBoots \in Nat \ {0}

VARIABLES
  kind,
  file,      \* content of the file; Default also stands for no file
  memory,    \* what is shown and used
  handler,   \* per request: what it does next, with what setting
  saves, starts,
  blurred    \* history: the last save met another one, was dropped by its
             \* client, or failed after its file was in place

settingVars == <<kind, file, memory, handler, saves, starts, blurred>>

Setting == [entries : SUBSET Entry, token : Token \cup {NoToken}]
Default == [entries |-> {}, token |-> NoToken]
Garbage == [entries |-> {Bad}, token |-> NoToken]

(* Every loader falls back to the defaults.                                *)
Loaded(f) == IF Bad \in f.entries THEN Default ELSE f

Waiting == [pc |-> "idle", new |-> Default]

SettingTypeOK ==
  /\ kind \in Kind
  /\ file \in Setting \cup {Garbage} /\ memory \in Setting
  /\ handler \in [Handler -> [pc : {"idle", "write", "publish"}, new : Setting]]
  /\ saves \in 0..MaxSaves /\ starts \in 1..MaxBoots /\ blurred \in BOOLEAN

SettingInit ==
  /\ kind \in Kind
  /\ file \in {Default, Garbage} /\ memory = Loaded(file)
  /\ handler = [h \in Handler |-> Waiting]
  /\ saves = 0 /\ starts = 1 /\ blurred = FALSE

-----------------------------------------------------------------------------
HandlerAt(h, pc) == handler[h].pc = pc
Become(h, pc, new) == handler' = [handler EXCEPT ![h] = [pc |-> pc, new |-> new]]
Publishing == {h \in Handler : HandlerAt(h, "publish")}

(* A setting is put together from the request. Telegram's form has no      *)
(* token unless it changes; the present one is then read from memory.      *)
SaveRequest(h, entries, token) ==
  /\ kind \in {"upstream", "privacy", "telegram"}
  /\ HandlerAt(h, "idle") /\ saves < MaxSaves /\ saves' = saves + 1
  /\ kind # "telegram" => token = NoToken
  /\ Become(h, "write", [entries |-> entries,
                         token |-> IF token = NoToken THEN memory.token ELSE token])
  /\ UNCHANGED <<kind, file, memory, starts, blurred>>

(* The file is written: before the memory, by every handler.               *)
Write(h) ==
  /\ HandlerAt(h, "write")
  /\ file' = handler[h].new
  /\ Become(h, "publish", handler[h].new)
  /\ blurred' = (Publishing # {})
  /\ UNCHANGED <<kind, memory, saves, starts>>

(* atomic_write fails: nothing is written, or the file is in place and the *)
(* directory could not be synced. The handler returns the error.           *)
WriteFails(h) ==
  /\ HandlerAt(h, "write")
  /\ \/ UNCHANGED <<file, blurred>>
     \/ file' = handler[h].new /\ blurred' = TRUE
  /\ Become(h, "idle", Default)
  /\ UNCHANGED <<kind, memory, saves, starts>>

(* The lock was waited for.                                                *)
Publish(h) ==
  /\ HandlerAt(h, "publish")
  /\ memory' = handler[h].new
  /\ Become(h, "idle", Default)
  /\ UNCHANGED <<kind, file, saves, starts, blurred>>

(* The client goes away while its handler waits.                           *)
Disconnect(h) ==
  /\ HandlerAt(h, "publish")
  /\ Become(h, "idle", Default)
  /\ blurred' = TRUE
  /\ UNCHANGED <<kind, file, memory, saves, starts>>

(* Devices are edited under the write lock, in one step for everyone else: *)
(* memory, then the file, and memory again as before if that fails.        *)
(* Seeded defect: a failure leaves the edited registry in memory.            *)
EditKept(entries) ==
  /\ kind = "devices" /\ saves < MaxSaves /\ saves' = saves + 1
  /\ entries # memory.entries
  /\ LET new == [memory EXCEPT !.entries = entries]
     IN  /\ memory' = new
         /\ \/ file' = new /\ blurred' = FALSE
            \/ UNCHANGED <<file, blurred>>
            \/ file' = new /\ blurred' = TRUE
  /\ UNCHANGED <<kind, handler, starts>>

Edit(entries) ==
  /\ kind = "devices" /\ saves < MaxSaves /\ saves' = saves + 1
  /\ entries # memory.entries
  /\ LET new == [memory EXCEPT !.entries = entries]
     IN  \/ memory' = new /\ file' = new /\ blurred' = FALSE
         \/ UNCHANGED <<memory, file, blurred>>
         \/ UNCHANGED memory /\ file' = new /\ blurred' = TRUE
  /\ UNCHANGED <<kind, handler, starts>>

(* add_device, remove_device.                                              *)
EditDevices ==
  \E e \in Entry : Edit(memory.entries \cup {e}) \/ Edit(memory.entries \ {e})

Reboot ==
  /\ starts < MaxBoots /\ starts' = starts + 1
  /\ memory' = Loaded(file)
  /\ handler' = [h \in Handler |-> Waiting]
  /\ blurred' = FALSE
  /\ UNCHANGED <<kind, file, saves>>

SettingStep ==
  \/ \E h \in Handler :
       \/ \E entries \in SUBSET Entry, token \in Token \cup {NoToken} :
            SaveRequest(h, entries, token)
       \/ Write(h) \/ WriteFails(h) \/ Publish(h) \/ Disconnect(h)
  \/ EditDevices

-----------------------------------------------------------------------------
(* What the dashboard shows and the daemon uses is what the next start     *)
(* will load, between saves: a failed save leaves both as they were. Saves *)
(* that overlap, that lose their client half way or that fail after the    *)
(* rename can part them; a start, or the next save that meets none of      *)
(* these, joins them again.                                                *)
SavedIsShown == Publishing = {} /\ ~blurred => memory = Loaded(file)
=============================================================================
