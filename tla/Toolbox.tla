------------------------------- MODULE Toolbox -------------------------------
(***************************************************************************)
(* Which chats an agent reaches: the tools of its turns                    *)
(* (TelegramToolbox in integrations/telegram_tools.py), the turns and      *)
(* comments its runtime starts (core/agent_runtime.py), the chats that its *)
(* owner closed to it (core/chat_access.py) and the bot that is closed to  *)
(* every agent (core/off_limits.py).                                       *)
(*                                                                         *)
(* A call resolves its arguments one by one, each with the checks of its   *)
(* guard, and then makes its requests.  Names are usernames: between any   *)
(* two steps one may pass to another chat.  The arguments are the language *)
(* model's, hence any.  Whether Telegram then takes the request is left    *)
(* out: a call may fail at any await, which has the effect of Cancelled.   *)
(***************************************************************************)
EXTENDS ToolCatalog

CONSTANTS
  Call,
  Chat,
  User,        \* private dialogs, with SpamBot's
  Channel,
  Group,       \* supergroups: any of them may be linked to a channel
  Name, SpamName,
  SpamBot,
  Linked,      \* the channel of a discussion group, or None
  Number,      \* numbers of messages, one series for all private dialogs
  Home,        \* the dialog of each of them
  None

ASSUME ChatAssumption ==
  /\ User \subseteq Chat /\ Channel \subseteq Chat /\ Group \subseteq Chat
  /\ User \cap (Channel \cup Group) = {} /\ Channel \cap Group = {}
  /\ SpamBot \in User /\ SpamName \in Name
  /\ Linked \in [Group -> Channel \cup {None}]
  /\ Home \in [Number -> User]
  /\ None \notin Chat \cup Name

VARIABLES
  disabled,    \* settings.disabled_chats, read when the runtime is built
  knows,       \* spambot_user_id is known
  owner,       \* the chat that Telegram finds under a name
  folder,      \* the chats of a folder of the account
  timers,      \* the peers of pending timers
  call

vars == <<disabled, knows, owner, folder, timers, call>>

Place == {"idle", "resolve", "link", "request", "delete", "overwrite", "told"}

CallState ==
  [at : Place, todo : Seq(Guard), does : Deed \cup {"none"},
   asks : Chat \cup {None}, chats : SUBSET Chat, users : SUBSET Chat,
   raw : SUBSET Name, name : Name \cup {None}, numbers : SUBSET Number,
   told : SUBSET Chat, write : SUBSET Chat, knew : BOOLEAN, late : BOOLEAN]

TypeOK ==
  /\ disabled \subseteq Chat
  /\ knows \in BOOLEAN
  /\ owner \in [Name -> Chat]
  /\ folder \subseteq Chat
  /\ timers \subseteq Name
  /\ call \in [Call -> CallState]

Idle == [at |-> "idle", todo |-> <<>>, does |-> "none", asks |-> None, chats |-> {},
         users |-> {}, raw |-> {}, name |-> None, numbers |-> {}, told |-> {},
         write |-> {}, knew |-> FALSE, late |-> FALSE]

Init ==
  /\ disabled \in SUBSET (Chat \ {SpamBot})
  /\ knows = FALSE
  /\ owner \in {f \in [Name -> Chat] : f[SpamName] = SpamBot}
  /\ folder \in SUBSET Chat
  /\ timers = {}
  /\ call = [t \in Call |-> Idle]

-----------------------------------------------------------------------------
(* The rule.                                                               *)

\* A discussion group is open with its channel although it is closed itself.
Accessible(c) ==
  \/ c \notin disabled
  \/ c \in Group /\ Linked[c] # None /\ Linked[c] \notin disabled

\* allows() asks for the channel of a closed supergroup, of nothing else.
NeedsLookup(c) == c \in disabled /\ c \in Group

LinkedGroups(chats) == {g \in Group : Linked[g] \in chats}

\* What filters a list: a lookup that fails hides a chat that is accessible.
Filtered(chats, shown) ==
  /\ shown \subseteq {c \in chats : Accessible(c)}
  /\ {c \in chats : c \notin disabled} \subseteq shown

Becomes(t, c) == call' = [call EXCEPT ![t] = c]
Env == <<disabled, knows, owner>>

-----------------------------------------------------------------------------
(* Arguments.                                                              *)

\* The name n is the peer of a timer, which is kept.
Begins(t, tool, n) ==
  /\ call[t].at = "idle"
  /\ Becomes(t, [Idle EXCEPT !.at = "resolve", !.todo = tool.guards, !.does = tool.does,
                             !.name = n, !.knew = knows])

Begin(t, tool) ==
  /\ tool # TimerTurn
  /\ \E n \in Name \cup {None} :
       /\ (n # None) <=> (tool.does = "timer")
       /\ Begins(t, tool, n)
  /\ UNCHANGED <<Env, folder, timers>>

\* A due timer starts a turn in its chat.
TimerFires(t, n) ==
  /\ n \in timers
  /\ Begins(t, TimerTurn, n)
  /\ timers' = timers \ {n}
  /\ UNCHANGED <<Env, folder>>

Asks(t, guards) == call[t].at = "resolve" /\ call[t].todo # <<>> /\ Head(call[t].todo) \in guards

\* Mutant of OffLimits: the bot goes by its name only.
OffLimits_ByName(n, c) == n = SpamName

\* _resolve_peer refuses the bot by its name and, once it is known, by its number.
OffLimits(n, c) == n = SpamName \/ (knows /\ c = SpamBot)

\* The argument is the chat c.
Takes(t, c) ==
  Becomes(t, [call[t] EXCEPT !.at = "resolve", !.todo = Tail(call[t].todo), !.asks = None,
                             !.chats = call[t].chats \cup {c}])

Refused(t) == Becomes(t, Idle)

\* _ensure_chat_allowed, on the entity that was resolved.
EnsureChatAllowed(t, c) ==
  IF NeedsLookup(c) THEN Becomes(t, [call[t] EXCEPT !.at = "link", !.asks = c])
  ELSE IF c \in disabled THEN Refused(t)
  ELSE Takes(t, c)

ResolveChat(t, n) ==
  /\ call[t].name \in {n, None}
  /\ Asks(t, {"chat", "profile", "invite", "listed"})
     \/ (Asks(t, {"member"}) /\ disabled # {})
     \/ (Asks(t, {"timer"}) /\ (disabled # {} \/ knows))
  /\ Asks(t, {"profile"}) => owner[n] \notin User
  /\ ~OffLimits(n, owner[n])
  /\ EnsureChatAllowed(t, owner[n])
  /\ UNCHANGED <<Env, folder, timers>>

\* The folder of a chat that is not found, or is the bot's, is built without it.
ResolveListedSkips(t) ==
  /\ Asks(t, {"listed"})
  /\ Becomes(t, [call[t] EXCEPT !.todo = Tail(call[t].todo)])
  /\ UNCHANGED <<Env, folder, timers>>

\* get_profile asks for a user without more ado.
ResolvePeer(t, n) ==
  /\ Asks(t, {"peer", "profile"})
  /\ Asks(t, {"profile"}) => owner[n] \in User
  /\ ~OffLimits(n, owner[n])
  /\ Becomes(t, [call[t] EXCEPT !.todo = Tail(call[t].todo),
                                !.users = call[t].users \cup {owner[n]}])
  /\ UNCHANGED <<Env, folder, timers>>

\* Without a rule the name itself goes on, to be resolved by Telethon.
PassName(t, n) ==
  /\ call[t].name \in {n, None}
  /\ \/ Asks(t, {"member"}) /\ disabled = {}
     \/ Asks(t, {"timer"}) /\ disabled = {} /\ ~knows
  /\ n # SpamName
  /\ Becomes(t, [call[t] EXCEPT !.todo = Tail(call[t].todo), !.raw = {n}])
  /\ UNCHANGED <<Env, folder, timers>>

\* An invite link: wherever it leads.
FollowInvite(t, c) ==
  /\ Asks(t, {"invite"})
  /\ c \notin User
  /\ Becomes(t, [call[t] EXCEPT !.todo = <<>>, !.does = "invited", !.chats = {c}])
  /\ UNCHANGED <<Env, folder, timers>>

\* A message came in, or a channel published: the event names the chat itself.
TakeEvent(t, c) ==
  /\ \/ Asks(t, {"event"}) /\ ~(knows /\ c = SpamBot)
     \/ Asks(t, {"post"}) /\ c \in Channel
  /\ EnsureChatAllowed(t, c)
  /\ UNCHANGED <<Env, folder, timers>>

LinkFound(t) ==
  /\ call[t].at = "link"
  /\ IF Accessible(call[t].asks) THEN Takes(t, call[t].asks) ELSE Refused(t)
  /\ UNCHANGED <<Env, folder, timers>>

\* A failing lookup refuses, and so does anything else that fails.
Cancelled(t) ==
  /\ call[t].at # "idle"
  /\ Refused(t)
  /\ UNCHANGED <<Env, folder, timers>>

Resolved(t) ==
  /\ call[t].at = "resolve" /\ call[t].todo = <<>>
  /\ Becomes(t, [call[t] EXCEPT !.at = "request"])
  /\ UNCHANGED <<Env, folder, timers>>

-----------------------------------------------------------------------------
(* Deeds.                                                                  *)

Does(t, deeds) == call[t].at = "request" /\ call[t].does \in deeds

\* Telethon resolves a name that went on; a user has no members.
TelethonResolves(t, n) ==
  /\ Does(t, {"members", "send"})
  /\ n \in call[t].raw
  /\ IF call[t].does = "members" /\ owner[n] \in User THEN Refused(t)
     ELSE Becomes(t, [call[t] EXCEPT !.raw = {}, !.chats = {owner[n]}])
  /\ UNCHANGED <<Env, folder, timers>>

Answered(t) ==
  /\ Does(t, Deed \ {"delete", "folder", "removeFolder", "timer", "dialogs", "common",
                     "folders", "profile"})
  /\ call[t].raw = {}
  /\ Becomes(t, Idle)
  /\ UNCHANGED <<Env, folder, timers>>

\* A media id that went stale: its message is read again, from the chat it was
\* once seen in, which nothing checks.
Refetch(t, c) ==
  /\ Does(t, {"media", "refetch"})
  /\ Becomes(t, [call[t] EXCEPT !.does = "refetch", !.chats = {c}])
  /\ UNCHANGED <<Env, folder, timers>>

\* Mutant of EnsureMessagesInChat: the numbers are taken as they come.
EnsureMessagesInChat_None(t, numbers) == TRUE

\* Numbers of private dialogs are read first: all must be of the dialog named.
EnsureMessagesInChat(t, numbers) ==
  call[t].chats \subseteq User => \A k \in numbers : Home[k] \in call[t].chats

DeleteMessages(t, numbers) ==
  /\ Does(t, {"delete"})
  /\ EnsureMessagesInChat(t, numbers)
  /\ Becomes(t, [call[t] EXCEPT !.at = "delete", !.numbers = numbers])
  /\ UNCHANGED <<Env, folder, timers>>

\* Mutant of VisibleDialogs: the list of Telegram as it is.
VisibleDialogs_All(dialogs, shown) == shown = dialogs

VisibleDialogs(dialogs, shown) == Filtered(dialogs, shown)

\* get_dialogs, get_common_chats and get_chat_folders.
List(t, shown) ==
  /\ \/ Does(t, {"dialogs"}) /\ VisibleDialogs(Chat, shown)
     \/ Does(t, {"common"}) /\ Filtered(Channel \cup Group, shown)
     \/ Does(t, {"folders"}) /\ Filtered(folder, shown)
  /\ Becomes(t, [call[t] EXCEPT !.at = "told", !.told = shown])
  /\ UNCHANGED <<Env, folder, timers>>

Tell(t) ==
  /\ Does(t, {"profile"})
  /\ Becomes(t, [call[t] EXCEPT !.at = "told", !.told = call[t].chats])
  /\ UNCHANGED <<Env, folder, timers>>

Told(t) ==
  /\ call[t].at = "told"
  /\ Becomes(t, Idle)
  /\ UNCHANGED <<Env, folder, timers>>

\* Mutant of SetWakeupTimer: the timer keeps the chat that was checked.
SetWakeupTimer_Chat(t) ==
  /\ Does(t, {"timer"})
  /\ timers' = timers \cup call[t].chats
  /\ Becomes(t, Idle)
  /\ UNCHANGED <<Env, folder>>

\* The timer keeps the name, not the chat that was checked.
SetWakeupTimer(t) ==
  /\ Does(t, {"timer"})
  /\ timers' = timers \cup {call[t].name}
  /\ Becomes(t, Idle)
  /\ UNCHANGED <<Env, folder>>

-----------------------------------------------------------------------------
(* Folders: an update replaces the whole folder.                           *)

\* Mutant of HiddenPeers: what the agent does not see is not kept.
HiddenPeers_Lost(hidden) == hidden = {}

\* What a lookup that fails hides is kept as well.
HiddenPeers(hidden) == hidden \subseteq folder /\ Filtered(folder, folder \ hidden)

ReadFolder(t, hidden) ==
  /\ Does(t, {"folder"})
  /\ IF disabled = {} THEN hidden = {} ELSE HiddenPeers(hidden)
  /\ Becomes(t, [call[t] EXCEPT !.at = "overwrite", !.write = call[t].chats \cup hidden])
  /\ UNCHANGED <<Env, folder, timers>>

Hidden == {c \in folder : ~Accessible(c)}

\* Those that have read the folder do not know of the change.
Unread(calls) == [t \in Call |-> IF t \in calls /\ call[t].at = "overwrite"
                                THEN [call[t] EXCEPT !.late = TRUE] ELSE call[t]]

UpdateFolder(t) ==
  /\ call[t].at = "overwrite"
  /\ folder' = call[t].write
  /\ call' = [Unread(IF call[t].late THEN Call ELSE {}) EXCEPT ![t] = Idle]
  /\ UNCHANGED <<Env, timers>>

DeleteFolder(t) ==
  /\ Does(t, {"removeFolder"})
  /\ folder' = {}
  /\ call' = [Unread(Call) EXCEPT ![t] = Idle]
  /\ UNCHANGED <<Env, timers>>

-----------------------------------------------------------------------------
(* The others.                                                             *)

\* _remember_spambot_id, before the first check of the account.
RememberSpambotId ==
  /\ knows' = TRUE
  /\ UNCHANGED <<disabled, owner, folder, timers, call>>

\* The bot's name is Telegram's own.
NameMoves(n, c) ==
  /\ n # SpamName
  /\ owner' = [owner EXCEPT ![n] = c]
  /\ UNCHANGED <<disabled, knows, folder, timers, call>>

OwnerEditsFolder(chats) ==
  /\ folder' = chats
  /\ call' = Unread(Call)
  /\ UNCHANGED <<Env, timers>>

Step(t) ==
  \/ \E tool \in Calls : Begin(t, tool)
  \/ \E n \in Name :
       \/ TimerFires(t, n)
       \/ ResolveChat(t, n) \/ ResolvePeer(t, n) \/ PassName(t, n)
       \/ TelethonResolves(t, n)
  \/ \E c \in Chat : TakeEvent(t, c) \/ FollowInvite(t, c) \/ Refetch(t, c)
  \/ \E chats \in SUBSET Chat : List(t, chats) \/ ReadFolder(t, chats)
  \/ \E numbers \in SUBSET Number : DeleteMessages(t, numbers)
  \/ ResolveListedSkips(t) \/ LinkFound(t) \/ Cancelled(t)
  \/ Resolved(t) \/ Answered(t) \/ Tell(t) \/ Told(t) \/ SetWakeupTimer(t)
  \/ UpdateFolder(t) \/ DeleteFolder(t)

Next ==
  \/ RememberSpambotId
  \/ \E n \in Name, c \in Chat : NameMoves(n, c)
  \/ \E chats \in SUBSET Chat : OwnerEditsFolder(chats)
  \/ \E t \in Call : Step(t)

Spec == Init /\ [][Next]_vars

-----------------------------------------------------------------------------
(* Properties.                                                             *)

\* The chats that a request in flight concerns: a comment goes to the group of
\* its channel, a number of a private dialog to the dialog that has it.
Touched(t) ==
  IF call[t].at = "delete"
  THEN call[t].chats \cup (IF call[t].chats \subseteq User
                           THEN {Home[k] : k \in call[t].numbers} ELSE {})
  ELSE IF call[t].at = "request" /\ call[t].raw = {}
  THEN call[t].chats \cup (IF call[t].does \in {"comment", "media", "discussion"}
                           THEN LinkedGroups(call[t].chats) ELSE {})
  ELSE {}

\* Nobody asks whether these may be touched: an invite link leads to a chat that
\* is not known yet, a media id to the message it was seen in.
Unguarded == {"invited", "refetch"}

\* What the owner closed stays closed: no request of a tool, a turn or a first
\* comment concerns a closed chat, whatever names move after they were checked
\* (_resolve_chat, _chat_target, _ensure_peer_allowed) and whichever dialog a
\* message's number belongs to (_ensure_messages_in_chat).
OnlyAccessible ==
  \A t \in Call : call[t].does \notin Unguarded => \A c \in Touched(t) : Accessible(c)

\* The agent is not told of a closed chat either: dialogs, common chats, folders
\* and the profile of a chat (_visible_dialogs, get_common_chats, get_profile).
ToldOfAccessible == \A t \in Call : \A c \in call[t].told : Accessible(c)

\* Once the bot's number is known no call that begins reaches it, by whatever
\* name or number (core/off_limits.py); its name is refused from the start.
SpamBotIsLeftAlone ==
  \A t \in Call : (call[t].knew /\ call[t].does \notin Unguarded)
    => SpamBot \notin Touched(t) \cup call[t].users

\* Rewriting a folder takes no closed chat out of it (_hidden_peers), unless the
\* folder was changed from elsewhere between the two requests.
HiddenPeersStay ==
  \A t \in Call : (call[t].at = "overwrite" /\ ~call[t].late) => Hidden \subseteq call[t].write
=============================================================================
