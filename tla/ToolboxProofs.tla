---------------------------- MODULE ToolboxProofs ----------------------------
(***************************************************************************)
(* Proofs about Toolbox, for any number of calls at a time and any chats.  *)
(*                                                                         *)
(* A step of a call replaces the record of that call, so the invariant is  *)
(* a conjunction over the calls (CallOK); what the calls share is the      *)
(* folder, of which Synchronous speaks.                                    *)
(***************************************************************************)
EXTENDS Toolbox, Integers, TLAPS

-----------------------------------------------------------------------------
(* The invariant.                                                          *)

\* Only a tool of members has an argument that may go on as a name.
Fits(todo, does) ==
  /\ todo \in Seq(Guard)
  /\ \A i \in 1..Len(todo) : todo[i] = "member" => does = "members"

Hides(chats) == {c \in chats : ~Accessible(c)}

\* What is about to be written hides what the folder hides.
Synchronous(c) == (c.at = "overwrite" /\ ~c.late) => Hides(c.write) = Hides(folder)

\* The chats of a call are accessible, and so is what it is told.
OpenChats(c) ==
  /\ c.does \notin Unguarded => Hides(c.chats) = {}
  /\ Hides(c.told) = {}
  /\ c.raw # {} => disabled = {}
  /\ c.at = "delete" => (c.chats \subseteq User => \A k \in c.numbers : Home[k] \in c.chats)

\* A call that knew the bot has not taken it for an argument.
NoBot(c) ==
  c.knew => /\ knows
            /\ c.asks # SpamBot
            /\ c.does \notin Unguarded => /\ SpamBot \notin c.chats \cup c.users
                                          /\ c.raw # {} => c.does = "members"

CallOK(c) ==
  /\ c \in CallState
  /\ Fits(c.todo, c.does)
  /\ c.does = "timer" => c.name \in Name
  /\ c.at = "link" => c.asks \in Chat /\ c.todo # <<>>
  /\ OpenChats(c) /\ NoBot(c) /\ Synchronous(c)

EnvOK ==
  /\ disabled \subseteq Chat
  /\ knows \in BOOLEAN
  /\ owner \in [Name -> Chat]
  /\ folder \subseteq Chat
  /\ timers \subseteq Name

IInv ==
  /\ EnvOK
  /\ call \in [Call -> CallState]
  /\ \A t \in Call : CallOK(call[t])

-----------------------------------------------------------------------------
(* The catalog.                                                            *)

Knowable(tool) == Fits(tool.guards, tool.does) /\ tool.does \in Deed

Kinds == {OnChat, OnChats, OnPeer, OnPeers, OnChatAndPeers, OnPeerAndChat, OnMember,
          Message, Comment, Media, Forward, Deletion, Discussion, Common, Profile, Join,
          Timer, Folder, Listing("dialogs"), Listing("folders"), NoFolder, OfAccount,
          OfMedia, IncomingTurn, FirstComment, TimerTurn}

\* A tool has no argument, one or two; of members only the first kind asks.
LEMMA NoArgument ==
  ASSUME NEW d \in Deed
  PROVE  Knowable(Tool(<<>>, d))
  BY DEF Knowable, Tool, Fits

LEMMA OneArgument ==
  ASSUME NEW d \in Deed, NEW g \in Guard, g = "member" => d = "members"
  PROVE  Knowable(Tool(<<g>>, d))
  BY DEF Knowable, Tool, Fits

LEMMA TwoArguments ==
  ASSUME NEW d \in Deed, NEW g \in Guard, NEW h \in Guard,
         g # "member", h # "member"
  PROVE  Knowable(Tool(<<g, h>>, d))
  BY DEF Knowable, Tool, Fits

LEMMA KindsFit == \A k \in Kinds : Knowable(k)
<1> USE DEF Guard, Deed
<1>1. Knowable(OnChat) /\ Knowable(OnPeer) /\ Knowable(OnMember)
  BY OneArgument DEF OnChat, OnPeer, OnMember
<1>2. Knowable(OnChats) /\ Knowable(OnPeers)
  BY TwoArguments DEF OnChats, OnPeers
<1>3. Knowable(OnChatAndPeers) /\ Knowable(OnPeerAndChat)
  BY TwoArguments DEF OnChatAndPeers, OnPeerAndChat
<1>4. Knowable(Message) /\ Knowable(Comment) /\ Knowable(Media)
  BY OneArgument DEF Message, Comment, Media
<1>5. Knowable(Deletion) /\ Knowable(Discussion) /\ Knowable(Common)
  BY OneArgument DEF Deletion, Discussion, Common
<1>6. Knowable(Profile) /\ Knowable(Join) /\ Knowable(Timer)
  BY OneArgument DEF Profile, Join, Timer
<1>7. Knowable(IncomingTurn) /\ Knowable(FirstComment) /\ Knowable(TimerTurn)
  BY OneArgument DEF IncomingTurn, FirstComment, TimerTurn
<1>8. Knowable(Forward) /\ Knowable(Folder)
  BY TwoArguments DEF Forward, Folder
<1>9. Knowable(Listing("dialogs")) /\ Knowable(Listing("folders"))
  BY NoArgument DEF Listing
<1>10. Knowable(NoFolder) /\ Knowable(OfAccount) /\ Knowable(OfMedia)
  BY NoArgument DEF NoFolder, OfAccount, OfMedia
<1> QED BY <1>1, <1>2, <1>3, <1>4, <1>5, <1>6, <1>7, <1>8, <1>9, <1>10 DEF Kinds

\* Every tool of the catalog is of one of these kinds.
LEMMA ToolFits == \A tool \in Calls : Knowable(tool)
<1> USE DEF Kinds
<1>1. MessageTools \subseteq Kinds
  BY DEF MessageTools, send_text_message, edit_text_message, delete_messages,
         forward_messages, pin_message, unpin_message, send_chat_action, send_reaction,
         get_message_reactions, mark_chat_as_read, get_messages, get_dialogs,
         search_messages, delete_dialog, archive_dialogs, unarchive_dialogs,
         get_common_chats
<1>2. MediaTools \subseteq Kinds
  BY DEF MediaTools, send_file, view_image, set_profile_photo, send_voice_note,
         send_video_note, get_sticker_sets, get_stickers_in_set, search_sticker_sets,
         install_sticker_set, uninstall_sticker_set, send_sticker
<1>3. ContactTools \subseteq Kinds
  BY DEF ContactTools, get_profile, update_profile_info, update_username, add_contact,
         delete_contact, get_contacts
<1>4. ChatTools \subseteq Kinds
  BY DEF ChatTools, get_chat_info, check_admin_permissions, create_group, create_channel,
         invite_to_channel, kick_chat_member, ban_chat_member, restrict_chat_member,
         promote_chat_member, get_chat_members, get_chat_admin_log, edit_chat_title,
         edit_chat_about, edit_chat_photo, update_chat_public_link,
         set_chat_default_banned_rights, toggle_chat_signatures, delete_channel,
         toggle_join_requests, toggle_join_to_send, toggle_slow_mode,
         set_discussion_group, join_channel_discussion, get_discussion_messages
<1>5. MoreChatTools \cup NoticeTools \subseteq Kinds
  BY DEF MoreChatTools, NoticeTools, toggle_forum, toggle_pre_history_hidden,
         toggle_participants_hidden, edit_chat_location, toggle_anti_spam,
         set_chat_admin_rights, set_chat_banned_rights, join_channel, send_poll,
         transcribe_voice_note, read_document_file, set_wakeup_timer, mute_chat,
         unmute_chat, send_location, send_venue, search_location
<1>6. FolderTools \cup BotTools \cup SettingTools \subseteq Kinds
  BY DEF FolderTools, BotTools, SettingTools, get_chat_folders,
         create_or_update_chat_folder, delete_chat_folder, get_message_buttons,
         click_inline_button, click_reply_keyboard_button, query_inline_bot,
         send_inline_bot_result, start_bot, get_privacy_settings, set_privacy_settings,
         get_global_settings, set_global_settings, get_content_settings,
         set_content_settings
<1> QED BY <1>1, <1>2, <1>3, <1>4, <1>5, <1>6, KindsFit DEF Calls, Tools


-----------------------------------------------------------------------------
(* One call.                                                               *)

LEMMA TailFits ==
  ASSUME NEW todo, NEW does, Fits(todo, does), todo # <<>>
  PROVE  /\ Fits(Tail(todo), does)
         /\ Head(todo) = "member" => does = "members"
<1>1. todo \in Seq(Guard) /\ Len(todo) \in Nat /\ Len(todo) >= 1
  BY DEF Fits
<1>2. Tail(todo) \in Seq(Guard) /\ Len(Tail(todo)) = Len(todo) - 1
  BY <1>1
<1>3. \A i \in 1..Len(Tail(todo)) : i + 1 \in 1..Len(todo) /\ Tail(todo)[i] = todo[i + 1]
  BY <1>1, <1>2
<1>4. Head(todo) = todo[1]
  BY <1>1
<1> QED BY <1>1, <1>2, <1>3, <1>4 DEF Fits

LEMMA IdleOK == CallOK(Idle)
<1>0. None # SpamBot
  BY ChatAssumption
<1>1. Idle \in CallState
  BY DEF Idle, CallState, Place
<1>2. Fits(Idle.todo, Idle.does)
  BY DEF Idle, Fits
<1> QED BY <1>0, <1>1, <1>2 DEF CallOK, Idle, OpenChats, NoBot, Synchronous, Hides

\* A step of a call that leaves what is shared alone keeps the invariant if the
\* call is right after it.
LEMMA Replaced ==
  ASSUME IInv, NEW t \in Call,
         \E c : CallOK(c) /\ call' = [call EXCEPT ![t] = c],
         UNCHANGED <<disabled, knows, owner, folder>>, timers' \subseteq Name
  PROVE  IInv'
<1>1. PICK c : CallOK(c) /\ call' = [call EXCEPT ![t] = c]
  OBVIOUS
<1>2. EnvOK'
  BY DEF IInv, EnvOK
<1>3. call' \in [Call -> CallState]
  BY <1>1 DEF IInv, CallOK
<1>4. ASSUME NEW u \in Call PROVE CallOK(call'[u])
  BY <1>1 DEF IInv
<1>5. ASSUME NEW u \in Call PROVE CallOK(call[u])'
  BY <1>4 DEF CallOK, OpenChats, NoBot, Synchronous, Hides, Accessible
<1> QED BY <1>2, <1>3, <1>5 DEF IInv

\* A call that is over.
LEMMA Over ==
  ASSUME IInv, NEW t \in Call, Refused(t), UNCHANGED <<disabled, knows, owner, folder>>,
         timers' \subseteq Name
  PROVE  IInv'
  BY IdleOK, Replaced DEF Refused, Becomes

\* The next argument is the chat x, which is open to the call.
LEMMA Taken ==
  ASSUME IInv, NEW t \in Call, NEW x \in Chat, Takes(t, x),
         call[t].todo # <<>>, Accessible(x), call[t].knew => x # SpamBot,
         UNCHANGED <<disabled, knows, owner, folder>>, timers' \subseteq Name
  PROVE  IInv'
<1> DEFINE c == call[t]
           d == [c EXCEPT !.at = "resolve", !.todo = Tail(c.todo), !.asks = None,
                          !.chats = c.chats \cup {x}]
<1>1. CallOK(c) /\ c \in CallState
  BY DEF IInv
<1>2. Fits(Tail(c.todo), c.does) /\ Tail(c.todo) \in Seq(Guard)
  BY <1>1, TailFits DEF CallOK, Fits
<1>3. d \in CallState
  BY <1>1, <1>2 DEF CallState, Place
<1>4. /\ d.at = "resolve" /\ d.todo = Tail(c.todo) /\ d.does = c.does /\ d.asks = None
      /\ d.chats = c.chats \cup {x} /\ d.users = c.users /\ d.raw = c.raw /\ d.name = c.name
      /\ d.told = c.told /\ d.knew = c.knew
  BY <1>1 DEF CallState
<1>5. OpenChats(d)
  BY <1>1, <1>4 DEF CallOK, OpenChats, Hides
<1>6. SpamBot # None
  BY ChatAssumption
<1>7. NoBot(d)
  BY <1>1, <1>4, <1>6 DEF CallOK, NoBot
<1>8. CallOK(d)
  BY <1>1, <1>2, <1>3, <1>4, <1>5, <1>7 DEF CallOK, Synchronous
<1> QED BY <1>8, Replaced DEF Takes, Becomes

\* An argument is checked against the list of the owner.
LEMMA Ensured ==
  ASSUME IInv, NEW t \in Call, NEW x \in Chat, EnsureChatAllowed(t, x),
         call[t].todo # <<>>, call[t].knew => x # SpamBot,
         UNCHANGED <<disabled, knows, owner, folder>>, timers' \subseteq Name
  PROVE  IInv'
<1> DEFINE c == call[t]
<1>1. CASE NeedsLookup(x)
  <2> DEFINE d == [c EXCEPT !.at = "link", !.asks = x]
  <2>1. CallOK(c) /\ c \in CallState
    BY DEF IInv
  <2>2. d \in CallState
    BY <2>1 DEF CallState, Place
  <2>3. /\ d.at = "link" /\ d.todo = c.todo /\ d.does = c.does /\ d.asks = x
        /\ d.chats = c.chats /\ d.users = c.users /\ d.raw = c.raw /\ d.name = c.name
        /\ d.told = c.told /\ d.knew = c.knew
    BY <2>1 DEF CallState
  <2>4. CallOK(d)
    BY <2>1, <2>2, <2>3 DEF CallOK, OpenChats, NoBot, Synchronous
  <2> QED BY <1>1, <2>4, Replaced DEF EnsureChatAllowed, Becomes
<1>2. CASE ~NeedsLookup(x) /\ x \in disabled
  BY <1>2, Over DEF EnsureChatAllowed
<1>3. CASE ~NeedsLookup(x) /\ x \notin disabled
  BY <1>3, Taken DEF EnsureChatAllowed, Accessible
<1> QED BY <1>1, <1>2, <1>3


-----------------------------------------------------------------------------
(* The steps of a call.                                                    *)

LEMMA BeginsStep ==
  ASSUME IInv, NEW t \in Call, NEW tool \in Calls, NEW n \in Name \cup {None},
         tool.does = "timer" => n # None,
         Begins(t, tool, n), UNCHANGED <<disabled, knows, owner, folder>>,
         timers' \subseteq Name
  PROVE  IInv'
<1> DEFINE d == [Idle EXCEPT !.at = "resolve", !.todo = tool.guards, !.does = tool.does,
                             !.name = n, !.knew = knows]
<1>1. Fits(tool.guards, tool.does) /\ tool.does \in Deed /\ tool.guards \in Seq(Guard)
  BY ToolFits DEF Knowable, Fits
<1>2. knows \in BOOLEAN
  BY DEF IInv, EnvOK
<1>3. d \in CallState
  BY <1>1, <1>2 DEF CallState, Idle, Place
<1>4. /\ d.at = "resolve" /\ d.todo = tool.guards /\ d.does = tool.does /\ d.asks = None
      /\ d.chats = {} /\ d.users = {} /\ d.raw = {} /\ d.name = n
      /\ d.told = {} /\ d.knew = knows
  BY DEF Idle
<1>5. SpamBot # None
  BY ChatAssumption
<1>6. OpenChats(d) /\ NoBot(d) /\ Synchronous(d)
  BY <1>2, <1>4, <1>5 DEF OpenChats, NoBot, Synchronous, Hides
<1>7. CallOK(d)
  BY <1>1, <1>3, <1>4, <1>6 DEF CallOK
<1> QED BY <1>7, Replaced DEF Begins, Becomes

LEMMA BeginStep ==
  ASSUME IInv, NEW t \in Call, NEW tool \in Calls, Begin(t, tool)
  PROVE  IInv'
<1>1. PICK n \in Name \cup {None} : ((n # None) <=> (tool.does = "timer")) /\ Begins(t, tool, n)
  BY DEF Begin
<1>2. UNCHANGED <<disabled, knows, owner, folder>> /\ timers' \subseteq Name
  BY DEF Begin, Env, IInv, EnvOK
<1> QED BY <1>1, <1>2, BeginsStep

LEMMA TimerFiresStep ==
  ASSUME IInv, NEW t \in Call, NEW n \in Name, TimerFires(t, n)
  PROVE  IInv'
<1>1. TimerTurn \in Calls
  BY DEF Calls
<1>2. UNCHANGED <<disabled, knows, owner, folder>> /\ timers' \subseteq Name
  BY DEF TimerFires, Env, IInv, EnvOK
<1>3. n # None
  BY ChatAssumption
<1> QED BY <1>1, <1>2, <1>3, BeginsStep DEF TimerFires

LEMMA Unshared ==
  ASSUME IInv, UNCHANGED <<Env, folder, timers>>
  PROVE  UNCHANGED <<disabled, knows, owner, folder>> /\ timers' \subseteq Name
  BY DEF IInv, EnvOK, Env

LEMMA ResolveChatStep ==
  ASSUME IInv, NEW t \in Call, NEW n \in Name, ResolveChat(t, n)
  PROVE  IInv'
<1>1. UNCHANGED <<disabled, knows, owner, folder>> /\ timers' \subseteq Name
  BY Unshared DEF ResolveChat
<1>2. call[t].todo # <<>> /\ EnsureChatAllowed(t, owner[n])
  BY DEF ResolveChat, Asks
<1>3. call[t].knew => owner[n] # SpamBot
  BY DEF ResolveChat, OffLimits, IInv, CallOK, NoBot
<1>4. owner[n] \in Chat
  BY DEF IInv, EnvOK
<1> QED BY <1>1, <1>2, <1>3, <1>4, Ensured

LEMMA TakeEventStep ==
  ASSUME IInv, NEW t \in Call, NEW x \in Chat, TakeEvent(t, x)
  PROVE  IInv'
<1>1. UNCHANGED <<disabled, knows, owner, folder>> /\ timers' \subseteq Name
  BY Unshared DEF TakeEvent
<1>2. call[t].todo # <<>> /\ EnsureChatAllowed(t, x)
  BY DEF TakeEvent, Asks
<1>3. call[t].knew => x # SpamBot
  BY ChatAssumption DEF TakeEvent, IInv, CallOK, NoBot
<1> QED BY <1>1, <1>2, <1>3, Ensured

LEMMA LinkFoundStep ==
  ASSUME IInv, NEW t \in Call, LinkFound(t)
  PROVE  IInv'
<1> DEFINE c == call[t]
<1>1. UNCHANGED <<disabled, knows, owner, folder>> /\ timers' \subseteq Name
  BY Unshared DEF LinkFound
<1>2. c.asks \in Chat /\ CallOK(c) /\ c.at = "link"
  BY DEF LinkFound, IInv, CallOK
<1>3. CASE ~Accessible(c.asks)
  BY <1>1, <1>3, Over DEF LinkFound
<1>4. CASE Accessible(c.asks)
  <2>1. Takes(t, c.asks)
    BY <1>4 DEF LinkFound
  <2>2. c.todo # <<>> /\ (c.knew => c.asks # SpamBot)
    BY <1>2 DEF CallOK, NoBot
  <2> QED BY <1>1, <1>2, <1>4, <2>1, <2>2, Taken
<1> QED BY <1>3, <1>4

\* Of one argument a user is taken, whom nothing asks about the owner's list.
LEMMA ResolvePeerStep ==
  ASSUME IInv, NEW t \in Call, NEW n \in Name, ResolvePeer(t, n)
  PROVE  IInv'
<1> DEFINE c == call[t]
           d == [c EXCEPT !.todo = Tail(c.todo), !.users = c.users \cup {owner[n]}]
<1>1. UNCHANGED <<disabled, knows, owner, folder>> /\ timers' \subseteq Name
  BY Unshared DEF ResolvePeer
<1>2. CallOK(c) /\ c \in CallState /\ c.todo # <<>> /\ c.at = "resolve"
  BY DEF ResolvePeer, Asks, IInv
<1>3. Fits(Tail(c.todo), c.does) /\ Tail(c.todo) \in Seq(Guard)
  BY <1>2, TailFits DEF CallOK, Fits
<1>4. owner[n] \in Chat
  BY DEF IInv, EnvOK
<1>5. d \in CallState
  BY <1>2, <1>3, <1>4 DEF CallState
<1>6. /\ d.at = "resolve" /\ d.todo = Tail(c.todo) /\ d.does = c.does /\ d.asks = c.asks
      /\ d.chats = c.chats /\ d.users = c.users \cup {owner[n]} /\ d.raw = c.raw
      /\ d.name = c.name /\ d.told = c.told /\ d.knew = c.knew
  BY <1>2 DEF CallState
<1>7. c.knew => owner[n] # SpamBot
  BY <1>2 DEF ResolvePeer, OffLimits, CallOK, NoBot
<1>8. CallOK(d)
  BY <1>2, <1>3, <1>5, <1>6, <1>7 DEF CallOK, OpenChats, NoBot, Synchronous
<1> QED BY <1>1, <1>8, Replaced DEF ResolvePeer, Becomes

LEMMA ResolveListedSkipsStep ==
  ASSUME IInv, NEW t \in Call, ResolveListedSkips(t)
  PROVE  IInv'
<1> DEFINE c == call[t]
           d == [c EXCEPT !.todo = Tail(c.todo)]
<1>1. UNCHANGED <<disabled, knows, owner, folder>> /\ timers' \subseteq Name
  BY Unshared DEF ResolveListedSkips
<1>2. CallOK(c) /\ c \in CallState /\ c.todo # <<>> /\ c.at = "resolve"
  BY DEF ResolveListedSkips, Asks, IInv
<1>3. Fits(Tail(c.todo), c.does) /\ Tail(c.todo) \in Seq(Guard)
  BY <1>2, TailFits DEF CallOK, Fits
<1>4. d \in CallState
  BY <1>2, <1>3 DEF CallState
<1>5. /\ d.at = "resolve" /\ d.todo = Tail(c.todo) /\ d.does = c.does /\ d.asks = c.asks
      /\ d.chats = c.chats /\ d.users = c.users /\ d.raw = c.raw
      /\ d.name = c.name /\ d.told = c.told /\ d.knew = c.knew
  BY <1>2 DEF CallState
<1>6. CallOK(d)
  BY <1>2, <1>3, <1>4, <1>5 DEF CallOK, OpenChats, NoBot, Synchronous
<1> QED BY <1>1, <1>6, Replaced DEF ResolveListedSkips, Becomes

\* A name goes on only where the owner has closed no chat; for a tool that does
\* not look for members only where the bot is not known.
LEMMA PassNameStep ==
  ASSUME IInv, NEW t \in Call, NEW n \in Name, PassName(t, n)
  PROVE  IInv'
<1> DEFINE c == call[t]
           d == [c EXCEPT !.todo = Tail(c.todo), !.raw = {n}]
<1>1. UNCHANGED <<disabled, knows, owner, folder>> /\ timers' \subseteq Name
  BY Unshared DEF PassName
<1>2. CallOK(c) /\ c \in CallState /\ c.todo # <<>> /\ c.at = "resolve"
  BY DEF PassName, Asks, IInv
<1>3. /\ Fits(Tail(c.todo), c.does) /\ Tail(c.todo) \in Seq(Guard)
      /\ Head(c.todo) = "member" => c.does = "members"
  BY <1>2, TailFits DEF CallOK, Fits
<1>4. d \in CallState
  BY <1>2, <1>3 DEF CallState
<1>5. /\ d.at = "resolve" /\ d.todo = Tail(c.todo) /\ d.does = c.does /\ d.asks = c.asks
      /\ d.chats = c.chats /\ d.users = c.users /\ d.raw = {n}
      /\ d.name = c.name /\ d.told = c.told /\ d.knew = c.knew
  BY <1>2 DEF CallState
<1>6. disabled = {} /\ (c.does = "members" \/ ~knows)
  BY <1>3 DEF PassName, Asks
<1>7. CallOK(d)
  BY <1>2, <1>3, <1>4, <1>5, <1>6 DEF CallOK, OpenChats, NoBot, Synchronous
<1> QED BY <1>1, <1>7, Replaced DEF PassName, Becomes

LEMMA FollowInviteStep ==
  ASSUME IInv, NEW t \in Call, NEW x \in Chat, FollowInvite(t, x)
  PROVE  IInv'
<1> DEFINE c == call[t]
           d == [c EXCEPT !.todo = <<>>, !.does = "invited", !.chats = {x}]
<1>1. UNCHANGED <<disabled, knows, owner, folder>> /\ timers' \subseteq Name
  BY Unshared DEF FollowInvite
<1>2. CallOK(c) /\ c \in CallState /\ c.at = "resolve"
  BY DEF FollowInvite, Asks, IInv
<1>3. d \in CallState
  <2>1. <<>> \in Seq(Guard) /\ "invited" \in Deed
    BY DEF Deed
  <2> QED BY <1>2, <2>1 DEF CallState
<1>4. /\ d.at = "resolve" /\ d.todo = <<>> /\ d.does = "invited" /\ d.asks = c.asks
      /\ d.chats = {x} /\ d.users = c.users /\ d.raw = c.raw
      /\ d.name = c.name /\ d.told = c.told /\ d.knew = c.knew
  BY <1>2 DEF CallState
<1>5. Fits(d.todo, d.does)
  BY <1>4 DEF Fits
<1>6. CallOK(d)
  BY <1>2, <1>3, <1>4, <1>5 DEF CallOK, OpenChats, NoBot, Synchronous, Unguarded
<1> QED BY <1>1, <1>6, Replaced DEF FollowInvite, Becomes

LEMMA ResolvedStep ==
  ASSUME IInv, NEW t \in Call, Resolved(t)
  PROVE  IInv'
<1> DEFINE c == call[t]
           d == [c EXCEPT !.at = "request"]
<1>1. UNCHANGED <<disabled, knows, owner, folder>> /\ timers' \subseteq Name
  BY Unshared DEF Resolved
<1>2. CallOK(c) /\ c \in CallState
  BY DEF IInv
<1>3. d \in CallState
  BY <1>2 DEF CallState, Place
<1>4. /\ d.at = "request" /\ d.todo = c.todo /\ d.does = c.does /\ d.asks = c.asks
      /\ d.chats = c.chats /\ d.users = c.users /\ d.raw = c.raw
      /\ d.name = c.name /\ d.told = c.told /\ d.knew = c.knew
  BY <1>2 DEF CallState
<1>5. CallOK(d)
  BY <1>2, <1>3, <1>4 DEF CallOK, OpenChats, NoBot, Synchronous
<1> QED BY <1>1, <1>5, Replaced DEF Resolved, Becomes

LEMMA OverStep ==
  ASSUME IInv, NEW t \in Call, Cancelled(t) \/ Answered(t) \/ Told(t) \/ SetWakeupTimer(t)
  PROVE  IInv'
<1>1. CASE Cancelled(t)
  BY <1>1, Over, Unshared DEF Cancelled
<1>2. CASE Answered(t) \/ Told(t)
  BY <1>2, Over, Unshared DEF Answered, Told, Refused
<1>3. CASE SetWakeupTimer(t)
  <2>1. call[t].name \in Name
    BY <1>3 DEF SetWakeupTimer, Does, IInv, CallOK
  <2>2. timers' \subseteq Name /\ UNCHANGED <<disabled, knows, owner, folder>>
    BY <1>3, <2>1 DEF SetWakeupTimer, Env, IInv, EnvOK
  <2> QED BY <1>3, <2>2, Over DEF SetWakeupTimer, Refused
<1> QED BY <1>1, <1>2, <1>3

LEMMA TelethonResolvesStep ==
  ASSUME IInv, NEW t \in Call, NEW n \in Name, TelethonResolves(t, n)
  PROVE  IInv'
<1> DEFINE c == call[t]
           d == [c EXCEPT !.raw = {}, !.chats = {owner[n]}]
<1>1. UNCHANGED <<disabled, knows, owner, folder>> /\ timers' \subseteq Name
  BY Unshared DEF TelethonResolves
<1>2. CallOK(c) /\ c \in CallState /\ c.at = "request" /\ c.raw # {}
  BY DEF TelethonResolves, Does, IInv
<1>3. CASE c.does = "members" /\ owner[n] \in User
  BY <1>1, <1>3, Over DEF TelethonResolves
<1>4. CASE ~(c.does = "members" /\ owner[n] \in User)
  <2>1. owner[n] \in Chat
    BY DEF IInv, EnvOK
  <2>2. d \in CallState
    BY <1>2, <2>1 DEF CallState
  <2>3. /\ d.at = "request" /\ d.todo = c.todo /\ d.does = c.does /\ d.asks = c.asks
        /\ d.chats = {owner[n]} /\ d.users = c.users /\ d.raw = {}
        /\ d.name = c.name /\ d.told = c.told /\ d.knew = c.knew
    BY <1>2 DEF CallState
  <2>4. disabled = {} /\ (c.knew /\ c.does \notin Unguarded => owner[n] # SpamBot)
    BY <1>2, <1>4, ChatAssumption DEF CallOK, OpenChats, NoBot
  <2>5. CallOK(d)
    BY <1>2, <2>1, <2>2, <2>3, <2>4
       DEF CallOK, OpenChats, NoBot, Synchronous, Hides, Accessible
  <2> QED BY <1>1, <1>4, <2>5, Replaced DEF TelethonResolves, Becomes
<1> QED BY <1>3, <1>4

LEMMA RefetchStep ==
  ASSUME IInv, NEW t \in Call, NEW x \in Chat, Refetch(t, x)
  PROVE  IInv'
<1> DEFINE c == call[t]
           d == [c EXCEPT !.does = "refetch", !.chats = {x}]
<1>1. UNCHANGED <<disabled, knows, owner, folder>> /\ timers' \subseteq Name
  BY Unshared DEF Refetch
<1>2. CallOK(c) /\ c \in CallState /\ c.at = "request" /\ c.does \in {"media", "refetch"}
  BY DEF Refetch, Does, IInv
<1>3. d \in CallState
  BY <1>2 DEF CallState, Deed
<1>4. /\ d.at = "request" /\ d.todo = c.todo /\ d.does = "refetch" /\ d.asks = c.asks
      /\ d.chats = {x} /\ d.users = c.users /\ d.raw = c.raw
      /\ d.name = c.name /\ d.told = c.told /\ d.knew = c.knew
  BY <1>2 DEF CallState
<1>5. Fits(d.todo, d.does)
  BY <1>2, <1>4 DEF CallOK, Fits
<1>6. CallOK(d)
  BY <1>2, <1>3, <1>4, <1>5 DEF CallOK, OpenChats, NoBot, Synchronous, Unguarded
<1> QED BY <1>1, <1>6, Replaced DEF Refetch, Becomes

LEMMA DeleteMessagesStep ==
  ASSUME IInv, NEW t \in Call, NEW numbers \in SUBSET Number, DeleteMessages(t, numbers)
  PROVE  IInv'
<1> DEFINE c == call[t]
           d == [c EXCEPT !.at = "delete", !.numbers = numbers]
<1>1. UNCHANGED <<disabled, knows, owner, folder>> /\ timers' \subseteq Name
  BY Unshared DEF DeleteMessages
<1>2. CallOK(c) /\ c \in CallState
  BY DEF IInv
<1>3. d \in CallState
  BY <1>2 DEF CallState, Place
<1>4. /\ d.at = "delete" /\ d.todo = c.todo /\ d.does = c.does /\ d.asks = c.asks
      /\ d.chats = c.chats /\ d.users = c.users /\ d.raw = c.raw /\ d.numbers = numbers
      /\ d.name = c.name /\ d.told = c.told /\ d.knew = c.knew
  BY <1>2 DEF CallState
<1>5. c.chats \subseteq User => \A k \in numbers : Home[k] \in c.chats
  BY DEF DeleteMessages, EnsureMessagesInChat
<1>6. CallOK(d)
  BY <1>2, <1>3, <1>4, <1>5 DEF CallOK, OpenChats, NoBot, Synchronous
<1> QED BY <1>1, <1>6, Replaced DEF DeleteMessages, Becomes

\* The agent is told of what the filter shows, or of the chats of its call.
LEMMA TellStep ==
  ASSUME IInv, NEW t \in Call, Tell(t) \/ \E shown \in SUBSET Chat : List(t, shown)
  PROVE  IInv'
<1> DEFINE c == call[t]
<1>1. UNCHANGED <<disabled, knows, owner, folder>> /\ timers' \subseteq Name
  BY Unshared DEF Tell, List
<1>2. CallOK(c) /\ c \in CallState
  BY DEF IInv
<1>3. \E shown \in SUBSET Chat : /\ Hides(shown) = {}
                                /\ Becomes(t, [c EXCEPT !.at = "told", !.told = shown])
  <2>1. CASE Tell(t)
    BY <1>2, <2>1 DEF Tell, Does, CallOK, OpenChats, Unguarded, CallState
  <2>2. CASE \E shown \in SUBSET Chat : List(t, shown)
    BY <2>2 DEF List, VisibleDialogs, Filtered, Hides
  <2> QED BY <2>1, <2>2
<1>4. PICK shown \in SUBSET Chat : /\ Hides(shown) = {}
                                  /\ Becomes(t, [c EXCEPT !.at = "told", !.told = shown])
  BY <1>3
<1> DEFINE d == [c EXCEPT !.at = "told", !.told = shown]
<1>5. d \in CallState
  BY <1>2 DEF CallState, Place
<1>6. /\ d.at = "told" /\ d.todo = c.todo /\ d.does = c.does /\ d.asks = c.asks
      /\ d.chats = c.chats /\ d.users = c.users /\ d.raw = c.raw
      /\ d.name = c.name /\ d.told = shown /\ d.knew = c.knew
  BY <1>2 DEF CallState
<1>7. CallOK(d)
  BY <1>2, <1>4, <1>5, <1>6 DEF CallOK, OpenChats, NoBot, Synchronous
<1> QED BY <1>1, <1>4, <1>7, Replaced DEF Becomes

\* What is hidden of a folder is read: an open chat of the call does not count.
LEMMA ReadFolderStep ==
  ASSUME IInv, NEW t \in Call, NEW hidden \in SUBSET Chat, ReadFolder(t, hidden)
  PROVE  IInv'
<1> DEFINE c == call[t]
           d == [c EXCEPT !.at = "overwrite", !.write = c.chats \cup hidden]
<1>1. UNCHANGED <<disabled, knows, owner, folder>> /\ timers' \subseteq Name
  BY Unshared DEF ReadFolder
<1>2. CallOK(c) /\ c \in CallState /\ c.does = "folder"
  BY DEF IInv, ReadFolder, Does
<1>3. d \in CallState
  BY <1>2 DEF CallState, Place
<1>4. /\ d.at = "overwrite" /\ d.todo = c.todo /\ d.does = c.does /\ d.asks = c.asks
      /\ d.chats = c.chats /\ d.users = c.users /\ d.raw = c.raw /\ d.write = c.chats \cup hidden
      /\ d.name = c.name /\ d.told = c.told /\ d.knew = c.knew
  BY <1>2 DEF CallState
<1>5. Hides(c.chats) = {}
  BY <1>2 DEF CallOK, OpenChats, Unguarded
<1>6. Hides(hidden) = Hides(folder)
  BY DEF ReadFolder, HiddenPeers, Filtered, Hides, Accessible
<1>7. Hides(d.write) = Hides(folder)
  BY <1>4, <1>5, <1>6 DEF Hides
<1>8. CallOK(d)
  BY <1>2, <1>3, <1>4, <1>7 DEF CallOK, OpenChats, NoBot, Synchronous
<1> QED BY <1>1, <1>8, Replaced DEF ReadFolder, Becomes

-----------------------------------------------------------------------------
(* Steps that change what is shared.                                       *)

\* A call that is marked is as right as before, whatever becomes of the folder;
\* one that has read the folder is marked if it is among `calls`.
LEMMA Marked ==
  ASSUME IInv, NEW calls \in SUBSET Call, NEW u \in Call
  PROVE  /\ Unread(calls)[u] \in CallState
         /\ \/ Unread(calls)[u] = call[u]
            \/ Unread(calls)[u] = [call[u] EXCEPT !.late = TRUE]
         /\ u \in calls /\ call[u].at = "overwrite" => Unread(calls)[u].late = TRUE
<1>1. call[u] \in CallState
  BY DEF IInv
<1>2. [call[u] EXCEPT !.late = TRUE] \in CallState /\ [call[u] EXCEPT !.late = TRUE].late = TRUE
  BY <1>1 DEF CallState
<1>3. Unread(calls)[u] = IF u \in calls /\ call[u].at = "overwrite"
                         THEN [call[u] EXCEPT !.late = TRUE] ELSE call[u]
  BY DEF Unread
<1> QED BY <1>1, <1>2, <1>3

\* The parts of a call that do not speak of the folder.
Private(c) ==
  /\ c \in CallState
  /\ Fits(c.todo, c.does)
  /\ c.does = "timer" => c.name \in Name
  /\ c.at = "link" => c.asks \in Chat /\ c.todo # <<>>
  /\ OpenChats(c) /\ NoBot(c)

LEMMA MarkedIsPrivate ==
  ASSUME IInv, NEW calls \in SUBSET Call, NEW u \in Call
  PROVE  Private(Unread(calls)[u])
<1> DEFINE c == call[u]
           d == [c EXCEPT !.late = TRUE]
<1>1. CallOK(c) /\ c \in CallState
  BY DEF IInv
<1>2. Private(c)
  BY <1>1 DEF CallOK, Private
<1>3. d \in CallState
  BY <1>1 DEF CallState
<1>4. /\ d.at = c.at /\ d.todo = c.todo /\ d.does = c.does /\ d.asks = c.asks
      /\ d.chats = c.chats /\ d.users = c.users /\ d.raw = c.raw /\ d.numbers = c.numbers
      /\ d.name = c.name /\ d.told = c.told /\ d.knew = c.knew
  BY <1>1 DEF CallState
<1>5. Private(d)
  BY <1>2, <1>3, <1>4 DEF Private, OpenChats, NoBot
<1> QED BY <1>2, <1>5, Marked

\* A change of the folder: every call is right afterwards that has not read it,
\* is marked, or would write what hides as much as the new folder.
LEMMA FolderChanged ==
  ASSUME IInv, NEW calls \in SUBSET Call, call' \in [Call -> CallState],
         folder' \subseteq Chat, UNCHANGED <<disabled, knows, owner, timers>>,
         \A u \in Call : call'[u] = Unread(calls)[u] \/ call'[u] = Idle,
         \A u \in Call \ calls : Hides(call[u].write) = Hides(folder)
           => Hides(call[u].write) = Hides(folder')
  PROVE  IInv'
<1>1. EnvOK'
  BY DEF IInv, EnvOK
<1>2. ASSUME NEW u \in Call PROVE CallOK(call[u])'
  <2>1. Private(call'[u])
    <3>1. Private(Idle)
      BY IdleOK DEF CallOK, Private
    <3> QED BY <3>1, MarkedIsPrivate
  <2>2. Private(call[u])'
    BY <2>1 DEF Private, OpenChats, NoBot, Hides, Accessible
  <2>3. Synchronous(call[u])'
    <3>1. SUFFICES ASSUME call'[u].at = "overwrite", ~call'[u].late
                   PROVE  Hides(call'[u].write) = Hides(folder')
      BY DEF Synchronous, Hides, Accessible
    <3>2. call'[u] # Idle
      BY <3>1 DEF Idle
    <3>3. call'[u] = call[u]
      <4> DEFINE d == [call[u] EXCEPT !.late = TRUE]
      <4>1. call[u] \in CallState
        BY DEF IInv
      <4>2. d.late
        BY <4>1 DEF CallState
      <4>3. call'[u] = call[u] \/ call'[u] = d
        BY <3>2, Marked
      <4>4. call'[u] # d
        BY <3>1, <4>2
      <4> HIDE DEF d
      <4> QED BY <4>3, <4>4
    <3>4. u \notin calls
      BY <3>1, <3>2, <3>3, Marked
    <3>5. Hides(call[u].write) = Hides(folder)
      BY <3>1, <3>3 DEF IInv, CallOK, Synchronous
    <3> QED BY <3>3, <3>4, <3>5
  <2> QED BY <2>2, <2>3 DEF Private, CallOK
<1> QED BY <1>1, <1>2 DEF IInv

LEMMA UpdateFolderStep ==
  ASSUME IInv, NEW t \in Call, UpdateFolder(t)
  PROVE  IInv'
<1> DEFINE calls == IF call[t].late THEN Call ELSE {}
<1>1. call[t] \in CallState /\ CallOK(call[t])
  BY DEF IInv
<1>2. folder' \subseteq Chat /\ UNCHANGED <<disabled, knows, owner, timers>>
  BY <1>1 DEF UpdateFolder, Env, CallState
<1>3. call' = [Unread(calls) EXCEPT ![t] = Idle]
  BY DEF UpdateFolder
<1>4. Unread(calls) = [u \in Call |-> Unread(calls)[u]]
  BY DEF Unread
<1>5. \A u \in Call : call'[u] = Unread(calls)[u] \/ call'[u] = Idle
  BY <1>3, <1>4
<1>6. call' \in [Call -> CallState]
  BY <1>3, <1>4, Marked, IdleOK DEF CallOK
<1>7. \A u \in Call \ calls : Hides(call[u].write) = Hides(folder)
        => Hides(call[u].write) = Hides(folder')
  <2>1. ~call[t].late => Hides(folder') = Hides(folder)
    BY <1>1 DEF UpdateFolder, CallOK, Synchronous
  <2> QED BY <2>1
<1> QED BY <1>2, <1>5, <1>6, <1>7, FolderChanged

LEMMA DeleteFolderStep ==
  ASSUME IInv, NEW t \in Call, DeleteFolder(t)
  PROVE  IInv'
<1>1. folder' \subseteq Chat /\ UNCHANGED <<disabled, knows, owner, timers>>
  BY DEF DeleteFolder, Env
<1>2. call' = [Unread(Call) EXCEPT ![t] = Idle]
  BY DEF DeleteFolder
<1>3. Unread(Call) = [u \in Call |-> Unread(Call)[u]]
  BY DEF Unread
<1>4. \A u \in Call : call'[u] = Unread(Call)[u] \/ call'[u] = Idle
  BY <1>2, <1>3
<1>5. call' \in [Call -> CallState]
  BY <1>2, <1>3, Marked, IdleOK DEF CallOK
<1> QED BY <1>1, <1>4, <1>5, FolderChanged

LEMMA OwnerEditsFolderStep ==
  ASSUME IInv, NEW chats \in SUBSET Chat, OwnerEditsFolder(chats)
  PROVE  IInv'
<1>1. folder' \subseteq Chat /\ UNCHANGED <<disabled, knows, owner, timers>>
  BY DEF OwnerEditsFolder, Env
<1>2. call' = Unread(Call)
  BY DEF OwnerEditsFolder
<1>3. Unread(Call) = [u \in Call |-> Unread(Call)[u]]
  BY DEF Unread
<1>4. call' \in [Call -> CallState]
  BY <1>2, <1>3, Marked
<1> QED BY <1>1, <1>2, <1>4, FolderChanged

LEMMA RememberSpambotIdStep ==
  ASSUME IInv, RememberSpambotId
  PROVE  IInv'
<1>1. EnvOK' /\ call' = call
  BY DEF RememberSpambotId, IInv, EnvOK
<1>2. ASSUME NEW u \in Call PROVE CallOK(call[u])'
  BY DEF RememberSpambotId, IInv, CallOK, OpenChats, NoBot, Synchronous, Hides, Accessible
<1> QED BY <1>1, <1>2 DEF IInv

LEMMA NameMovesStep ==
  ASSUME IInv, NEW n \in Name, NEW x \in Chat, NameMoves(n, x)
  PROVE  IInv'
<1>1. EnvOK' /\ call' = call
  BY DEF NameMoves, IInv, EnvOK
<1>2. ASSUME NEW u \in Call PROVE CallOK(call[u])'
  BY DEF NameMoves, IInv, CallOK, OpenChats, NoBot, Synchronous, Hides, Accessible
<1> QED BY <1>1, <1>2 DEF IInv

-----------------------------------------------------------------------------
(* The theorems.                                                           *)

LEMMA InitInv ==
  ASSUME Init
  PROVE  IInv
<1>1. EnvOK
  BY ChatAssumption DEF Init, EnvOK
<1>2. ASSUME NEW u \in Call PROVE CallOK(call[u])
  BY IdleOK DEF Init
<1>3. call \in [Call -> CallState]
  BY IdleOK DEF Init, CallOK
<1> QED BY <1>1, <1>2, <1>3 DEF IInv

LEMMA StepInv ==
  ASSUME IInv, NEW t \in Call, Step(t)
  PROVE  IInv'
<1>1. CASE \E tool \in Calls : Begin(t, tool)
  BY <1>1, BeginStep
<1>2. CASE \E n \in Name : \/ TimerFires(t, n) \/ ResolveChat(t, n) \/ ResolvePeer(t, n)
                           \/ PassName(t, n) \/ TelethonResolves(t, n)
  BY <1>2, TimerFiresStep, ResolveChatStep, ResolvePeerStep, PassNameStep,
     TelethonResolvesStep
<1>3. CASE \E x \in Chat : TakeEvent(t, x) \/ FollowInvite(t, x) \/ Refetch(t, x)
  BY <1>3, TakeEventStep, FollowInviteStep, RefetchStep
<1>4. CASE \E chats \in SUBSET Chat : List(t, chats) \/ ReadFolder(t, chats)
  BY <1>4, TellStep, ReadFolderStep
<1>5. CASE \E numbers \in SUBSET Number : DeleteMessages(t, numbers)
  BY <1>5, DeleteMessagesStep
<1>6. CASE ResolveListedSkips(t) \/ LinkFound(t) \/ Resolved(t)
  BY <1>6, ResolveListedSkipsStep, LinkFoundStep, ResolvedStep
<1>7. CASE Cancelled(t) \/ Answered(t) \/ Told(t) \/ SetWakeupTimer(t) \/ Tell(t)
  BY <1>7, OverStep, TellStep
<1>8. CASE UpdateFolder(t) \/ DeleteFolder(t)
  BY <1>8, UpdateFolderStep, DeleteFolderStep
<1> QED BY <1>1, <1>2, <1>3, <1>4, <1>5, <1>6, <1>7, <1>8 DEF Step

LEMMA NextInv ==
  ASSUME IInv, [Next]_vars
  PROVE  IInv'
<1>1. CASE UNCHANGED vars
  BY <1>1 DEF vars, IInv, EnvOK, CallOK, OpenChats, NoBot, Synchronous, Hides, Accessible
<1>2. CASE RememberSpambotId
  BY <1>2, RememberSpambotIdStep
<1>3. CASE \E n \in Name, x \in Chat : NameMoves(n, x)
  BY <1>3, NameMovesStep
<1>4. CASE \E chats \in SUBSET Chat : OwnerEditsFolder(chats)
  BY <1>4, OwnerEditsFolderStep
<1>5. CASE \E t \in Call : Step(t)
  BY <1>5, StepInv
<1> QED BY <1>1, <1>2, <1>3, <1>4, <1>5 DEF Next

\* The inductive invariant holds in every behaviour.
LEMMA Invariance == Spec => []IInv
  BY InitInv, NextInv, PTL DEF Spec

\* The variables keep their types, whatever calls run at a time.
THEOREM TypeCorrect == Spec => []TypeOK
<1>1. IInv => TypeOK
  BY DEF IInv, EnvOK, TypeOK
<1> QED BY <1>1, Invariance, PTL

\* No request of a call concerns a chat that the owner closed, for any number of
\* calls at a time, any chats and any moves of the names.
THEOREM ClosedStaysClosed == Spec => []OnlyAccessible
<1>1. ASSUME IInv, NEW t \in Call, call[t].does \notin Unguarded, NEW x \in Touched(t)
      PROVE  Accessible(x)
  <2>1. CallOK(call[t]) /\ call[t] \in CallState
    BY <1>1 DEF IInv
  <2>2. \A y \in call[t].chats : Accessible(y)
    BY <1>1, <2>1 DEF CallOK, OpenChats, Hides
  <2>3. \A g \in LinkedGroups(call[t].chats) : Accessible(g)
    <3>1. SUFFICES ASSUME NEW g \in Group, Linked[g] \in call[t].chats PROVE Accessible(g)
      BY DEF LinkedGroups
    <3>2. Linked[g] \in Channel /\ Linked[g] # None /\ Linked[g] \notin Group
      BY <2>1, <3>1, ChatAssumption DEF CallState
    <3>3. Linked[g] \notin disabled
      BY <2>2, <3>1, <3>2 DEF Accessible
    <3> QED BY <3>2, <3>3 DEF Accessible
  <2>4. call[t].at = "delete" /\ call[t].chats \subseteq User
          => {Home[k] : k \in call[t].numbers} \subseteq call[t].chats
    BY <2>1 DEF CallOK, OpenChats
  <2> QED BY <1>1, <2>2, <2>3, <2>4 DEF Touched
<1>2. IInv => OnlyAccessible
  BY <1>1 DEF OnlyAccessible
<1> QED BY <1>2, Invariance, PTL

\* Nor is a closed chat in what the agent is told.
THEOREM ToldIsAccessible == Spec => []ToldOfAccessible
<1>1. ASSUME IInv, NEW t \in Call, NEW x \in call[t].told
      PROVE  Accessible(x)
  BY <1>1 DEF IInv, CallOK, OpenChats, Hides
<1>2. IInv => ToldOfAccessible
  BY <1>1 DEF ToldOfAccessible
<1> QED BY <1>2, Invariance, PTL

\* A call that began when the bot's number was known does not reach the bot.
THEOREM BotIsLeftAlone == Spec => []SpamBotIsLeftAlone
<1>1. ASSUME IInv, NEW t \in Call, call[t].knew, call[t].does \notin Unguarded
      PROVE  SpamBot \notin Touched(t) \cup call[t].users
  <2>1. CallOK(call[t]) /\ SpamBot \notin call[t].chats \cup call[t].users
    BY <1>1 DEF IInv, CallOK, NoBot
  <2>2. SpamBot \notin LinkedGroups(call[t].chats)
    BY ChatAssumption DEF LinkedGroups
  <2>3. call[t].at = "delete" /\ call[t].chats \subseteq User
          => {Home[k] : k \in call[t].numbers} \subseteq call[t].chats
    BY <2>1 DEF CallOK, OpenChats
  <2> QED BY <2>1, <2>2, <2>3 DEF Touched
<1>2. IInv => SpamBotIsLeftAlone
  BY <1>1 DEF SpamBotIsLeftAlone
<1> QED BY <1>2, Invariance, PTL

\* A folder that is rewritten keeps its closed chats, however many calls rewrite
\* it at a time.
THEOREM FolderKeepsHidden == Spec => []HiddenPeersStay
<1>1. ASSUME IInv, NEW t \in Call, call[t].at = "overwrite", ~call[t].late
      PROVE  Hidden \subseteq call[t].write
  BY <1>1 DEF IInv, CallOK, Synchronous, Hides, Hidden
<1>2. IInv => HiddenPeersStay
  BY <1>1 DEF HiddenPeersStay
<1> QED BY <1>2, Invariance, PTL

=============================================================================
