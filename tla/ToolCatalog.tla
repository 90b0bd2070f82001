----------------------------- MODULE ToolCatalog -----------------------------
(***************************************************************************)
(* The 90 tools of an agent (integrations/telegram_tools.py), each reduced *)
(* to what decides which chats it reaches: how its arguments are resolved, *)
(* in the order of the code, and what it does once they are.               *)
(***************************************************************************)
EXTENDS Sequences

\* How an argument becomes an entity: "chat" by _resolve_chat, "peer" by
\* _resolve_peer, "member" by _chat_target, "listed" by the resolve_peers of a
\* folder, "profile" by get_profile, "invite" by join_channel, "timer" by
\* set_wakeup_timer and _ensure_peer_allowed; "event" and "post" are a message
\* and a post that came in.
Guard == {"chat", "peer", "member", "listed", "profile", "invite", "timer", "event", "post"}

\* What a call does then: "comment" is a message that may go under a post,
\* "media" one that may be read again from where its media id comes from.
Deed == {"request", "send", "comment", "media", "members", "discussion", "delete",
         "dialogs", "common", "folders", "folder", "removeFolder", "profile",
         "timer", "account", "refetch", "invited"}

Tool(guards, does) == [guards |-> guards, does |-> does]

\* A list of chats or of users is modelled by two of them.
OnChat == Tool(<<"chat">>, "request")
OnChats == Tool(<<"chat", "chat">>, "request")
OnPeer == Tool(<<"peer">>, "request")
OnPeers == Tool(<<"peer", "peer">>, "request")
OnChatAndPeers == Tool(<<"chat", "peer">>, "request")
OnPeerAndChat == Tool(<<"peer", "chat">>, "request")
OnMember == Tool(<<"member">>, "members")
Message == Tool(<<"chat">>, "send")
Comment == Tool(<<"chat">>, "comment")
Media == Tool(<<"chat">>, "media")
Forward == Tool(<<"chat", "chat">>, "send")
Deletion == Tool(<<"chat">>, "delete")
Discussion == Tool(<<"chat">>, "discussion")
Common == Tool(<<"peer">>, "common")
Profile == Tool(<<"profile">>, "profile")
Join == Tool(<<"invite">>, "request")
Timer == Tool(<<"timer">>, "timer")
Folder == Tool(<<"listed", "listed">>, "folder")
Listing(does) == Tool(<<>>, does)
NoFolder == Tool(<<>>, "removeFolder")
OfAccount == Tool(<<>>, "account")
OfMedia == Tool(<<>>, "refetch")

(* Category 1: messages *)
send_text_message == Comment
edit_text_message == OnChat
delete_messages == Deletion
forward_messages == Forward
pin_message == OnChat
unpin_message == OnChat
send_chat_action == OnChat
send_reaction == OnChat
get_message_reactions == OnChat
mark_chat_as_read == OnChat
get_messages == OnChat

(* Category 2: dialogs *)
get_dialogs == Listing("dialogs")
search_messages == OnChat
delete_dialog == OnChat
archive_dialogs == OnChats
unarchive_dialogs == OnChats
mute_chat == OnChat
unmute_chat == OnChat
get_common_chats == Common

(* Category 3: media *)
send_file == Media
view_image == OfMedia
set_profile_photo == OfMedia
send_voice_note == Media
send_video_note == Media
send_location == Message
send_venue == Message
search_location == OfAccount

(* Category 4: stickers *)
get_sticker_sets == OfAccount
get_stickers_in_set == OfAccount
search_sticker_sets == OfAccount
install_sticker_set == OfAccount
uninstall_sticker_set == OfAccount
send_sticker == Media

(* Category 5: profiles and contacts *)
get_profile == Profile
update_profile_info == OfAccount
update_username == OfAccount
add_contact == OfAccount
delete_contact == OnPeer
get_contacts == OfAccount

(* Category 7: bots *)
get_message_buttons == OnChat
click_inline_button == OnChat
click_reply_keyboard_button == OnChat
query_inline_bot == OnPeerAndChat
send_inline_bot_result == Message
start_bot == OnChat

(* Category 6: groups and channels *)
get_chat_info == OnChat
check_admin_permissions == OnChat
create_group == OnPeers
create_channel == OfAccount
invite_to_channel == OnChatAndPeers
kick_chat_member == OnMember
ban_chat_member == OnMember
restrict_chat_member == OnMember
promote_chat_member == OnMember
get_chat_members == OnChat
get_chat_admin_log == OnChat
edit_chat_title == OnChat
edit_chat_about == OnChat
edit_chat_photo == OnChat
update_chat_public_link == OnChat
set_chat_default_banned_rights == OnChat
toggle_chat_signatures == OnChat
delete_channel == OnChat
toggle_join_requests == OnChat
toggle_join_to_send == OnChat
toggle_slow_mode == OnChat
set_discussion_group == OnChats
join_channel_discussion == Discussion
get_discussion_messages == Discussion
toggle_forum == OnChat
toggle_pre_history_hidden == OnChat
toggle_participants_hidden == OnChat
edit_chat_location == OnChat
toggle_anti_spam == OnChat
set_chat_admin_rights == OnChatAndPeers
set_chat_banned_rights == OnChatAndPeers
join_channel == Join
send_poll == Message
transcribe_voice_note == OfMedia
read_document_file == OfMedia
set_wakeup_timer == Timer

(* Category 7: folders *)
get_chat_folders == Listing("folders")
create_or_update_chat_folder == Folder
delete_chat_folder == NoFolder

(* Category 8: privacy and account *)
get_privacy_settings == OfAccount
set_privacy_settings == OnPeers
get_global_settings == OfAccount
set_global_settings == OfAccount
get_content_settings == OfAccount
set_content_settings == OfAccount

(* build_telegram_langchain_tools, in the order of its list. *)
MessageTools == {
  send_text_message, edit_text_message, delete_messages, forward_messages,
  pin_message, unpin_message, send_chat_action, send_reaction,
  get_message_reactions, mark_chat_as_read, get_messages, get_dialogs,
  search_messages, delete_dialog, archive_dialogs, unarchive_dialogs,
  get_common_chats}

MediaTools == {
  send_file, view_image, set_profile_photo, send_voice_note, send_video_note,
  get_sticker_sets, get_stickers_in_set, search_sticker_sets, install_sticker_set,
  uninstall_sticker_set, send_sticker}

ContactTools == {get_profile, update_profile_info, update_username, add_contact,
  delete_contact, get_contacts}

ChatTools == {
  get_chat_info, check_admin_permissions, create_group, create_channel,
  invite_to_channel, kick_chat_member, ban_chat_member, restrict_chat_member,
  promote_chat_member, get_chat_members, get_chat_admin_log, edit_chat_title,
  edit_chat_about, edit_chat_photo, update_chat_public_link,
  set_chat_default_banned_rights, toggle_chat_signatures, delete_channel,
  toggle_join_requests, toggle_join_to_send, toggle_slow_mode, set_discussion_group,
  join_channel_discussion, get_discussion_messages}

MoreChatTools == {
  toggle_forum, toggle_pre_history_hidden, toggle_participants_hidden,
  edit_chat_location, toggle_anti_spam, set_chat_admin_rights,
  set_chat_banned_rights, join_channel, send_poll, transcribe_voice_note,
  read_document_file, set_wakeup_timer}

NoticeTools == {mute_chat, unmute_chat, send_location, send_venue, search_location}

FolderTools == {get_chat_folders, create_or_update_chat_folder, delete_chat_folder}

BotTools == {get_message_buttons, click_inline_button, click_reply_keyboard_button,
  query_inline_bot, send_inline_bot_result, start_bot}

SettingTools == {get_privacy_settings, set_privacy_settings, get_global_settings,
  set_global_settings, get_content_settings, set_content_settings}

\* The settings of an agent leave some of them.
Tools ==
  MessageTools \cup MediaTools \cup ContactTools \cup ChatTools \cup MoreChatTools
    \cup NoticeTools \cup FolderTools \cup BotTools \cup SettingTools

(* What the runtime does of its own accord (core/agent_runtime.py). *)
IncomingTurn == Tool(<<"event">>, "send")
FirstComment == Tool(<<"post">>, "comment")
TimerTurn == Tool(<<"timer">>, "send")

Calls == Tools \cup {IncomingTurn, FirstComment, TimerTurn}
=============================================================================
