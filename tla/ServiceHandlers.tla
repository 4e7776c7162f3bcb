--------------------------- MODULE ServiceHandlers ---------------------------
(* The handlers of the service and the operations of the gateway they call, *)
(* each as the sequences of steps it can go through when nothing fails.     *)
(* Sources: internal/service/service.go, internal/whatsapp/client.go,       *)
(*          internal/whatsapp/chatsettings.go and the files of the features *)
EXTENDS Naturals, Sequences

(* The steps of a call:                                                     *)
(*   check  the parameters are decoded and validated                        *)
(*   look   something is read, from the database or from WhatsApp           *)
(*   ask    WhatsApp is asked to make the change                            *)
(*   save   the change is written to the database                           *)
(*   keep   the same, and a failure is ignored                              *)
(*   tell   an event carries the change to the clients                      *)
(*   show   an event carries what was read                                  *)
(*   hint   an event says that something has changed                        *)
(* Any other name is an operation of the gateway.                           *)
Steps == {"check", "look", "ask", "save", "keep", "tell", "show", "hint"}

(* A table relates each name to the sequences it stands for.                *)
Rows(names, steps) == names \X {steps}

(* The operations of the gateway, by file. A press that WhatsApp refuses as *)
(* such goes again as a plain reply; a forward is a sticker, a file or a    *)
(* text; the choices of a question are recorded without being required.     *)
Texts    == Rows({"SendText"}, <<"look", "ask">>)
Cards    == Rows({"SendContactCard"}, <<"look", "ask">>)
Presses  == Rows({"SendPromptAnswer"}, <<"look", "ask">>)
Media    == Rows({"SendMedia"}, <<"look", "ask", "keep">>)
Stickers == Rows({"SendStoredSticker"}, <<"look", "ask", "keep">>)
Buttons  == Rows({"SendButtonPrompt"}, <<"look", "ask", "keep">>)
Choices  == Rows({"SendListPrompt"}, <<"look", "ask", "keep">>)

Forwards ==
    {"ForwardMessage"} \X {<<"look", "look", "ask", "keep">>, <<"look", "ask">>}

MessageMarks ==
    Rows({"SendReaction", "PinMessage", "UnpinMessage"}, <<"ask", "save", "tell">>)
    \cup Rows({"EditText", "DeleteMessage"}, <<"ask">>)

Stars    == Rows({"SetMessageStarred"}, <<"ask", "save", "tell">>)
Receipts == Rows({"MarkRead", "MarkPlayed", "SubscribePresence", "SetTyping"}, <<"ask">>)

NewPolls == Rows({"createPoll"}, <<"look", "ask", "save", "keep", "tell">>)
Votes    == Rows({"votePoll"}, <<"look", "ask", "save", "hint">>)

(* Without a newest message nothing can be asked, and the rows go all the   *)
(* same.                                                                    *)
Removal ==
    {"DeleteChat"} \X {<<"look", "ask", "save", "tell">>, <<"look", "save", "tell">>}

Clearing ==
    {"ClearChat"} \X
        {<<"look", "ask", "save", "tell", "hint">>, <<"look", "save", "tell", "hint">>}

(* Mutant: the events go out before the database is written.                *)
SaidBeforeStored ==
    Rows({"SetChatPinned", "SetChatMuted", "SetChatArchived", "SetChatDisappearing"},
         <<"ask", "tell", "save">>)
    \cup Rows({"SetChatFavorite"}, <<"look", "ask", "tell", "save">>)

ChatFlags ==
    Rows({"SetChatPinned", "SetChatMuted", "SetChatArchived", "SetChatDisappearing"},
         <<"ask", "save", "tell">>)
    \cup Rows({"SetChatFavorite"}, <<"look", "ask", "save", "tell">>)

Lists ==
    Rows({"CreateLabel"}, <<"look", "ask", "save", "hint">>)
    \cup Rows({"SetChatLabeled"}, <<"ask", "save", "hint">>)
    \cup Rows({"SetContactBlocked"}, <<"ask", "tell">>)
    \cup Rows({"CreateGroup"}, <<"ask", "save", "tell">>)

(* One of the chats that are marked.                                        *)
Reading ==
    Rows({"SetChatRead"}, <<"look", "ask", "save", "tell">>)
    \cup Rows({"MarkAllChatsRead"}, <<"look", "ask", "save", "tell">>)

Account       == Rows({"SetProfileName", "SetPrivacySetting", "SetAbout"}, <<"ask", "tell">>)
DefaultTimers == Rows({"SetDefaultDisappearingTimer"}, <<"ask">>)
Photo         == Rows({"SetProfilePhoto"}, <<"look", "ask", "hint">>)

Discovery ==
    Rows({"CreateChannel", "CreateCommunity"}, <<"ask", "hint">>)
    \cup Rows({"FollowChannelLink"}, <<"look", "ask", "hint">>)
    \cup Rows({"JoinGroupLink"}, <<"ask", "save", "hint">>)

(* Joining may only have asked the admins; then there is no conversation.    *)
Joining ==
    {"joinPreviewedGroup"} \X {<<"look", "ask">>, <<"look", "ask", "save", "tell">>}

Channels == Rows({"SetChannelFollowed", "SetChannelMuted"}, <<"ask", "tell">>)
Posts    == Rows({"ChannelMessages"}, <<"look", "keep", "hint">>)

Statuses ==
    Rows({"PostTextStatus"}, <<"ask", "hint">>)
    \cup Rows({"PostMediaStatus"}, <<"look", "ask", "keep", "hint">>)

(* A card that needs no better picture, or has none, is left as it is.      *)
Previews ==
    {"RefreshLinkPreview"} \X {<<"look">>, <<"look", "save", "look", "show">>}

Gateway ==
    Texts \cup Cards \cup Presses \cup Media \cup Stickers \cup Buttons \cup Choices \cup Forwards
    \cup MessageMarks \cup Stars \cup Receipts \cup NewPolls \cup Votes \cup Removal \cup Clearing
    \cup ChatFlags \cup Lists \cup Reading \cup Account \cup DefaultTimers \cup Photo \cup Discovery
    \cup Joining \cup Channels \cup Posts \cup Statuses \cup Previews

(* The handlers of the service, in the order of its switch.                 *)
Settings ==
    Rows({"preferences.set", "notifications.set"}, <<"check", "save", "look", "show">>)
    \cup Rows({"notifications.get", "preferences.get", "status.get"}, <<"look">>)
    \cup Rows({"messages.on_date", "notifications.test_sound", "bugreport.submit"},
            <<"check", "look">>)

(* Stickers that are read out are converted, and nobody is told.            *)
ChatLists ==
    Rows({"chats.list", "chats.search"}, <<"check", "look">>)
    \cup Rows({"chats.archived_count", "chats.unread_count"}, <<"look">>)
    \cup Rows({"chat.info", "media.shared", "chat.shared"}, <<"check", "look", "keep">>)

ListsAndBlocks ==
    Rows({"labels.list", "contacts.blocked"}, <<"look">>)
    \cup Rows({"label.create"}, <<"check", "CreateLabel">>)
    \cup Rows({"chat.label"}, <<"check", "SetChatLabeled">>)
    \cup Rows({"chat.labels"}, <<"check", "look">>)
    \cup Rows({"contact.block"}, <<"check", "SetContactBlocked">>)
    \cup Rows({"group.create"}, <<"check", "CreateGroup">>)

Features ==
    Rows({"poll.create"}, <<"check", "createPoll">>)
    \cup Rows({"poll.vote"}, <<"check", "votePoll">>)
    \cup Rows({"group.join_previewed"}, <<"check", "joinPreviewedGroup">>)
    \cup Rows({"poll.info", "event.info", "group.invite_preview", "group.invite_qr",
             "community.info", "status.audience_contacts"}, <<"check", "look">>)

(* An invite link is read, or replaced by a new one.                        *)
Groups ==
    Rows({"group.info", "group.requests.list"}, <<"check", "look">>)
    \cup {"group.invite_link"} \X {<<"check", "look">>, <<"check", "look", "ask">>}

ChatsAndChannels ==
    Rows({"chats.mark_all_read"}, <<"MarkAllChatsRead">>)
    \cup Rows({"chat.delete"}, <<"check", "DeleteChat">>)
    \cup Rows({"chat.clear"}, <<"check", "ClearChat">>)
    \cup Rows({"chat.disappearing"}, <<"check", "SetChatDisappearing">>)
    \cup Rows({"channel.create"}, <<"check", "CreateChannel">>)
    \cup Rows({"channel.follow_link"}, <<"check", "FollowChannelLink">>)
    \cup Rows({"community.create"}, <<"check", "CreateCommunity">>)
    \cup Rows({"group.join_link"}, <<"check", "JoinGroupLink">>)
    \cup Rows({"channel.follow"}, <<"check", "SetChannelFollowed">>)
    \cup Rows({"channel.mute"}, <<"check", "SetChannelMuted">>)

AccountSettings ==
    {"status.post"} \X {<<"check", "PostMediaStatus">>, <<"check", "PostTextStatus">>}
    \cup Rows({"privacy.get"}, <<"look">>)
    \cup Rows({"profile.get", "status.audience"}, <<"check", "look">>)
    \cup Rows({"privacy.default_timer.set"}, <<"check", "SetDefaultDisappearingTimer">>)
    \cup Rows({"privacy.set"}, <<"check", "SetPrivacySetting">>)
    \cup Rows({"profile.set_name"}, <<"check", "SetProfileName">>)
    \cup Rows({"profile.set_photo"}, <<"check", "SetProfilePhoto">>)
    \cup Rows({"profile.set_about"}, <<"check", "SetAbout">>)

ChatChanges ==
    Rows({"chat.export"}, <<"check", "look">>)
    \cup Rows({"chat.favorite"}, <<"check", "SetChatFavorite">>)
    \cup Rows({"chat.pin"}, <<"check", "SetChatPinned">>)
    \cup Rows({"chat.mute"}, <<"check", "SetChatMuted">>)
    \cup Rows({"chat.archive"}, <<"check", "SetChatArchived">>)
    \cup Rows({"chat.set_read"}, <<"check", "SetChatRead">>)

Listings ==
    Rows({"statuses.list", "calls.list", "channels.list", "communities.list"}, <<"look">>)
    \cup Rows({"channel.messages"}, <<"check", "ChannelMessages">>)
    \cup Rows({"messages.list", "message.get"}, <<"check", "look", "keep">>)
    \cup Rows({"messages.search", "contacts.list", "contacts.shareable", "link.preview"},
            <<"check", "look">>)
    \cup Rows({"link.preview.refresh"}, <<"check", "RefreshLinkPreview">>)

Sends ==
    Rows({"message.played"}, <<"check", "MarkPlayed", "save", "tell">>)
    \cup Rows({"message.send"}, <<"check", "SendText", "save", "tell">>)
    \cup Rows({"message.send_contact"}, <<"check", "SendContactCard", "save", "tell">>)
    \cup Rows({"message.send_buttons"}, <<"check", "SendButtonPrompt", "save", "tell">>)

MoreSends ==
    Rows({"message.send_list"}, <<"check", "SendListPrompt", "save", "tell">>)
    \cup Rows({"message.answer_prompt"}, <<"check", "SendPromptAnswer", "save", "tell">>)
    \cup Rows({"message.send_media"}, <<"check", "SendMedia", "save", "keep", "tell">>)
    \cup Rows({"sticker.send"}, <<"check", "SendStoredSticker", "save", "keep", "tell">>)

(* Mutant: the service publishes the star that the gateway has announced.   *)
PublishedTwice ==
    Rows({"message.react"}, <<"check", "SendReaction">>)
    \cup Rows({"message.pin"}, <<"check", "PinMessage">>)
    \cup Rows({"message.unpin"}, <<"check", "UnpinMessage">>)
    \cup Rows({"message.star"}, <<"check", "SetMessageStarred", "tell">>)
    \cup Rows({"messages.starred"}, <<"check", "look">>)
    \cup Rows({"message.forward"}, <<"check", "ForwardMessage", "save", "keep", "tell">>)
    \cup Rows({"message.edit"}, <<"check", "EditText", "save", "tell">>)
    \cup Rows({"message.delete"}, <<"check", "DeleteMessage", "save", "tell">>)

MessageChanges ==
    Rows({"message.react"}, <<"check", "SendReaction">>)
    \cup Rows({"message.pin"}, <<"check", "PinMessage">>)
    \cup Rows({"message.unpin"}, <<"check", "UnpinMessage">>)
    \cup Rows({"message.star"}, <<"check", "SetMessageStarred">>)
    \cup Rows({"messages.starred"}, <<"check", "look">>)
    \cup Rows({"message.forward"}, <<"check", "ForwardMessage", "save", "keep", "tell">>)
    \cup Rows({"message.edit"}, <<"check", "EditText", "save", "tell">>)
    \cup Rows({"message.delete"}, <<"check", "DeleteMessage", "save", "tell">>)

(* A picture that could not be fetched changes nothing; without message     *)
(* identifiers only this computer marks the chat read.                      *)
Contacts ==
    Rows({"contact.resolve"}, <<"check", "look", "save">>)
    \cup Rows({"contact.save"}, <<"check", "look", "save", "save", "tell">>)
    \cup Rows({"message.revisions"}, <<"check", "look">>)
    \cup {"chat.avatar"} \X {<<"check", "look">>, <<"check", "look", "save", "tell">>}
    \cup {"chat.read"} \X
          {<<"check", "MarkRead", "save", "tell">>, <<"check", "save", "tell">>}
    \cup Rows({"chat.typing"}, <<"check", "SetTyping">>)
    \cup Rows({"contact.presence.subscribe"}, <<"check", "SubscribePresence">>)

Handlers ==
    Settings \cup ChatLists \cup ListsAndBlocks \cup Features \cup Groups \cup ChatsAndChannels
    \cup AccountSettings \cup ChatChanges \cup Listings \cup Sends \cup MoreSends \cup MessageChanges
    \cup Contacts

Under(table, name) == {row[2] : row \in {r \in table : r[1] = name}}

(* The handler's steps with those of its gateway operation in their place:  *)
(* a handler calls one operation at most.                                   *)
Expanded(steps) ==
    IF \E i \in DOMAIN steps : steps[i] \notin Steps
    THEN LET i == CHOOSE j \in DOMAIN steps : steps[j] \notin Steps
         IN  {SubSeq(steps, 1, i - 1) \o inner \o SubSeq(steps, i + 1, Len(steps)) :
                 inner \in Under(Gateway, steps[i])}
    ELSE {steps}

Methods  == {row[1] : row \in Handlers}
Programs == [m \in Methods |-> UNION {Expanded(steps) : steps \in Under(Handlers, m)}]

=============================================================================
