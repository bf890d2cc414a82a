---------------------------------- MODULE Chat ----------------------------------
(***************************************************************************)
(* Support chat: modules/chat/chat.service.ts behind the chat events of    *)
(* infrastructure/realtime/socket.handlers.ts.                             *)
(*                                                                         *)
(* A conversation is found by one participant and created when there is    *)
(* none; nothing in the collection keeps a customer's unique. A message is *)
(* created, then written into its conversation as lastMessage, then emitted*)
(* to the room. Messages are numbered in the order of their creation.      *)
(***************************************************************************)
EXTENDS Realtime

CONSTANTS
    Conversation,   \* the ids the collection can draw
    historyLimit    \* messages a chat:history answers

VARIABLES
    participants,   \* participants[c]: the pair of users, in order
    lastMessage,    \* lastMessage[c]: its number, 0 for none
    recent,         \* the stored conversations, last updated first
    messages,       \* messages[m]: conversation and sender
    alerted,        \* chat alerts emitted: message and the user of the room
    known,          \* known[s]: messages the client of s has, by history or emit
    begun,          \* begun[s]: chats the client was told it started or joined
    opened,         \* opened[s]: those whose history it has then read in full
    doubled,        \* history: users whose first chats were started twice at once
    overlapped,     \* history: conversations two messages were sent to at once
    torn            \* history: messages whose send broke off

conversations == <<participants, lastMessage, recent, messages>>
clients == <<known, begun, opened>>
chatHistory == <<doubled, overlapped, torn>>
chatVars == <<conversations, alerted, clients, chatHistory>>

ChatStep == {"chat.create", "chat.find", "chat.message", "chat.save"}

ChatInit ==
    /\ participants = [c \in {} |-> <<>>]
    /\ lastMessage = [c \in {} |-> 0]
    /\ recent = <<>>
    /\ messages = <<>>
    /\ alerted = {}
    /\ known = [s \in Socket |-> {}]
    /\ begun = [s \in Socket |-> {}]
    /\ opened = [s \in Socket |-> {}]
    /\ doubled = {} /\ overlapped = {} /\ torn = {}

\* Documents, as far as they are told apart here.
ConversationDoc(pair) == [participants |-> pair, lastMessage |-> 0]
MessageDoc(c, u) == [conversation |-> c, sender |-> u]

isParticipant(c, u) == u \in {participants[c][1], participants[c][2]}
isAdmin(u) == u \in Admin

\* Where the conversations of u stand in recent.
Of(u) == {k \in DOMAIN recent : isParticipant(recent[k], u)}

\* c, last updated, before the others.
Foremost(c) ==
    LET p == CHOOSE k \in DOMAIN recent : recent[k] = c IN
    [k \in DOMAIN recent |-> IF k = 1 THEN c ELSE IF k <= p THEN recent[k - 1] ELSE recent[k]]

MessagesOf(c) == {m \in DOMAIN messages : messages[m].conversation = c}

\* A socket that has closed meanwhile joins nothing.
JoinRoom(s, c) == rooms' = IF isOpen(s) THEN [rooms EXCEPT ![s] = @ \cup {c}] ELSE rooms

\* The client of s is told that it has started, or joined, chat c.
Acknowledged(s, c) == begun' = IF isOpen(s) THEN [begun EXCEPT ![s] = @ \cup {c}] ELSE begun

RequestOn(s) == [NoRequest EXCEPT !.user = owner[s], !.socket = s, !.instance = home[s]]

-------------------------------------------------------------------------------
(* chat:start *)

\* The first superAdmin the query meets; a deleted one is the fallback.
getSuperAdminUser == CHOOSE a \in Admin : TRUE

\* findOne({ participants }).sort({ updatedAt: -1 })
findExisting(u) == recent[Min(Of(u))]

\* A customer starts, or resumes, the chat with support; an administrator the
\* one of a customer. An existing one is joined at once.
StartConversation(h, s, target) ==
    LET u == owner[s]
        found == findExisting(target)
    IN /\ isOpen(s)
       /\ target = u \/ isAdmin(u)
       /\ IF Of(target) # {}
          THEN /\ Serve("chat")
               /\ JoinRoom(s, found) /\ Acknowledged(s, found)
               /\ UNCHANGED doubled
          ELSE /\ Accept(h, "chat", "chat.create",
                         [RequestOn(s) EXCEPT !.target = target,
                                              !.pair = IF isAdmin(u) THEN <<u, target>>
                                                       ELSE <<u, getSuperAdminUser>>])
               /\ doubled' = IF \E g \in Handler : at[g] = "chat.create" /\ req[g].target = target
                             THEN doubled \cup {target} ELSE doubled
               /\ UNCHANGED <<rooms, begun>>
       /\ UNCHANGED <<presence, conversations, alerted, known, opened, overlapped, torn>>

CreateConversation(h, c) ==
    /\ at[h] = "chat.create"
    /\ c \notin DOMAIN participants
    /\ LET created == ConversationDoc(req[h].pair) IN
       /\ participants' = with(participants, c, created.participants)
       /\ lastMessage' = with(lastMessage, c, created.lastMessage)
    /\ recent' = <<c>> \o recent
    /\ GoTo(h, "chat.find", [req[h] EXCEPT !.conversation = c])
    /\ UNCHANGED <<presence, rooms, messages, alerted, clients, chatHistory>>

\* Slip: the socket joins the room of a resumed conversation only.
FindCreated_NotJoined(h) ==
    /\ at[h] = "chat.find"
    /\ Acknowledged(req[h].socket, req[h].conversation)
    /\ Answer(h)
    /\ UNCHANGED <<presence, rooms, conversations, alerted, known, opened, chatHistory>>

\* The created conversation is read back with its participants, and joined.
FindCreated(h) ==
    /\ at[h] = "chat.find"
    /\ JoinRoom(req[h].socket, req[h].conversation)
    /\ Acknowledged(req[h].socket, req[h].conversation)
    /\ Answer(h)
    /\ UNCHANGED <<presence, conversations, alerted, known, opened, chatHistory>>

-------------------------------------------------------------------------------
(* chat:join, chat:leave, chat:history *)

Join(s, c) ==
    /\ isOpen(s) /\ c \in DOMAIN participants /\ c \notin rooms[s]
    /\ Serve("chat")
    /\ JoinRoom(s, c) /\ Acknowledged(s, c)
    /\ UNCHANGED <<presence, conversations, alerted, known, opened, chatHistory>>

Leave(s, c) ==
    /\ isOpen(s) /\ c \in rooms[s]
    /\ Serve("chat")
    /\ rooms' = [rooms EXCEPT ![s] = @ \ {c}]
    /\ begun' = [begun EXCEPT ![s] = @ \ {c}]
    /\ opened' = [opened EXCEPT ![s] = @ \ {c}]
    /\ UNCHANGED <<presence, conversations, alerted, known, chatHistory>>

\* The conversation's messages from the first on, up to the limit.
getConversationHistory(c) ==
    {m \in MessagesOf(c) : Cardinality({k \in MessagesOf(c) : k < m}) < historyLimit}

\* A client asks for the history of a chat.
History(s, c) ==
    LET shown == getConversationHistory(c)
        u == owner[s]
    IN /\ isOpen(s) /\ c \in DOMAIN participants
       /\ isParticipant(c, u) \/ isAdmin(u)
       /\ Serve("chat")
       /\ known' = [known EXCEPT ![s] = @ \cup shown]
       /\ opened' = IF c \in begun[s] /\ Cardinality(MessagesOf(c)) <= historyLimit
                    THEN [opened EXCEPT ![s] = @ \cup {c}] ELSE opened
       /\ UNCHANGED <<presence, rooms, conversations, alerted, begun, chatHistory>>

-------------------------------------------------------------------------------
(* chat:message *)

\* The conversation is loaded; its sender is a participant or an administrator.
SendMessage(h, s, c) ==
    /\ isOpen(s) /\ c \in DOMAIN participants
    /\ isParticipant(c, owner[s]) \/ isAdmin(owner[s])
    /\ Accept(h, "chat", "chat.message", [RequestOn(s) EXCEPT !.conversation = c])
    /\ UNCHANGED <<presence, rooms, chatVars>>

CreateMessage(h) ==
    LET c == req[h].conversation
        sending == {g \in Handler \ {h} : at[g] = "chat.save" /\ req[g].conversation = c}
    IN /\ at[h] = "chat.message"
       /\ messages' = Append(messages, MessageDoc(c, req[h].user))
       /\ overlapped' = IF sending # {} THEN overlapped \cup {c} ELSE overlapped
       /\ GoTo(h, "chat.save", [req[h] EXCEPT !.message = Len(messages) + 1])
       /\ UNCHANGED <<presence, rooms, participants, lastMessage, recent, alerted, clients,
                      doubled, torn>>

\* The first participant that is not the sender.
recipient(c, sender) ==
    IF participants[c][1] # sender THEN participants[c][1] ELSE participants[c][2]

\* The sockets whose client the message reaches.
Audience(c, i) == {s \in Reached(i) : c \in rooms[s]}

\* Slip: a message is written into a conversation that has none.
lastMessageOf_First(c, m) == IF lastMessage[c] = 0 THEN m ELSE lastMessage[c]

lastMessageOf(c, m) == m

\* save() of the loaded conversation, then both emits.
SaveConversation(h) ==
    LET c == req[h].conversation
        m == req[h].message
        heard == Audience(c, req[h].instance)
    IN /\ at[h] = "chat.save"
       /\ lastMessage' = [lastMessage EXCEPT ![c] = lastMessageOf(c, m)]
       /\ recent' = Foremost(c)
       /\ known' = [s \in Socket |-> IF s \in heard THEN known[s] \cup {m} ELSE known[s]]
       /\ alerted' = alerted \cup {[message |-> m, to |-> recipient(c, req[h].user)]}
       /\ Answer(h)
       /\ UNCHANGED <<presence, rooms, participants, messages, begun, opened, chatHistory>>

\* The database refuses the create or the save: the sender is told the message
\* failed, though it may be stored.
SendFails(h) ==
    /\ at[h] \in {"chat.message", "chat.save"}
    /\ torn' = IF at[h] = "chat.save" THEN torn \cup {req[h].message} ELSE torn
    /\ Answer(h)
    /\ UNCHANGED <<presence, rooms, conversations, alerted, clients, doubled, overlapped>>

-------------------------------------------------------------------------------
(* The list of an administrator *)

\* The conversation at k as u is shown it: with the other participant.
formatConversation(k, u) == [conversation |-> recent[k], partner |-> recipient(recent[k], u)]

\* An entry has a partner who is not an administrator, and who is not met before it.
UniquePartner(k, a, before) ==
    LET partner == formatConversation(k, a).partner IN
    ~isAdmin(partner) /\ \A j \in before : formatConversation(j, a).partner # partner

\* Slip: the conversation updated first is kept.
getConversations_Oldest(a) ==
    {formatConversation(k, a) :
        k \in {k \in Of(a) : UniquePartner(k, a, {j \in Of(a) : j > k})}}

\* Each partner with the conversation updated last.
getConversations(a) ==
    {formatConversation(k, a) :
        k \in {k \in Of(a) : UniquePartner(k, a, {j \in Of(a) : j < k})}}

-------------------------------------------------------------------------------
(* Properties *)

\* lastMessage is the newest message of the conversation once every send to it
\* has been answered, except where two sends to it overlapped or one broke off.
LastMessageIsNewest ==
    \A c \in DOMAIN participants \ overlapped :
        LET all == MessagesOf(c)
            settled == \A h \in Handler : at[h] = "chat.save" => req[h].conversation # c
        IN settled /\ all \cap torn = {} =>
             lastMessage[c] = IF all = {} THEN 0 ELSE Max(all)

\* A client that started or joined a chat and then read its history has every
\* message of it, those sent while it was reading included, and the participant
\* who did not send a message has been alerted to it: except a message that is
\* being sent or whose send broke off.
NoMessageMissed ==
    LET sending == {req[h].message : h \in {g \in Handler : at[g] = "chat.save"}} IN
    /\ \A s \in Socket : \A c \in opened[s] :
          MessagesOf(c) \ (torn \cup sending) \subseteq known[s]
    /\ \A m \in DOMAIN messages \ (torn \cup sending) :
          LET pair == participants[messages[m].conversation]
              sender == messages[m].sender
          IN \A u \in {pair[1], pair[2]} \ {sender} :
                sender \in {pair[1], pair[2]} => [message |-> m, to |-> u] \in alerted

\* A customer and the administrator meet in one place. The customer has one
\* conversation, unless two starts both looked before either had created it; and
\* even then the one the customer resumes is the one the administrator's list
\* shows for the customer, unless the two are with different administrators.
SamePlace ==
    \A u \in Customer :
        LET mine == Of(u) IN
        /\ u \notin doubled => \A j, k \in mine : j = k
        /\ mine # {} => \A a \in Admin :
              (\A k \in mine : isParticipant(recent[k], a)) =>
                  {e \in getConversations(a) : e.partner = u} =
                      {[conversation |-> findExisting(u), partner |-> u]}
===============================================================================
