------------------------------ MODULE ChatStore ------------------------------
(***************************************************************************)
(* The two tables of the WhatsApp plugin's messages.db                     *)
(* (plugins/whatsapp/messagestore.go) and the SQL statements that write    *)
(* them, as functions from a table to a table.  The database has one       *)
(* connection (SetMaxOpenConns(1)) and no explicit transaction, so a       *)
(* statement is atomic and two statements never are.                       *)
(*                                                                         *)
(* A table maps each possible key to its row or to NoRow.  Left out: the   *)
(* columns no decision reads (updated_at_unix_ms, the sender, the time).   *)
(***************************************************************************)
CONSTANTS
    Groups,         \* JIDs of group chats
    Contacts,       \* JIDs of 1:1 chats, each also its contact's JID
    Msgs,           \* message ids
    ChatOf,         \* the chat each message belongs to
    Names,          \* non-empty group subjects and address-book names
    Bodies,         \* non-empty message bodies (text, or the placeholder)
    Blank,          \* the empty string
    NoRow           \* stands where a table has no row

Chats == Groups \cup Contacts

\* chatRecord: is_group, name (a group's subject), contact_name (a 1:1's).
ChatRow == [group : BOOLEAN, name : Names \cup {Blank}, contact : Names \cup {Blank}]

\* messageRecord: body, is_deleted, is_edited.
MsgRow == [body : Bodies \cup {Blank}, deleted : BOOLEAN, edited : BOOLEAN]

ASSUME KindsAssumption == Groups \cap Contacts = {} /\ Msgs \cap Chats = {}
ASSUME ChatOfAssumption == ChatOf \in [Msgs -> Chats]
ASSUME BlankAssumption == Blank \notin Names \cup Bodies
ASSUME NoRowAssumption == NoRow \notin ChatRow \cup MsgRow

ChatTable == [Chats -> ChatRow \cup {NoRow}]
MsgTable  == [Msgs -> MsgRow \cup {NoRow}]

-----------------------------------------------------------------------------
\* The chats table.

\* EnsureChat: INSERT ... ON CONFLICT DO NOTHING.
EnsureChat(table, c) ==
    [table EXCEPT ![c] =
        IF @ = NoRow THEN [group |-> c \in Groups, name |-> Blank, contact |-> Blank]
                     ELSE @]

\* A plausible slip in UpsertChatName: it sets the name of a new row only.
UpsertChatNameOnce(table, c, n) ==
    [table EXCEPT ![c] =
        IF @ = NoRow THEN [group |-> TRUE, name |-> n, contact |-> Blank] ELSE @]

\* UpsertChatName: the callers always pass is_group = true.
UpsertChatName(table, c, n) ==
    [table EXCEPT ![c] =
        IF @ = NoRow THEN [group |-> TRUE, name |-> n, contact |-> Blank]
                     ELSE [group |-> TRUE, name |-> n, contact |-> @.contact]]

\* A plausible slip in UpsertContactName: an unsaved contact keeps its old name.
UpsertContactNameKeeps(table, c, n) ==
    [table EXCEPT ![c] =
        IF @ = NoRow THEN [group |-> FALSE, name |-> Blank, contact |-> n]
        ELSE [group |-> @.group, name |-> @.name,
              contact |-> IF n = Blank THEN @.contact ELSE n]]

\* UpsertContactName: a new row is a 1:1; an old one keeps is_group and name.
UpsertContactName(table, c, n) ==
    [table EXCEPT ![c] =
        IF @ = NoRow THEN [group |-> FALSE, name |-> Blank, contact |-> n]
                     ELSE [group |-> @.group, name |-> @.name, contact |-> n]]

-----------------------------------------------------------------------------
\* The messages table.

\* AppendMsg (Append): an upsert by message_id that overwrites every column;
\* its caller never sets Deleted or Edited.
AppendMsg(table, m, b) ==
    [table EXCEPT ![m] = [body |-> b, deleted |-> FALSE, edited |-> FALSE]]

\* A plausible slip in MarkDeleted: it sets the mark and leaves the body.
MarkDeletedKeepsBody(table, m) ==
    [table EXCEPT ![m] =
        IF @ = NoRow THEN @ ELSE [body |-> @.body, deleted |-> TRUE, edited |-> @.edited]]

\* MarkDeleted: UPDATE, nothing where there is no row.
MarkDeleted(table, m) ==
    [table EXCEPT ![m] =
        IF @ = NoRow THEN @ ELSE [body |-> Blank, deleted |-> TRUE, edited |-> @.edited]]

\* MarkEdited: UPDATE, nothing where there is no row; is_deleted is kept.
MarkEdited(table, m, b) ==
    [table EXCEPT ![m] =
        IF @ = NoRow THEN @ ELSE [body |-> b, deleted |-> @.deleted, edited |-> TRUE]]

=============================================================================
