--------------------------- MODULE MCConversation ----------------------------
EXTENDS Conversation
MCTools == {"file_read", "file_write"}
=============================================================================
