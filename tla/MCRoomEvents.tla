--------------------------- MODULE MCRoomEvents ---------------------------
EXTENDS RoomEvents
=============================================================================
