--------------------------- MODULE MCNotifications ---------------------------
EXTENDS Notifications
MCQuiet == {"working"}
=============================================================================
