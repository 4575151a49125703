-------------------------- MODULE MCChannelRecovery --------------------------
EXTENDS ChannelRecovery
CONSTANTS ch1, ch2, ch3, x, y
MCChats == {ch1, ch2, ch3}
MCAdmins == {x}
MCAdminsTwo == {x, y}
=============================================================================
