---------------------------------- MODULE MCBot ----------------------------------
(* Bot with the nicknames it tries.                                        *)
EXTENDS Bot

CONSTANTS b1, b2, b3

NickTries == <<b1, b2, b3>>
=================================================================================
