---------------------------- MODULE MCEntrySetup ----------------------------
(* Instances of EntrySetup for TLC.                                        *)
EXTENDS EntrySetup

\* a panel and a camera
MCOrder == <<"panel", "camera">>
OnlyPanel == <<"panel">>
MCPanels == {"panel"}
NoControls == {}
=============================================================================
