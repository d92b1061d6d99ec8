---------------------------- MODULE MCGroupHistory ----------------------------
(* Groups and single nodes to start from, and what the user does: the two    *)
(* sessions of the run `groups`, and the one of `group_paste_redo`.          *)
EXTENDS GroupHistory

NoGroups == {}
APair == {{0, 1}}

Editing == [loose |-> {0}, bound |-> 1,
            gestures |-> {"create", "clipboard", "group", "lock", "toggle"}]
Regrouping == [loose |-> {0, 1, 2}, bound |-> 2, gestures |-> {"group", "lock"}]
Pasting == [loose |-> {}, bound |-> 3, gestures |-> {"clipboard", "lock"}]
BothSessions == {Editing, Regrouping}
PasteSession == {Pasting}
=============================================================================
