------------------------------ MODULE MCOpenCode ------------------------------
EXTENDS OpenCode

For(c, access, messages, pieces) ==
  [scope |-> c, access |-> access, messages |-> messages, pieces |-> pieces]

\* Turns of a chat whose loop may be slow, of two steps and of two pieces; two
\* turns of a chat; and turns of two chats with access levels of their own.
SomePlans ==
  {<<For("c", "full", 2, 1)>>,
   <<For("c", "full", 1, 2)>>,
   <<For("a", "full", 1, 0), For("a", "full", 1, 0)>>,
   <<For("a", "full", 1, 0), For("b", "read-only", 0, 0)>>}
=============================================================================
