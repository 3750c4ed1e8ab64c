SPECIFICATION Spec
CONSTANTS
  MaxAsked = 2
  Replies <- Reply
  Size = 3
  SizeAt = 2
  Chunk = 4
  SendRoom = 2
  Zero = Zero
  Garbage = Garbage
  Faults = {"bad_config", "no_socket", "refused", "server_ends", "full", "short_write", "lost_write"}
INVARIANT
  CurNumCounts
