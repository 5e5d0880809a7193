\* The login and the registration window with the client's loop thread.
SPECIFICATION FairSpec
CONSTANTS
  Names = {"alice", "bob"}
  MaxUsers = 3
  ServerUp = FALSE
INVARIANTS TypeOK PostsInOrder AssertIsStopped NoThreadWithoutClient NeverStuck
PROPERTIES LifeSpec DestructorReturns
CHECK_DEADLOCK FALSE
