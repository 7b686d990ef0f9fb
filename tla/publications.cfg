\* Publications of up to three chapters, from the container to the last item.
SPECIFICATION Spec
CONSTANTS
    Books <- MCBooks
    Subject <- MCSubject
INVARIANTS ChaptersInOrder AudioFollowsItsText KnowsItself
PROPERTY PublicationIsRead
CHECK_DEADLOCK FALSE
