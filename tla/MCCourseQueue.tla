--------------------------- MODULE MCCourseQueue ---------------------------
\* Two courses under way: the validation of the second never clears.
EXTENDS CourseQueue

CONSTANTS c1, c2

ThePath == [t \in Topics |->
    IF t = c1 THEN <<"write_prompt", "save_response", "finalize", "done">>
    ELSE <<"validate", "done">>]

Unclear == {<<c2, 1>>}
=============================================================================
