CONSTANTS
 c1=c1
 c2=c2
 c3=c3
 python=python
 jython=jython
 markdown=markdown
 None=None
 Docs={c1,c2,c3}
 Languages={python,jython,markdown}
 Selected={python,jython}
 MaxCells=3
 MaxEvents=3
 MaxWire=2
 MaxRegistered=2
SPECIFICATION Spec
CHECK_DEADLOCK FALSE
INVARIANTS SyncedAreTheMatching ServerFollows
SYMMETRY Symmetry
