SPECIFICATION Spec
CHECK_DEADLOCK FALSE
CONSTANTS
    NoProfile = NoProfile
    Specs <- TheSpecs
    Outlines <- TheOutlines
    Skeletons <- TheSkeletons
    Fragments <- TheFragments
    Units <- TheUnits
    Guides <- TheGuides
    Answers <- TheAnswers
    Profiles <- TheProfiles
    Blueprint <- TheBlueprint
    RunVersion = "1.2"
    Setting <- TheSetting
    MaxRedo = 1
INVARIANTS GuideInv ReportsSound
PROPERTIES RepairIsLocal AssemblyLosesNothing
