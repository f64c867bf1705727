SPECIFICATION Spec
CONSTANTS
  ram_pages = 2
  virt_pages = 4
INVARIANTS
  PageTableSound
  ResidentKeepsData
PROPERTIES
  AccessCompletes
CHECK_DEADLOCK FALSE
