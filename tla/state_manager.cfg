\* Two requests of two steps; the GPU has room for a middle checkpoint or two small
\* ones, the CPU for a large one, so that states move between the tiers and the disk.
SPECIFICATION Spec
CONSTANTS
  r1 = r1
  r2 = r2
  u1 = u1
  u2 = u2
  u3 = u3
  u4 = u4
  Requests = {r1, r2}
  Sizes = {1, 2, 3}
  Names = {u1, u2, u3, u4}
  None = None
  Total = 2
  GpuBudget = 2
  CpuBudget = 3
CHECK_DEADLOCK FALSE
SYMMETRY Symmetry
INVARIANTS
  StateTypeOK
  AccountsMatchStore
  PayloadExists
