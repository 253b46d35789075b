\* A revalidation cancelled after some of its days.
SPECIFICATION StreakSpec
CONSTANTS
    MaxDay = 5
    Trading <- FridayOn
    Postures = {offensive, normal}
    Updates = {u1}
    MaxInterruptions = 1
    MaxLate = 0
INVARIANTS StreakFollowsPostures
SYMMETRY Alike
\* The calendar ends and updates may stay away.
CHECK_DEADLOCK FALSE
