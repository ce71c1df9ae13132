CONSTANTS
  robot = robot  ground = ground  crate = crate
  feet = feet  hands = hands  crates = crates
  RobotName = {robot, ground, crate}
  Loaded <- MCLoaded
  Pair = {feet, hands, crates}
  Fixed = {crates}
  Param = {sliding, sticking}
  RobotsOf <- MCRobotsOf
SPECIFICATION ContactsSpec
INVARIANTS NoContactMissing StaleOnlyAfterClear ButtonsFollowContacts
