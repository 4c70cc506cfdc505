CONSTANTS
  main_b = main_b alt = alt
  Brokers = {main_b, alt}
  Main = {main_b}
  Announcements <- MCAnnouncements
  MaxFaults = 1
  Scenarios <- MCScenarios
SPECIFICATION Spec
INVARIANT PortIsServed
