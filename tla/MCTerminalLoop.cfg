SPECIFICATION TerminalSpec
CONSTANTS
  m1 = m1
  m2 = m2
  Msgs = {m1, m2}
  Sessions = {home, task, other}
  Home = home
  Task = task
  Jobs = {j1}
  Repeating = {j1}
  QueueLimit = 2
  MailTurns = 1
  Shared = {task}
  Bosses = {home}
  MaxMail = 1
  MaxCommands = 1
  MaxCrashes = 1
 
PROPERTY QueueMoves
PROPERTY SwitchHappens
CHECK_DEADLOCK FALSE
